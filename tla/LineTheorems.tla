---------------------------- MODULE LineTheorems ----------------------------
(***************************************************************************)
(* What parser.c and expand.c make of a line, for every line and every     *)
(* size of the vectors: the parser delivers what Grammar.tla finds in the  *)
(* line, and the expansion the beginning of what the words stand for.      *)
(***************************************************************************)
EXTENDS Grammar, Expand, Induction, SequenceTheorems

(* parse_command: the tokens of a segment                                  *)

\* The commands parse_command builds, and with them the operator that waits
\* for its operand.
Stage == [args : Seq(STRING), input : Word, output : Word, append : BOOLEAN,
          background : BOOLEAN, delim : Word]

Parsed == [cmd : Stage, op : Redirections \cup {None}]

\* A command that was parsed is one, and so is not the answer "error".
LEMMA StageCommand ==
  ASSUME NEW cmd \in Stage
  PROVE  cmd \in Command /\ cmd # None
<1>1. cmd.args \in Seq(Word)
  BY DEF Stage, Word
<1>2. cmd \in Command
  BY <1>1 DEF Stage, Command
<1> QED BY <1>2, NoneAssumption

\* A token leaves a stage and the operator that waits for an operand.
LEMMA TokenType ==
  ASSUME NEW v \in Parsed, NEW t \in STRING
  PROVE  ParseToken(v, t) \in Parsed
<1>1. v.cmd \in Stage /\ v.op \in Redirections \cup {None}
  BY DEF Parsed
<1>2. ASSUME NEW op PROVE Operand(v.cmd, op, t) \in Stage
  BY <1>1 DEF Operand, Stage, Word
<1>3. [v.cmd EXCEPT !.background = TRUE] \in Stage
  BY <1>1 DEF Stage
<1>4. [v.cmd EXCEPT !.args = Append(@, t)] \in Stage
  <2>1. Append(v.cmd.args, t) \in Seq(STRING)
    BY <1>1 DEF Stage
  <2> QED BY <1>1, <2>1 DEF Stage
<1> QED BY <1>1, <1>2, <1>3, <1>4 DEF ParseToken, Parsed

\* The loop of parse_command: what it has after each token.
LEMMA TokenRun ==
  ASSUME NEW s \in Seq(STRING), NEW base \in Parsed
  PROVE  \E run \in [0 .. Len(s) -> Parsed] :
           /\ run[0] = base
           /\ \A n \in 1 .. Len(s) : run[n] = ParseToken(run[n - 1], s[n])
           /\ run[Len(s)] = FoldLeft(ParseToken, base, s)
<1> DEFINE L == Len(s)
           step == [n \in 1 .. L |-> [v \in Parsed |-> ParseToken(v, s[n])]]
           Solves(g) == g = [t \in SUBSET DOMAIN s |->
                               IF t = {} THEN base
                               ELSE LET x == Max(t) IN ParseToken(g[t \ {x}], s[x])]
           iter == CHOOSE g : Solves(g)
<1>1. L \in Nat /\ DOMAIN s = 1 .. L /\ \A n \in 1 .. L : s[n] \in STRING
  OBVIOUS
<1>2. FoldLeft(ParseToken, base, s) = iter[1 .. L]
  BY <1>1, Zenon DEF FoldLeft, MapThenFoldSet
<1> HIDE DEF iter
<1>3. ASSUME NEW n \in 1 .. L, NEW v \in Parsed
      PROVE  step[n][v] = ParseToken(v, s[n]) /\ step[n][v] \in Parsed
  BY <1>1, TokenType
<1> HIDE DEF step, L
<1>4. IsStep(step, L, Parsed)
  BY <1>3 DEF IsStep
<1>5. Solves(iter)
  <2>1. PICK g : /\ IsFold(g, base, step, L, Parsed)
                 /\ \A t \in SUBSET (1 .. L) : g[t] \in Parsed
    BY <1>1, <1>4, FoldExists
  <2>2. \A t \in (SUBSET (1 .. L)) \ {{}} : g[t] = ParseToken(g[t \ {Max(t)}], s[Max(t)])
    BY <1>3, <2>1 DEF IsFold
  <2>3. Solves(g)
    BY <1>1, <2>1, <2>2 DEF IsFold
  <2> HIDE DEF Solves
  <2> QED BY <2>3, Zenon DEF iter
<1>6. IsFold(iter, base, step, L, Parsed)
  BY <1>1, <1>3, <1>5, MaxIn DEF IsFold
<1>7. PICK run : IsRun(run, base, step, L, Parsed) /\ run[L] = iter[1 .. L]
  BY <1>1, <1>4, <1>6, FoldRun
<1>8. ASSUME NEW n \in 1 .. L PROVE run[n] = ParseToken(run[n - 1], s[n])
  <2>1. run[n] = step[n][run[n - 1]] /\ run[n - 1] \in Parsed
    BY <1>1, <1>7 DEF IsRun
  <2> QED BY <1>3, <2>1
<1> QED BY <1>2, <1>7, <1>8 DEF L, IsRun

-----------------------------------------------------------------------------
\* Whether a token is an operand shows in the token before it: that is an
\* operator.  The first token is none.
LEMMA OperandStep ==
  ASSUME NEW s \in Seq(STRING)
  PROVE  /\ ~IsOperand(s, 1)
         /\ \A k \in 1 .. Len(s) - 1 : IsOperand(s, k + 1) <=> IsOperator(s, k)
<1> DEFINE Before(k) == {j \in 1 .. k - 1 : \A i \in j .. k - 1 : s[i] \in Redirections}
<1>1. ASSUME NEW k \in Nat
      PROVE  IsFiniteSet(Before(k)) /\ Cardinality(Before(k)) \in Nat
  <2>1. Before(k) \subseteq 1 .. k - 1
    OBVIOUS
  <2>2. IsFiniteSet(1 .. k - 1)
    BY FS_Interval
  <2> QED BY <2>1, <2>2, FS_Subset, FS_CardinalityType
<1>2. ASSUME NEW k \in 1 .. Len(s) - 1
      PROVE  RunBefore(s, k + 1) = IF s[k] \in Redirections THEN RunBefore(s, k) + 1 ELSE 0
  <2>1. (k + 1) - 1 = k
    OBVIOUS
  <2>2. \A j : j \in Before(k + 1) <=> s[k] \in Redirections /\ (j \in Before(k) \/ j = k)
    BY <2>1
  <2>3. k \notin Before(k)
    OBVIOUS
  <2>4. CASE s[k] \in Redirections
    <3>1. Before(k + 1) = Before(k) \cup {k}
      BY <2>2, <2>4
    <3> HIDE DEF Before
    <3>2. Cardinality(Before(k + 1)) = Cardinality(Before(k)) + 1
      BY <1>1, <2>3, <3>1, FS_AddElement
    <3> QED BY <2>4, <3>2 DEF RunBefore, Before
  <2>5. CASE s[k] \notin Redirections
    <3>1. Before(k + 1) = {}
      BY <2>2, <2>5
    <3> HIDE DEF Before
    <3>2. Cardinality(Before(k + 1)) = 0
      BY <3>1, FS_EmptySet
    <3> QED BY <2>5, <3>2 DEF RunBefore, Before
  <2> QED BY <2>4, <2>5
<1>3. \A k \in Nat : RunBefore(s, k) \in Nat
  BY <1>1 DEF RunBefore
<1>4. RunBefore(s, 1) = 0
  <2>1. Before(1) = {}
    OBVIOUS
  <2> QED BY <2>1, FS_EmptySet DEF RunBefore
<1> HIDE DEF Before
<1>5. ~IsOperand(s, 1)
  BY <1>4 DEF IsOperand
<1>6. ASSUME NEW k \in 1 .. Len(s) - 1
      PROVE  IsOperand(s, k + 1) <=> IsOperator(s, k)
  <2>1. \A b \in Nat : (b + 1) % 2 = 1 <=> ~ (b % 2 = 1)
    OBVIOUS
  <2>2. RunBefore(s, k) \in Nat /\ ~ (0 % 2 = 1)
    BY <1>3
  <2>3. CASE s[k] \in Redirections
    <3>1. RunBefore(s, k + 1) = RunBefore(s, k) + 1
      BY <1>2, <2>3
    <3>2. RunBefore(s, k + 1) % 2 = 1 <=> ~ (RunBefore(s, k) % 2 = 1)
      BY <2>1, <2>2, <3>1
    <3> QED BY <2>3, <3>2 DEF IsOperand, IsOperator
  <2>4. CASE s[k] \notin Redirections
    <3>1. RunBefore(s, k + 1) = 0
      BY <1>2, <2>4
    <3> QED BY <2>2, <2>4, <3>1 DEF IsOperand, IsOperator
  <2> QED BY <2>3, <2>4
<1> QED BY <1>5, <1>6

\* The positions of the arguments of a segment.
ArgumentPositions(s) == {k \in DOMAIN s : IsArgument(s, k)}

\* The arguments that are delivered are the first MAX_ARGS - 1 of the segment.
LEMMA ArgumentCount ==
  ASSUME NEW s \in Seq(STRING)
  PROVE  /\ \A i \in ArgumentPositions(s) : i \in Nat /\ i > 0
         /\ \A k \in 0 .. Len(s) :
              ArgumentsUpTo(s, k) = UpTo(ArgumentPositions(s), k)
         /\ \A k \in 1 .. Len(s) :
              k \in Considered(s) <=> Count(ArgumentPositions(s), k - 1) < MAX_ARGS - 1
         /\ Arguments(s) = FirstOf(ArgumentPositions(s), MAX_ARGS - 1)
<1>1. \A i \in ArgumentPositions(s) : i \in Nat /\ i > 0
  BY DEF ArgumentPositions
<1>2. ASSUME NEW k \in 0 .. Len(s)
      PROVE  ArgumentsUpTo(s, k) = UpTo(ArgumentPositions(s), k)
  <2>1. \A j : j \in ArgumentsUpTo(s, k) <=> j \in UpTo(ArgumentPositions(s), k)
    BY DEF ArgumentsUpTo, UpTo, ArgumentPositions
  <2> QED BY <2>1
<1>3. ASSUME NEW k \in 1 .. Len(s)
      PROVE  k \in Considered(s) <=> Count(ArgumentPositions(s), k - 1) < MAX_ARGS - 1
  <2>1. ArgumentsUpTo(s, k - 1) = UpTo(ArgumentPositions(s), k - 1)
    BY <1>2
  <2> QED BY <2>1 DEF Considered, Count
<1>4. \A k : k \in Arguments(s) <=> k \in FirstOf(ArgumentPositions(s), MAX_ARGS - 1)
  BY <1>3 DEF Arguments, FirstOf, Considered, ArgumentPositions
<1>5. Arguments(s) = FirstOf(ArgumentPositions(s), MAX_ARGS - 1)
  BY <1>4
<1> QED BY <1>1, <1>2, <1>3, <1>5

\* The same in terms of the arguments themselves.
LEMMA ConsideredCount ==
  ASSUME NEW s \in Seq(STRING)
  PROVE  /\ \A i \in Arguments(s) : i \in Nat /\ i > 0
         /\ Count(Arguments(s), 0) = 0
         /\ \A k \in 0 .. Len(s) : Count(Arguments(s), k) \in 0 .. MAX_ARGS - 1
         /\ \A k \in 1 .. Len(s) :
              /\ k \in Considered(s) <=> Count(Arguments(s), k - 1) < MAX_ARGS - 1
              /\ k \in Arguments(s) <=> k \in Considered(s) /\ IsArgument(s, k)
              /\ Count(Arguments(s), k) =
                   Count(Arguments(s), k - 1) + IF k \in Arguments(s) THEN 1 ELSE 0
         /\ \A k \in Arguments(s) :
              /\ k \in 1 .. Len(s)
              /\ Cardinality(ArgumentsUpTo(s, k)) = Count(Arguments(s), k)
<1> DEFINE P == ArgumentPositions(s)
           F == Arguments(s)
           M == MAX_ARGS - 1
<1>1. /\ M \in Nat /\ \A i \in P : i \in Nat /\ i > 0
      /\ F = FirstOf(P, M)
  BY ParserAssumption, ArgumentCount
<1>2. /\ \A i \in F : i \in Nat /\ i > 0 /\ i \in P
      /\ Count(F, 0) = 0
      /\ \A k \in Nat : /\ Count(F, k) \in 0 .. M
                        /\ Count(P, k) < M <=> Count(F, k) < M
                        /\ k + 1 \in F <=> k + 1 \in P /\ Count(F, k) < M
                        /\ Count(F, k + 1) = Count(F, k) + IF k + 1 \in F THEN 1 ELSE 0
      /\ \A k \in F : Count(P, k) = Count(F, k)
  <2> HIDE DEF P, F, M
  <2>1. AreFirst(F, P, M)
    BY <1>1, CountingTheFirst
  <2> QED BY <2>1 DEF AreFirst
<1>3. ASSUME NEW k \in 1 .. Len(s)
      PROVE  /\ k \in Considered(s) <=> Count(F, k - 1) < M
             /\ k \in F <=> k \in Considered(s) /\ IsArgument(s, k)
             /\ Count(F, k) = Count(F, k - 1) + IF k \in F THEN 1 ELSE 0
  <2>1. k - 1 \in Nat /\ (k - 1) + 1 = k
    OBVIOUS
  <2>2. k \in Considered(s) <=> Count(P, k - 1) < M
    BY ArgumentCount
  <2>3. k \in F <=> k \in Considered(s) /\ IsArgument(s, k)
    BY DEF Arguments
  <2> HIDE DEF P, M, F
  <2> QED BY <1>2, <2>1, <2>2, <2>3
<1>4. ASSUME NEW k \in F
      PROVE  k \in 1 .. Len(s) /\ Cardinality(ArgumentsUpTo(s, k)) = Count(F, k)
  <2>1. k \in 1 .. Len(s)
    BY DEF Arguments, Considered
  <2>2. Cardinality(ArgumentsUpTo(s, k)) = Count(P, k)
    BY <2>1, ArgumentCount DEF Count
  <2> QED BY <1>2, <2>1, <2>2
<1>5. \A k \in 0 .. Len(s) : Count(F, k) \in 0 .. M
  <2> HIDE DEF P, M, F
  <2> QED BY <1>2
<1> QED BY <1>2, <1>3, <1>4, <1>5

\* The operators of which the operand is among the first n tokens, and that
\* of the last of them.
Delivered(s, ops, n) == {k \in OperatorsIn(s, ops) : k + 1 <= n}

OperandRead(s, ops, n) ==
  IF Delivered(s, ops, n) = {} THEN None ELSE s[Max(Delivered(s, ops, n)) + 1]

AppendRead(s, n) ==
  Delivered(s, {">", ">>"}, n) # {} /\ s[Max(Delivered(s, {">", ">>"}, n))] = ">>"

\* Operand n + 1 is delivered by the operator that is token n.
LEMMA DeliveredStep ==
  ASSUME NEW s \in Seq(STRING), NEW ops, NEW n \in 0 .. Len(s) - 1
  PROVE  /\ n \notin OperatorsIn(s, ops) =>
              Delivered(s, ops, n + 1) = Delivered(s, ops, n)
         /\ n \in OperatorsIn(s, ops) =>
              /\ Delivered(s, ops, n + 1) # {}
              /\ Max(Delivered(s, ops, n + 1)) = n
<1>1. \A k \in OperatorsIn(s, ops) : k \in Nat
  BY DEF OperatorsIn, Considered
<1>2. CASE n \notin OperatorsIn(s, ops)
  <2>1. \A k : k \in Delivered(s, ops, n + 1) <=> k \in Delivered(s, ops, n)
    BY <1>1, <1>2 DEF Delivered
  <2> QED BY <1>2, <2>1
<1>3. CASE n \in OperatorsIn(s, ops)
  <2>1. n \in Delivered(s, ops, n + 1)
    BY <1>1, <1>3 DEF Delivered
  <2>2. \A k \in Delivered(s, ops, n + 1) : k \in Nat /\ k <= n
    BY <1>1 DEF Delivered
  <2>3. Max(Delivered(s, ops, n + 1)) = n
    BY <2>1, <2>2, MaxOf
  <2> QED BY <1>3, <2>1, <2>3
<1> QED BY <1>2, <1>3

\* What the loop of parse_command has made of the first n tokens.
TokensRead(v, s, n) ==
  /\ v.op = IF n \in OperatorsIn(s, Redirections) THEN s[n] ELSE None
  /\ Len(v.cmd.args) = Count(Arguments(s), n)
  /\ \A k \in Arguments(s) :
       k <= n => v.cmd.args[Count(Arguments(s), k)] = s[k]
  /\ v.cmd.input  = OperandRead(s, {"<"}, n)
  /\ v.cmd.output = OperandRead(s, {">", ">>"}, n)
  /\ v.cmd.append = AppendRead(s, n)
  /\ v.cmd.background = \E k \in Considered(s) : k <= n /\ IsMark(s, k)
  /\ v.cmd.delim  = OperandRead(s, {"<<"}, n)

\* The token behind an operator.
LEMMA TokenOperand ==
  ASSUME NEW s \in Seq(STRING), NEW n \in 0 .. Len(s) - 1,
         NEW v \in Parsed, TokensRead(v, s, n), v.op # None
  PROVE  TokensRead(ParseToken(v, s[n + 1]), s, n + 1)
<1> DEFINE new == ParseToken(v, s[n + 1])
<1>1. n \in OperatorsIn(s, Redirections) /\ v.op = s[n]
  BY DEF TokensRead
<1>2. n \in 1 .. Len(s) - 1 /\ IsOperator(s, n) /\ n \in Considered(s) /\ s[n] \in Redirections
  BY <1>1 DEF OperatorsIn, Considered
<1>3. IsOperand(s, n + 1)
  BY <1>2, OperandStep
<1>4. n + 1 \in 1 .. Len(s) /\ n + 1 \notin Arguments(s)
  BY <1>3, ConsideredCount DEF IsArgument
<1>5. \A ops : n + 1 \notin OperatorsIn(s, ops)
  BY <1>3 DEF OperatorsIn, IsOperator
<1>6. ~ IsMark(s, n + 1)
  BY <1>3 DEF IsMark
<1>7. \A ops : n \in OperatorsIn(s, ops) <=> s[n] \in ops
  BY <1>2 DEF OperatorsIn
<1>8. /\ new.op = None
      /\ new.cmd.args = v.cmd.args
      /\ new.cmd.background = v.cmd.background
      /\ new.cmd.input = IF s[n] = "<" THEN s[n + 1] ELSE v.cmd.input
      /\ new.cmd.output = IF s[n] \in {">", ">>"} THEN s[n + 1] ELSE v.cmd.output
      /\ new.cmd.append = IF s[n] \in {">", ">>"} THEN s[n] = ">>" ELSE v.cmd.append
      /\ new.cmd.delim = IF s[n] = "<<" THEN s[n + 1] ELSE v.cmd.delim
  BY <1>1 DEF ParseToken, Operand, Parsed, Stage
<1>9. ASSUME NEW ops
      PROVE  OperandRead(s, ops, n + 1) = IF s[n] \in ops THEN s[n + 1] ELSE OperandRead(s, ops, n)
  BY <1>7, DeliveredStep DEF OperandRead
<1>10. AppendRead(s, n + 1) = IF s[n] \in {">", ">>"} THEN s[n] = ">>" ELSE AppendRead(s, n)
  BY <1>7, DeliveredStep DEF AppendRead
<1>11. /\ Count(Arguments(s), n + 1) = Count(Arguments(s), n)
       /\ \A k \in Arguments(s) : k <= n + 1 => k <= n
  <2>1. (n + 1) - 1 = n
    OBVIOUS
  <2>2. Count(Arguments(s), n + 1) = Count(Arguments(s), n) + 0
    BY <1>4, <2>1, ConsideredCount
  <2>3. Count(Arguments(s), n) \in Nat
    BY ConsideredCount
  <2>4. \A k \in Arguments(s) : k \in Nat /\ k # n + 1
    BY <1>4, ConsideredCount
  <2> QED BY <2>2, <2>3, <2>4
<1>12. (\E k \in Considered(s) : k <= n + 1 /\ IsMark(s, k))
         = (\E k \in Considered(s) : k <= n /\ IsMark(s, k))
  BY <1>6 DEF Considered
<1> HIDE DEF new
<1>13. new.op = IF n + 1 \in OperatorsIn(s, Redirections) THEN s[n + 1] ELSE None
  BY <1>5, <1>8
<1>14. /\ new.cmd.input = OperandRead(s, {"<"}, n + 1)
       /\ new.cmd.output = OperandRead(s, {">", ">>"}, n + 1)
       /\ new.cmd.append = AppendRead(s, n + 1)
       /\ new.cmd.delim = OperandRead(s, {"<<"}, n + 1)
  BY <1>8, <1>9, <1>10 DEF TokensRead
<1>15. /\ Len(new.cmd.args) = Count(Arguments(s), n + 1)
       /\ \A k \in Arguments(s) :
            k <= n + 1 => new.cmd.args[Count(Arguments(s), k)] = s[k]
       /\ new.cmd.background = \E k \in Considered(s) : k <= n + 1 /\ IsMark(s, k)
  BY <1>8, <1>11, <1>12 DEF TokensRead
<1>16. TokensRead(new, s, n + 1)
  BY <1>13, <1>14, <1>15 DEF TokensRead
<1> QED BY <1>16 DEF new

\* Any other token: it is skipped when the vector is full, and else a mark, an
\* operator or an argument.
LEMMA TokenOther ==
  ASSUME NEW s \in Seq(STRING), NEW n \in 0 .. Len(s) - 1,
         NEW v \in Parsed, TokensRead(v, s, n), v.op = None
  PROVE  TokensRead(ParseToken(v, s[n + 1]), s, n + 1)
<1> DEFINE new == ParseToken(v, s[n + 1])
           F == Arguments(s)
<1>1. /\ n + 1 \in 1 .. Len(s) /\ (n + 1) - 1 = n /\ n \in 0 .. Len(s)
      /\ s[n + 1] \in STRING
  OBVIOUS
<1>2. n \notin OperatorsIn(s, Redirections)
  <2> SUFFICES ASSUME n \in OperatorsIn(s, Redirections) PROVE FALSE
    OBVIOUS
  <2>1. n \in DOMAIN s /\ s[n] = None
    BY DEF OperatorsIn, Considered, TokensRead
  <2> QED BY <2>1, NoneAssumption
<1>3. \A ops \in SUBSET Redirections :
        /\ n \notin OperatorsIn(s, ops)
        /\ OperandRead(s, ops, n + 1) = OperandRead(s, ops, n)
  <2> TAKE ops \in SUBSET Redirections
  <2>1. n \notin OperatorsIn(s, ops)
    BY <1>2 DEF OperatorsIn
  <2> QED BY <2>1, DeliveredStep DEF OperandRead
<1>4. AppendRead(s, n + 1) = AppendRead(s, n)
  <2>1. n \notin OperatorsIn(s, {">", ">>"})
    BY <1>2 DEF OperatorsIn, Redirections
  <2> QED BY <2>1, DeliveredStep DEF AppendRead
<1>5. /\ v.cmd.input  = OperandRead(s, {"<"}, n + 1)
      /\ v.cmd.output = OperandRead(s, {">", ">>"}, n + 1)
      /\ v.cmd.append = AppendRead(s, n + 1)
      /\ v.cmd.delim  = OperandRead(s, {"<<"}, n + 1)
  <2>1. /\ {"<"} \in SUBSET Redirections /\ {">", ">>"} \in SUBSET Redirections
        /\ {"<<"} \in SUBSET Redirections
    BY DEF Redirections
  <2> QED BY <1>3, <1>4, <2>1 DEF TokensRead
<1>6. /\ n + 1 \in Considered(s) <=> ~ Full(v.cmd)
      /\ n + 1 \in F <=> n + 1 \in Considered(s) /\ IsArgument(s, n + 1)
      /\ Count(F, n + 1) = Len(v.cmd.args) + IF n + 1 \in F THEN 1 ELSE 0
  <2>1. Count(F, n) = Len(v.cmd.args) /\ Count(F, n) \in 0 .. MAX_ARGS - 1
    BY <1>1, ConsideredCount DEF TokensRead
  <2>2. /\ n + 1 \in Considered(s) <=> Count(F, n) < MAX_ARGS - 1
        /\ n + 1 \in F <=> n + 1 \in Considered(s) /\ IsArgument(s, n + 1)
        /\ Count(F, n + 1) = Count(F, n) + IF n + 1 \in F THEN 1 ELSE 0
    BY <1>1, ConsideredCount
  <2>3. MAX_ARGS - 1 \in Nat
    BY ParserAssumption
  <2>4. Count(F, n) < MAX_ARGS - 1 <=> ~ (Count(F, n) = MAX_ARGS - 1)
    BY <2>1, <2>3
  <2>5. Full(v.cmd) <=> Count(F, n) = MAX_ARGS - 1
    BY <2>1 DEF Full
  <2> HIDE DEF F
  <2> QED BY <2>1, <2>2, <2>4, <2>5
<1>7. n + 1 \in Considered(s) => ~ IsOperand(s, n + 1)
  <2> SUFFICES ASSUME n + 1 \in Considered(s), IsOperand(s, n + 1) PROVE FALSE
    OBVIOUS
  <2>1. n \in 1 .. Len(s) - 1
    BY OperandStep
  <2>2. IsOperator(s, n)
    BY <2>1, OperandStep
  <2>3. n \in Considered(s)
    <3>1. n \in 1 .. Len(s) /\ n - 1 \in 0 .. Len(s)
      BY <2>1
    <3>2. Count(F, n) < MAX_ARGS - 1 /\ Count(F, n - 1) \in Nat
      BY <1>1, <3>1, ConsideredCount
    <3>3. Count(F, n) = Count(F, n - 1) + IF n \in F THEN 1 ELSE 0
      BY <3>1, ConsideredCount
    <3>4. Count(F, n - 1) < MAX_ARGS - 1
      BY <3>2, <3>3, ParserAssumption
    <3> QED BY <3>1, <3>4, ConsideredCount
  <2> QED BY <1>2, <2>2, <2>3 DEF OperatorsIn, IsOperator
<1>8. /\ \A k \in F : k \in 1 .. Len(s) /\ (k <= n + 1 => k <= n \/ k = n + 1)
      /\ \A k \in Considered(s) : k \in 1 .. Len(s) /\ (k <= n + 1 => k <= n \/ k = n + 1)
  <2>1. \A k \in 1 .. Len(s) : k <= n + 1 => k <= n \/ k = n + 1
    OBVIOUS
  <2> QED BY <2>1 DEF Considered, Arguments
<1>9. n + 1 \in OperatorsIn(s, Redirections) <=>
        ~ Full(v.cmd) /\ s[n + 1] \in Redirections
  BY <1>6, <1>7 DEF OperatorsIn, IsOperator
<1>10. n + 1 \in F <=> ~ Full(v.cmd) /\ s[n + 1] \notin Redirections \cup {"&"}
  BY <1>6, <1>7 DEF IsArgument
<1>11. (\E k \in Considered(s) : k <= n + 1 /\ IsMark(s, k)) =
         (v.cmd.background \/ (~ Full(v.cmd) /\ s[n + 1] = "&"))
  <2>1. (\E k \in Considered(s) : k <= n /\ IsMark(s, k)) = v.cmd.background
    BY DEF TokensRead
  <2>2. n + 1 \in Considered(s) /\ IsMark(s, n + 1) <=> ~ Full(v.cmd) /\ s[n + 1] = "&"
    BY <1>6, <1>7 DEF IsMark
  <2>3. \A k \in Considered(s) : k <= n => k <= n + 1
    BY DEF Considered
  <2>4. n + 1 <= n + 1
    BY <1>1
  <2>5. (\E k \in Considered(s) : k <= n + 1 /\ IsMark(s, k)) <=>
          \/ \E k \in Considered(s) : k <= n /\ IsMark(s, k)
          \/ n + 1 \in Considered(s) /\ IsMark(s, n + 1)
    BY <1>8, <2>3, <2>4, Zenon
  <2> QED BY <2>1, <2>2, <2>5, Zenon
<1>12. v.cmd.args \in Seq(STRING) /\ v.cmd.background \in BOOLEAN
  BY DEF Parsed, Stage
<1>13. /\ new.op = IF ~ Full(v.cmd) /\ s[n + 1] \in Redirections THEN s[n + 1] ELSE None
       /\ new.cmd.args = IF n + 1 \in F THEN Append(v.cmd.args, s[n + 1]) ELSE v.cmd.args
       /\ new.cmd.background = (v.cmd.background \/ (~ Full(v.cmd) /\ s[n + 1] = "&"))
       /\ new.cmd.input = v.cmd.input /\ new.cmd.output = v.cmd.output
       /\ new.cmd.append = v.cmd.append /\ new.cmd.delim = v.cmd.delim
  BY <1>10, <1>12 DEF ParseToken, Parsed, Stage, Redirections
<1>14. /\ Len(new.cmd.args) = Count(F, n + 1)
       /\ \A k \in F : k <= n + 1 => new.cmd.args[Count(F, k)] = s[k]
  <2>1. \A k \in F : k <= n => v.cmd.args[Count(F, k)] = s[k] /\ Count(F, k) \in 1 .. Len(v.cmd.args)
    <3> SUFFICES ASSUME NEW k \in F, k <= n PROVE Count(F, k) \in 1 .. Len(v.cmd.args)
      BY DEF TokensRead
    <3>1. k \in 1 .. Len(s) /\ k \in Nat /\ n \in Nat /\ k - 1 \in 0 .. Len(s)
      BY <1>8
    <3>2. Count(F, k) = Count(F, k - 1) + 1 /\ Count(F, k - 1) \in Nat
      BY <3>1, ConsideredCount
    <3>3. Count(F, k) <= Count(F, n)
      BY <3>1, CountingUp, ConsideredCount
    <3>4. Count(F, n) = Len(v.cmd.args) /\ Count(F, n) \in Nat
      BY <1>1, ConsideredCount DEF TokensRead
    <3> QED BY <3>2, <3>3, <3>4
  <2> HIDE DEF F, new
  <2>2. CASE n + 1 \in F
    <3>1. new.cmd.args = Append(v.cmd.args, s[n + 1]) /\ Count(F, n + 1) = Len(v.cmd.args) + 1
      BY <1>6, <1>13, <2>2
    <3>2. /\ Len(new.cmd.args) = Len(v.cmd.args) + 1
          /\ new.cmd.args[Len(v.cmd.args) + 1] = s[n + 1]
          /\ \A i \in 1 .. Len(v.cmd.args) : new.cmd.args[i] = v.cmd.args[i]
      BY <1>1, <1>12, <3>1
    <3> QED BY <1>8, <2>1, <3>1, <3>2
  <2>3. CASE n + 1 \notin F
    <3>1. new.cmd.args = v.cmd.args /\ Count(F, n + 1) = Len(v.cmd.args)
      BY <1>6, <1>12, <1>13, <2>3
    <3> QED BY <1>8, <2>1, <2>3, <3>1
  <2> QED BY <2>2, <2>3
<1> HIDE DEF new
<1>15. TokensRead(new, s, n + 1)
  BY <1>5, <1>9, <1>11, <1>13, <1>14 DEF TokensRead
<1> QED BY <1>15 DEF new

\* What the loop has made of a whole segment.
LEMMA TokensReadAll ==
  ASSUME NEW s \in Seq(STRING)
  PROVE  LET end == FoldLeft(ParseToken, [cmd |-> NoCommand, op |-> None], s)
         IN  end \in Parsed /\ TokensRead(end, s, Len(s))
<1> DEFINE base == [cmd |-> NoCommand, op |-> None]
           end == FoldLeft(ParseToken, base, s)
<1>1. base \in Parsed
  BY DEF NoCommand, Parsed, Stage, Word
<1>2. TokensRead(base, s, 0)
  <2>1. \A ops : 0 \notin OperatorsIn(s, ops) /\ Delivered(s, ops, 0) = {}
    BY DEF OperatorsIn, Considered, Delivered
  <2>2. \A k \in Considered(s) : ~ (k <= 0)
    BY DEF Considered
  <2>3. \A k \in Arguments(s) : ~ (k <= 0)
    BY <2>2 DEF Arguments
  <2>4. Count(Arguments(s), 0) = 0
    BY ConsideredCount
  <2> QED BY <2>1, <2>2, <2>3, <2>4 DEF TokensRead, OperandRead, AppendRead, NoCommand
<1> HIDE DEF base
<1>3. PICK run \in [0 .. Len(s) -> Parsed] :
        /\ run[0] = base
        /\ \A n \in 1 .. Len(s) : run[n] = ParseToken(run[n - 1], s[n])
        /\ run[Len(s)] = end
  BY <1>1, TokenRun
<1> HIDE DEF end
<1> DEFINE T == {n \in 0 .. Len(s) : TokensRead(run[n], s, n)}
<1>4. 0 \in T
  BY <1>2, <1>3
<1>5. ASSUME NEW n \in 1 .. Len(s), n - 1 \in T PROVE n \in T
  <2>1. n - 1 \in 0 .. Len(s) - 1 /\ (n - 1) + 1 = n /\ run[n - 1] \in Parsed
    BY <1>3
  <2>2. TokensRead(ParseToken(run[n - 1], s[(n - 1) + 1]), s, (n - 1) + 1)
    BY <1>5, <2>1, TokenOperand, TokenOther
  <2> QED BY <1>3, <2>1, <2>2
<1>6. \A n \in 0 .. Len(s) : n \in T
  <2> HIDE DEF T
  <2>1. Len(s) \in Nat
    OBVIOUS
  <2> QED BY <1>4, <1>5, <2>1, RunInduction
<1>7. Len(s) \in 0 .. Len(s)
  OBVIOUS
<1>8. end \in Parsed /\ TokensRead(end, s, Len(s))
  BY <1>3, <1>6, <1>7
<1> QED BY <1>8 DEF end, base

\* parse_command answers with an error exactly if the segment ends in an
\* operator, and otherwise with what the grammar finds in the segment.
THEOREM ParseCommandDescribes ==
  ASSUME NEW s \in Seq(STRING)
  PROVE  /\ ParseCommand(s) = None <=> ~ WellFormed(s)
         /\ WellFormed(s) => ParseCommand(s) \in Stage /\ Describes(ParseCommand(s), s)
<1> DEFINE end == FoldLeft(ParseToken, [cmd |-> NoCommand, op |-> None], s)
<1>1. end \in Parsed /\ TokensRead(end, s, Len(s))
  BY TokensReadAll
<1>2. ParseCommand(s) = IF end.op # None THEN None ELSE end.cmd
  BY DEF ParseCommand
<1> HIDE DEF end
<1>3. end.cmd \in Stage /\ end.cmd # None
  BY <1>1, StageCommand DEF Parsed
<1>4. end.op # None <=> ~ WellFormed(s)
  <2>1. CASE Len(s) \in OperatorsIn(s, Redirections)
    <3>1. end.op = s[Len(s)] /\ Len(s) \in DOMAIN s
      BY <1>1, <2>1 DEF TokensRead, OperatorsIn, Considered
    <3> QED BY <2>1, <3>1, NoneAssumption DEF WellFormed
  <2>2. CASE Len(s) \notin OperatorsIn(s, Redirections)
    BY <1>1, <2>2 DEF TokensRead, WellFormed
  <2> QED BY <2>1, <2>2
<1>5. ASSUME WellFormed(s) PROVE Describes(end.cmd, s)
  <2>1. \A ops \in SUBSET Redirections : Delivered(s, ops, Len(s)) = OperatorsIn(s, ops)
    <3> TAKE ops \in SUBSET Redirections
    <3>1. Len(s) \notin OperatorsIn(s, ops)
      BY <1>5 DEF WellFormed, OperatorsIn
    <3>2. \A k \in OperatorsIn(s, ops) : k + 1 <= Len(s)
      BY <3>1 DEF OperatorsIn, Considered
    <3> QED BY <3>2 DEF Delivered
  <2>2. \A ops \in SUBSET Redirections : OperandRead(s, ops, Len(s)) = OperandOf(s, ops)
    BY <2>1 DEF OperandRead, OperandOf
  <2>3. {">", ">>"} \in SUBSET Redirections /\ {"<"} \in SUBSET Redirections
        /\ {"<<"} \in SUBSET Redirections
    BY DEF Redirections
  <2>4. Count(Arguments(s), Len(s)) = Cardinality(Arguments(s))
    <3>1. UpTo(Arguments(s), Len(s)) = Arguments(s)
      BY DEF UpTo, Arguments, Considered
    <3> QED BY <3>1 DEF Count
  <2>5. \A k \in Arguments(s) : /\ k <= Len(s)
                                /\ Cardinality(ArgumentsUpTo(s, k)) = Count(Arguments(s), k)
    BY ConsideredCount
  <2>6. \A k \in Considered(s) : k <= Len(s)
    BY DEF Considered
  <2>7. /\ Len(end.cmd.args) = Cardinality(Arguments(s))
        /\ \A k \in Arguments(s) : end.cmd.args[Cardinality(ArgumentsUpTo(s, k))] = s[k]
    BY <1>1, <2>4, <2>5 DEF TokensRead
  <2>8. end.cmd.background = \E k \in Considered(s) : IsMark(s, k)
    BY <1>1, <2>6, Zenon DEF TokensRead
  <2>9. /\ end.cmd.input  = OperandOf(s, {"<"})
        /\ end.cmd.output = OperandOf(s, {">", ">>"})
        /\ end.cmd.delim  = OperandOf(s, {"<<"})
    BY <1>1, <2>2, <2>3 DEF TokensRead
  <2>10. end.cmd.append = (/\ OperatorsIn(s, {">", ">>"}) # {}
                           /\ s[Max(OperatorsIn(s, {">", ">>"}))] = ">>")
    BY <1>1, <2>1, <2>3 DEF TokensRead, AppendRead
  <2> QED BY <2>7, <2>8, <2>9, <2>10, Zenon DEF Describes
<1> QED BY <1>2, <1>3, <1>4, <1>5

\* A segment with an argument is a stage, one without is none.
LEMMA HasArgumentArgs ==
  ASSUME NEW s \in Seq(STRING), WellFormed(s)
  PROVE  ParseCommand(s).args # <<>> <=> HasArgument(s)
<1> DEFINE F == Arguments(s)
           args == ParseCommand(s).args
<1>1. args \in Seq(STRING) /\ Len(args) = Cardinality(F)
  BY ParseCommandDescribes DEF Describes, Stage
<1>2. IsFiniteSet(F)
  <2>1. F \subseteq 1 .. Len(s)
    BY DEF Arguments, Considered
  <2>2. IsFiniteSet(1 .. Len(s))
    BY FS_Interval
  <2> QED BY <2>1, <2>2, FS_Subset
<1>3. F # {} => HasArgument(s)
  BY DEF Arguments, Considered, HasArgument
<1>4. ASSUME HasArgument(s) PROVE F # {}
  <2> DEFINE P == ArgumentPositions(s)
  <2>1. PICK k \in P : \A j \in P : k <= j
    <3>1. P # {} /\ P \in SUBSET Nat
      BY <1>4 DEF HasArgument, ArgumentPositions
    <3> HIDE DEF P
    <3> QED BY <3>1, LeastNatural
  <2>2. k \in 1 .. Len(s) /\ IsArgument(s, k)
    BY DEF ArgumentPositions
  <2>3. UpTo(P, k - 1) = {}
    <3>1. \A j \in P : j \in Nat /\ ~ (j <= k - 1)
      BY <2>1, <2>2, ArgumentCount
    <3> QED BY <3>1 DEF UpTo
  <2>4. Count(P, k - 1) = 0 /\ 0 < MAX_ARGS - 1
    BY <2>3, FS_EmptySet, ParserAssumption DEF Count
  <2>5. k \in Considered(s)
    BY <2>2, <2>4, ArgumentCount
  <2> QED BY <2>2, <2>5 DEF Arguments
<1> HIDE DEF F, args
<1>5. Cardinality(F) = 0 <=> F = {}
  BY <1>2, FS_EmptySet
<1>6. args # <<>> <=> Len(args) # 0
  BY <1>1
<1> QED BY <1>1, <1>3, <1>4, <1>5, <1>6 DEF args

-----------------------------------------------------------------------------
(* parse_pipeline: the segments of a line and their stages                 *)

\* Segments so far: there is always a last one.
Pieces == Seq(Seq(STRING)) \ {<<>>}

\* The last element of a sequence is replaced.
LEMMA ReplaceLast ==
  ASSUME NEW S, NEW v \in Seq(S), v # <<>>, NEW x \in S
  PROVE  /\ v[Len(v)] \in S
         /\ [v EXCEPT ![Len(v)] = x] \in Seq(S) \ {<<>>}
<1>1. Len(v) \in Nat \ {0} /\ v \in [1 .. Len(v) -> S]
  OBVIOUS
<1> DEFINE w == [v EXCEPT ![Len(v)] = x]
<1>2. w \in [1 .. Len(v) -> S]
  BY <1>1
<1>3. w \in Seq(S) /\ DOMAIN w = 1 .. Len(v)
  BY <1>1, <1>2, SeqDef
<1> HIDE DEF w
<1>4. w # <<>>
  <2>1. 1 \in DOMAIN w
    BY <1>1, <1>3
  <2> QED BY <2>1
<1> QED BY <1>1, <1>3, <1>4 DEF w

\* A token goes to the last segment or begins a new one.
LEMMA SplitType ==
  ASSUME NEW v \in Pieces, NEW t \in STRING
  PROVE  Split(v, t) \in Pieces
<1> DEFINE S == Seq(STRING)
<1>1. ASSUME NEW w \in S PROVE Append(w, t) \in S
  BY AppendProperties
<1>6. <<>> \in S
  OBVIOUS
<1>2. Pieces = Seq(S) \ {<<>>}
  BY DEF Pieces
<1> HIDE DEF S
<1>5. v \in Seq(S) /\ v # <<>>
  BY <1>2
<1>3. CASE t = "|"
  <2>1. Append(v, <<>>) \in Seq(S) /\ Append(v, <<>>) # <<>>
    BY <1>6, <1>5
  <2> QED BY <1>2, <1>3, <2>1 DEF Split
<1>4. CASE t # "|"
  <2>1. Append(v[Len(v)], t) \in S
    <3>1. v[Len(v)] \in S
      BY <1>6, <1>5, ReplaceLast
    <3> QED BY <1>1, <3>1
  <2>2. [v EXCEPT ![Len(v)] = Append(v[Len(v)], t)] \in Seq(S) \ {<<>>}
    BY <1>5, <2>1, ReplaceLast
  <2> QED BY <1>2, <1>4, <2>2 DEF Split
<1> QED BY <1>3, <1>4

\* The loop of parse_pipeline over the characters, here tokens, of a line.
LEMMA SplitRun ==
  ASSUME NEW line \in Seq(STRING), NEW base \in Pieces
  PROVE  \E run \in [0 .. Len(line) -> Pieces] :
           /\ run[0] = base
           /\ \A n \in 1 .. Len(line) : run[n] = Split(run[n - 1], line[n])
           /\ run[Len(line)] = FoldLeft(Split, base, line)
<1> DEFINE L == Len(line)
           step == [n \in 1 .. L |-> [v \in Pieces |-> Split(v, line[n])]]
           Solves(g) == g = [t \in SUBSET DOMAIN line |->
                               IF t = {} THEN base
                               ELSE LET x == Max(t) IN Split(g[t \ {x}], line[x])]
           iter == CHOOSE g : Solves(g)
<1>1. L \in Nat /\ DOMAIN line = 1 .. L /\ \A n \in 1 .. L : line[n] \in STRING
  OBVIOUS
<1>2. FoldLeft(Split, base, line) = iter[1 .. L]
  BY <1>1, Zenon DEF FoldLeft, MapThenFoldSet
<1> HIDE DEF iter
<1>3. ASSUME NEW n \in 1 .. L, NEW v \in Pieces
      PROVE  step[n][v] = Split(v, line[n]) /\ step[n][v] \in Pieces
  BY <1>1, SplitType
<1> HIDE DEF step, L
<1>4. IsStep(step, L, Pieces)
  BY <1>3 DEF IsStep
<1>5. Solves(iter)
  <2>1. PICK g : /\ IsFold(g, base, step, L, Pieces)
                 /\ \A t \in SUBSET (1 .. L) : g[t] \in Pieces
    BY <1>1, <1>4, FoldExists
  <2>2. \A t \in (SUBSET (1 .. L)) \ {{}} : g[t] = Split(g[t \ {Max(t)}], line[Max(t)])
    BY <1>3, <2>1 DEF IsFold
  <2>3. Solves(g)
    BY <1>1, <2>1, <2>2 DEF IsFold
  <2> HIDE DEF Solves
  <2> QED BY <2>3, Zenon DEF iter
<1>6. IsFold(iter, base, step, L, Pieces)
  BY <1>1, <1>3, <1>5, MaxIn DEF IsFold
<1>7. PICK run : IsRun(run, base, step, L, Pieces) /\ run[L] = iter[1 .. L]
  BY <1>1, <1>4, <1>6, FoldRun
<1>8. ASSUME NEW n \in 1 .. L PROVE run[n] = Split(run[n - 1], line[n])
  <2>1. run[n] = step[n][run[n - 1]] /\ run[n - 1] \in Pieces
    BY <1>1, <1>7 DEF IsRun
  <2> QED BY <1>3, <2>1
<1> QED BY <1>2, <1>7, <1>8 DEF L, IsRun

\* A line has at least one segment, and they are made of its tokens.
THEOREM SegmentsType ==
  ASSUME NEW line \in Seq(STRING)
  PROVE  Segments(line) \in Seq(Seq(STRING)) /\ Segments(line) # <<>>
<1>1. << <<>> >> \in Pieces
  <2>1. <<>> \in Seq(STRING)
    OBVIOUS
  <2>2. << <<>> >> \in Seq(Seq(STRING)) /\ << <<>> >> # <<>>
    BY <2>1
  <2> QED BY <2>2 DEF Pieces
<1>2. PICK run \in [0 .. Len(line) -> Pieces] :
        run[Len(line)] = FoldLeft(Split, << <<>> >>, line)
  BY <1>1, SplitRun
<1>3. Len(line) \in 0 .. Len(line)
  OBVIOUS
<1>4. Segments(line) \in Pieces
  BY <1>2, <1>3 DEF Segments
<1> QED BY <1>4 DEF Pieces

-----------------------------------------------------------------------------
\* A stage of a pipeline has a name.
NamedStage == {cmd \in Stage : cmd.args # <<>>}

\* The stages so far, and whether a segment was ill-formed.
Staged == [commands : Seq(NamedStage), failed : BOOLEAN]

\* A segment leaves stages that have a name each.
LEMMA StageType ==
  ASSUME NEW v \in Staged, NEW t \in Seq(STRING)
  PROVE  ParseSegment(v, t) \in Staged
<1>1. ParseCommand(t) # None => ParseCommand(t) \in Stage
  BY ParseCommandDescribes
<1>2. v.commands \in Seq(NamedStage) /\ v.failed \in BOOLEAN
  BY DEF Staged
<1>3. CASE \/ v.failed \/ Len(v.commands) = MAX_COMMANDS
  BY <1>3 DEF ParseSegment
<1>4. CASE ~ v.failed /\ Len(v.commands) # MAX_COMMANDS
  <2>1. CASE ParseCommand(t) = None
    BY <1>2, <1>4, <2>1 DEF ParseSegment, Staged
  <2>2. CASE ParseCommand(t) # None
    <3>1. ParseCommand(t).args # <<>> =>
            Append(v.commands, ParseCommand(t)) \in Seq(NamedStage)
      <4>1. ParseCommand(t).args # <<>> => ParseCommand(t) \in NamedStage
        BY <1>1, <2>2 DEF NamedStage
      <4> QED BY <1>2, <4>1
    <3> QED BY <1>2, <1>4, <2>2, <3>1 DEF ParseSegment, Staged
  <2> QED BY <2>1, <2>2
<1> QED BY <1>3, <1>4

\* The loop of parse_pipeline over the segments: what it has after each.
LEMMA StageRun ==
  ASSUME NEW segments \in Seq(Seq(STRING)), NEW base \in Staged
  PROVE  \E run \in [0 .. Len(segments) -> Staged] :
           /\ run[0] = base
           /\ \A n \in 1 .. Len(segments) : run[n] = ParseSegment(run[n - 1], segments[n])
           /\ run[Len(segments)] = FoldLeft(ParseSegment, base, segments)
<1> DEFINE L == Len(segments)
           step == [n \in 1 .. L |-> [v \in Staged |-> ParseSegment(v, segments[n])]]
           Solves(g) == g = [t \in SUBSET DOMAIN segments |->
                               IF t = {} THEN base
                               ELSE LET x == Max(t) IN ParseSegment(g[t \ {x}], segments[x])]
           iter == CHOOSE g : Solves(g)
<1>1. L \in Nat /\ DOMAIN segments = 1 .. L /\ \A n \in 1 .. L : segments[n] \in Seq(STRING)
  OBVIOUS
<1>2. FoldLeft(ParseSegment, base, segments) = iter[1 .. L]
  BY <1>1, Zenon DEF FoldLeft, MapThenFoldSet
<1> HIDE DEF iter
<1>3. ASSUME NEW n \in 1 .. L, NEW v \in Staged
      PROVE  step[n][v] = ParseSegment(v, segments[n]) /\ step[n][v] \in Staged
  BY <1>1, StageType
<1> HIDE DEF step, L
<1>4. IsStep(step, L, Staged)
  BY <1>3 DEF IsStep
<1>5. Solves(iter)
  <2>1. PICK g : /\ IsFold(g, base, step, L, Staged)
                 /\ \A t \in SUBSET (1 .. L) : g[t] \in Staged
    BY <1>1, <1>4, FoldExists
  <2>2. \A t \in (SUBSET (1 .. L)) \ {{}} : g[t] = ParseSegment(g[t \ {Max(t)}], segments[Max(t)])
    BY <1>3, <2>1 DEF IsFold
  <2>3. Solves(g)
    BY <1>1, <2>1, <2>2 DEF IsFold
  <2> HIDE DEF Solves
  <2> QED BY <2>3, Zenon DEF iter
<1>6. IsFold(iter, base, step, L, Staged)
  BY <1>1, <1>3, <1>5, MaxIn DEF IsFold
<1>7. PICK run : IsRun(run, base, step, L, Staged) /\ run[L] = iter[1 .. L]
  BY <1>1, <1>4, <1>6, FoldRun
<1>8. ASSUME NEW n \in 1 .. L PROVE run[n] = ParseSegment(run[n - 1], segments[n])
  <2>1. run[n] = step[n][run[n - 1]] /\ run[n - 1] \in Staged
    BY <1>1, <1>7 DEF IsRun
  <2> QED BY <1>3, <2>1
<1> QED BY <1>2, <1>7, <1>8 DEF L, IsRun

\* The segments that have an argument.
StagePositions(segments) == {n \in DOMAIN segments : HasArgument(segments[n])}

\* Which segments are looked at, in terms of the stages themselves.
LEMMA LookedCount ==
  ASSUME NEW segments \in Seq(Seq(STRING))
  PROVE  /\ Count(Stages(segments), 0) = 0
         /\ \A k \in 0 .. Len(segments) : Count(Stages(segments), k) \in 0 .. MAX_COMMANDS
         /\ \A k \in 1 .. Len(segments) :
              /\ k \in Looked(segments) <=> Count(Stages(segments), k - 1) < MAX_COMMANDS
              /\ k \in Stages(segments) <=> k \in Looked(segments) /\ HasArgument(segments[k])
              /\ Count(Stages(segments), k) =
                   Count(Stages(segments), k - 1) + IF k \in Stages(segments) THEN 1 ELSE 0
         /\ \A k \in Stages(segments) :
              /\ k \in 1 .. Len(segments)
              /\ Cardinality(StagesUpTo(segments, k)) = Count(Stages(segments), k)
              /\ Count(Stages(segments), k) > 0
<1> DEFINE P == StagePositions(segments)
           F == Stages(segments)
           M == MAX_COMMANDS
<1>1. M \in Nat /\ \A i \in P : i \in Nat /\ i > 0
  BY ParserAssumption DEF StagePositions
<1>2. ASSUME NEW k \in 0 .. Len(segments)
      PROVE  Cardinality(StagesUpTo(segments, k)) = Count(P, k)
  <2>1. \A j : j \in StagesUpTo(segments, k) <=> j \in UpTo(P, k)
    BY DEF StagesUpTo, UpTo, StagePositions
  <2>2. StagesUpTo(segments, k) = UpTo(P, k)
    BY <2>1
  <2> QED BY <2>2 DEF Count
<1>3. ASSUME NEW k \in 1 .. Len(segments)
      PROVE  k \in Looked(segments) <=> Count(P, k - 1) < M
  <2>1. Cardinality(StagesUpTo(segments, k - 1)) = Count(P, k - 1)
    BY <1>2
  <2> QED BY <2>1 DEF Looked
<1>4. F = FirstOf(P, M)
  <2>1. \A k : k \in F <=> k \in FirstOf(P, M)
    BY <1>3 DEF Stages, Looked, FirstOf, StagePositions
  <2> HIDE DEF F, P, M
  <2> QED BY <2>1
<1>5. AreFirst(F, P, M)
  <2> HIDE DEF F, P, M
  <2> QED BY <1>1, <1>4, CountingTheFirst
<1>6. ASSUME NEW k \in 1 .. Len(segments)
      PROVE  /\ k \in Looked(segments) <=> Count(F, k - 1) < M
             /\ k \in F <=> k \in Looked(segments) /\ HasArgument(segments[k])
             /\ Count(F, k) = Count(F, k - 1) + IF k \in F THEN 1 ELSE 0
             /\ Count(F, k - 1) \in Nat
  <2>1. k - 1 \in Nat /\ (k - 1) + 1 = k
    OBVIOUS
  <2>2. k \in F <=> k \in Looked(segments) /\ HasArgument(segments[k])
    BY DEF Stages
  <2> HIDE DEF P, M, F
  <2> DEFINE j == k - 1
  <2>3. j \in Nat /\ j + 1 = k
    BY <2>1
  <2> HIDE DEF j
  <2>4. /\ Count(F, j) \in 0 .. M
        /\ Count(P, j) < M <=> Count(F, j) < M
        /\ Count(F, j + 1) = Count(F, j) + IF j + 1 \in F THEN 1 ELSE 0
    BY <1>5, <2>3 DEF AreFirst
  <2>5. k \in Looked(segments) <=> Count(P, j) < M
    BY <1>3 DEF j
  <2> QED BY <1>1, <2>2, <2>3, <2>4, <2>5 DEF j
<1>7. ASSUME NEW k \in F
      PROVE  /\ k \in 1 .. Len(segments)
             /\ Cardinality(StagesUpTo(segments, k)) = Count(F, k)
             /\ Count(F, k) > 0
  <2>1. k \in 1 .. Len(segments)
    BY DEF Stages, Looked
  <2>2. Cardinality(StagesUpTo(segments, k)) = Count(P, k)
    BY <1>2, <2>1
  <2>3. Count(F, k) = Count(F, k - 1) + 1 /\ Count(F, k - 1) \in Nat
    BY <1>6, <2>1
  <2> HIDE DEF P, M, F
  <2> QED BY <1>5, <2>1, <2>2, <2>3 DEF AreFirst
<1>8. /\ Count(F, 0) = 0
      /\ \A k \in 0 .. Len(segments) : Count(F, k) \in 0 .. M
  <2> HIDE DEF P, M, F
  <2> QED BY <1>5 DEF AreFirst
<1> QED BY <1>6, <1>7, <1>8

\* What the loop of parse_pipeline has made of the first n segments.
SegmentsRead(v, segments, n) ==
  /\ v.failed = \E k \in Looked(segments) : k <= n /\ ~ WellFormed(segments[k])
  /\ ~ v.failed =>
       /\ Len(v.commands) = Count(Stages(segments), n)
       /\ \A k \in Stages(segments) :
            k <= n => v.commands[Count(Stages(segments), k)] = ParseCommand(segments[k])

\* One more segment: an error, a stage, or nothing.
LEMMA SegmentStep ==
  ASSUME NEW segments \in Seq(Seq(STRING)), NEW n \in 0 .. Len(segments) - 1,
         NEW v \in Staged, SegmentsRead(v, segments, n)
  PROVE  SegmentsRead(ParseSegment(v, segments[n + 1]), segments, n + 1)
<1> DEFINE new == ParseSegment(v, segments[n + 1])
           F == Stages(segments)
           s == segments[n + 1]
<1>1. /\ n + 1 \in 1 .. Len(segments) /\ (n + 1) - 1 = n /\ n \in 0 .. Len(segments)
      /\ s \in Seq(STRING)
  OBVIOUS
<1>2. /\ v.failed \in BOOLEAN /\ v.commands \in Seq(NamedStage)
  BY DEF Staged
<1>3. /\ n + 1 \in Looked(segments) <=> Count(F, n) < MAX_COMMANDS
      /\ n + 1 \in F <=> n + 1 \in Looked(segments) /\ HasArgument(s)
      /\ Count(F, n + 1) = Count(F, n) + IF n + 1 \in F THEN 1 ELSE 0
      /\ Count(F, n) \in 0 .. MAX_COMMANDS
  BY <1>1, LookedCount
<1>4. /\ \A k \in F : k \in 1 .. Len(segments) /\ (k <= n + 1 => k <= n \/ k = n + 1)
      /\ \A k \in Looked(segments) : k <= n + 1 <=> k <= n \/ k = n + 1
  <2>1. \A k \in 1 .. Len(segments) : k <= n + 1 <=> k <= n \/ k = n + 1
    OBVIOUS
  <2> QED BY <2>1 DEF Looked, Stages
<1>5. (\E k \in Looked(segments) : k <= n + 1 /\ ~ WellFormed(segments[k])) <=>
        v.failed \/ (n + 1 \in Looked(segments) /\ ~ WellFormed(s))
  <2>1. v.failed <=> \E k \in Looked(segments) : k <= n /\ ~ WellFormed(segments[k])
    BY DEF SegmentsRead
  <2> QED BY <1>4, <2>1, Zenon
<1> HIDE DEF s
<1>6. CASE v.failed
  <2>1. new = v
    BY <1>6 DEF ParseSegment
  <2> HIDE DEF new
  <2> QED BY <1>5, <1>6, <2>1 DEF SegmentsRead, new
<1>7. CASE ~ v.failed
  <2>1. /\ Len(v.commands) = Count(F, n)
        /\ \A k \in F : k <= n => v.commands[Count(F, k)] = ParseCommand(segments[k])
    BY <1>7 DEF SegmentsRead
  <2>2. \A k \in F : k <= n => Count(F, k) \in 1 .. Len(v.commands)
    <3> SUFFICES ASSUME NEW k \in F, k <= n PROVE Count(F, k) \in 1 .. Len(v.commands)
      OBVIOUS
    <3>1. k \in Nat /\ n \in Nat /\ k \in 0 .. Len(segments)
      BY <1>4
    <3>2. Count(F, k) > 0 /\ Count(F, k) \in Nat
      BY <3>1, LookedCount
    <3>3. Count(F, k) <= Count(F, n)
      <4>1. \A i \in F : i \in Nat /\ i > 0
        BY <1>4
      <4> HIDE DEF F
      <4> QED BY <3>1, <4>1, CountingUp
    <3> HIDE DEF F
    <3> QED BY <1>3, <2>1, <3>2, <3>3
  <2>3. CASE Len(v.commands) = MAX_COMMANDS
    <3>1. new = v
      BY <2>3 DEF ParseSegment
    <3>2. n + 1 \notin Looked(segments) /\ n + 1 \notin F
      BY <1>3, <2>1, <2>3
    <3>3. Count(F, n + 1) = Count(F, n)
      BY <1>3, <3>2
    <3>4. \A k \in F : k <= n + 1 => k <= n
      BY <1>4, <3>2
    <3> HIDE DEF new
    <3> QED BY <1>5, <1>7, <2>1, <3>1, <3>2, <3>3, <3>4 DEF SegmentsRead, new
  <2>4. CASE Len(v.commands) # MAX_COMMANDS
    <3>1. n + 1 \in Looked(segments)
      <4> HIDE DEF F
      <4> QED BY <1>3, <2>1, <2>4, ParserAssumption
    <3>2. ParseCommand(s) = None <=> ~ WellFormed(s)
      BY <1>1, ParseCommandDescribes
    <3>3. WellFormed(s) => (ParseCommand(s).args # <<>> <=> HasArgument(s))
      BY <1>1, HasArgumentArgs
    <3>4. CASE ~ WellFormed(s)
      <4>1. new.failed = TRUE
        BY <1>2, <1>7, <2>4, <3>2, <3>4 DEF ParseSegment, Staged, s
      <4> HIDE DEF new
      <4> QED BY <1>5, <3>1, <3>4, <4>1 DEF SegmentsRead, new
    <3>5. CASE WellFormed(s) /\ ~ HasArgument(s)
      <4>1. new = v
        BY <1>7, <2>4, <3>2, <3>3, <3>5 DEF ParseSegment, s
      <4>2. n + 1 \notin F /\ Count(F, n + 1) = Count(F, n)
        BY <1>3, <3>5
      <4>3. \A k \in F : k <= n + 1 => k <= n
        BY <1>4, <4>2
      <4> HIDE DEF new
      <4> QED BY <1>5, <1>7, <2>1, <3>5, <4>1, <4>2, <4>3 DEF SegmentsRead, new
    <3>6. CASE WellFormed(s) /\ HasArgument(s)
      <4>1. /\ new.failed = FALSE
            /\ new.commands = Append(v.commands, ParseCommand(s))
        BY <1>2, <1>7, <2>4, <3>2, <3>3, <3>6 DEF ParseSegment, Staged, s
      <4>2. n + 1 \in F /\ Count(F, n + 1) = Count(F, n) + 1
        BY <1>3, <3>1, <3>6
      <4> HIDE DEF new, F
      <4>3. /\ Len(new.commands) = Count(F, n + 1)
            /\ new.commands[Count(F, n + 1)] = ParseCommand(s)
            /\ \A i \in 1 .. Len(v.commands) : new.commands[i] = v.commands[i]
        BY <1>2, <2>1, <4>1, <4>2
      <4>4. \A k \in F : k <= n + 1 => new.commands[Count(F, k)] = ParseCommand(segments[k])
        BY <1>4, <2>1, <2>2, <4>3 DEF s
      <4>5. new.failed = \E k \in Looked(segments) : k <= n + 1 /\ ~ WellFormed(segments[k])
        BY <1>5, <1>7, <3>6, <4>1
      <4> QED BY <4>1, <4>3, <4>4, <4>5 DEF SegmentsRead, F, new
    <3> QED BY <3>4, <3>5, <3>6
  <2> QED BY <2>3, <2>4
<1> QED BY <1>2, <1>6, <1>7

\* What the loop has made of all segments.
LEMMA SegmentsReadAll ==
  ASSUME NEW segments \in Seq(Seq(STRING))
  PROVE  LET end == FoldLeft(ParseSegment, [commands |-> <<>>, failed |-> FALSE], segments)
         IN  end \in Staged /\ SegmentsRead(end, segments, Len(segments))
<1> DEFINE base == [commands |-> <<>>, failed |-> FALSE]
           end == FoldLeft(ParseSegment, base, segments)
<1>1. base \in Staged
  BY DEF Staged
<1>2. SegmentsRead(base, segments, 0)
  <2>1. \A k \in Looked(segments) : ~ (k <= 0)
    BY DEF Looked
  <2>2. \A k \in Stages(segments) : ~ (k <= 0)
    BY <2>1 DEF Stages
  <2>3. Count(Stages(segments), 0) = 0
    BY LookedCount
  <2> QED BY <2>1, <2>2, <2>3 DEF SegmentsRead
<1> HIDE DEF base
<1>3. PICK run \in [0 .. Len(segments) -> Staged] :
        /\ run[0] = base
        /\ \A n \in 1 .. Len(segments) : run[n] = ParseSegment(run[n - 1], segments[n])
        /\ run[Len(segments)] = end
  BY <1>1, StageRun
<1> HIDE DEF end
<1> DEFINE T == {n \in 0 .. Len(segments) : SegmentsRead(run[n], segments, n)}
<1>4. 0 \in T
  BY <1>2, <1>3
<1>5. ASSUME NEW n \in 1 .. Len(segments), n - 1 \in T PROVE n \in T
  <2>1. n - 1 \in 0 .. Len(segments) - 1 /\ (n - 1) + 1 = n /\ run[n - 1] \in Staged
    <3>1. Len(segments) \in Nat
      OBVIOUS
    <3>2. n - 1 \in 0 .. Len(segments) - 1 /\ n - 1 \in 0 .. Len(segments) /\ (n - 1) + 1 = n
      BY <3>1
    <3> QED BY <3>2
  <2>2. SegmentsRead(ParseSegment(run[n - 1], segments[(n - 1) + 1]), segments, (n - 1) + 1)
    BY <1>5, <2>1, SegmentStep
  <2> QED BY <1>3, <2>1, <2>2
<1>6. \A n \in 0 .. Len(segments) : n \in T
  <2> HIDE DEF T
  <2>1. Len(segments) \in Nat
    OBVIOUS
  <2> QED BY <1>4, <1>5, <2>1, RunInduction
<1>7. Len(segments) \in 0 .. Len(segments)
  OBVIOUS
<1>8. end \in Staged /\ SegmentsRead(end, segments, Len(segments))
  BY <1>3, <1>6, <1>7
<1> QED BY <1>8 DEF end, base

\* The parser finds in every line what the grammar says is there.
THEOREM LineReadsAs ==
  ASSUME NEW line \in Seq(STRING)
  PROVE  ReadsAs(line, ParsePipeline(line))
<1> DEFINE segments == Segments(line)
           end == FoldLeft(ParseSegment, [commands |-> <<>>, failed |-> FALSE], segments)
<1>1. segments \in Seq(Seq(STRING))
  BY SegmentsType
<1> HIDE DEF segments
<1>2. end \in Staged /\ SegmentsRead(end, segments, Len(segments))
  BY <1>1, SegmentsReadAll
<1>3. ParsePipeline(line) = IF end.failed THEN None ELSE end.commands
  BY DEF ParsePipeline, segments
<1> HIDE DEF end
<1>4. /\ \A k \in Looked(segments) : k \in 1 .. Len(segments) /\ k <= Len(segments)
      /\ \A k \in Stages(segments) : k \in Looked(segments)
  BY <1>1 DEF Looked, Stages
<1>5. end.failed = \E k \in Looked(segments) : ~ WellFormed(segments[k])
  BY <1>2, <1>4 DEF SegmentsRead
<1>6. ASSUME ~ end.failed
      PROVE  /\ end.commands # None
             /\ Len(end.commands) = Cardinality(Stages(segments))
             /\ \A n \in Stages(segments) :
                  Describes(end.commands[Cardinality(StagesUpTo(segments, n))], segments[n])
  <2>1. end.commands # None
    <3>1. end.commands \in Seq(NamedStage)
      BY <1>2 DEF Staged
    <3>2. end.commands \in Seq(Command)
      <4>1. \A i \in 1 .. Len(end.commands) : end.commands[i] \in Command
        BY <3>1, StageCommand DEF NamedStage
      <4> QED BY <3>1, <4>1
    <3> QED BY <3>2, NoneAssumption
  <2>2. UpTo(Stages(segments), Len(segments)) = Stages(segments)
    <3>1. \A k : k \in UpTo(Stages(segments), Len(segments)) <=> k \in Stages(segments)
      BY <1>4 DEF UpTo
    <3> QED BY <3>1
  <2>3. Len(end.commands) = Cardinality(Stages(segments))
    BY <1>2, <1>6, <2>2 DEF SegmentsRead, Count
  <2>4. ASSUME NEW n \in Stages(segments)
        PROVE  Describes(end.commands[Cardinality(StagesUpTo(segments, n))], segments[n])
    <3>1. end.commands[Cardinality(StagesUpTo(segments, n))] = ParseCommand(segments[n])
      BY <1>1, <1>2, <1>4, <1>6, LookedCount DEF SegmentsRead
    <3>2. WellFormed(segments[n]) /\ segments[n] \in Seq(STRING)
      BY <1>1, <1>4, <1>5, <1>6
    <3> QED BY <3>1, <3>2, ParseCommandDescribes
  <2> QED BY <2>1, <2>3, <2>4
<1> QED BY <1>3, <1>5, <1>6 DEF ReadsAs, segments

\* The pipeline of a line: at most MAX_COMMANDS stages, each with a name.
THEOREM PipelineType ==
  ASSUME NEW line \in Seq(STRING), ParsePipeline(line) # None
  PROVE  /\ ParsePipeline(line) \in Seq(NamedStage)
         /\ Len(ParsePipeline(line)) <= MAX_COMMANDS
<1> DEFINE segments == Segments(line)
           end == FoldLeft(ParseSegment, [commands |-> <<>>, failed |-> FALSE], segments)
<1>1. segments \in Seq(Seq(STRING))
  BY SegmentsType
<1> HIDE DEF segments
<1>2. end \in Staged /\ SegmentsRead(end, segments, Len(segments))
  BY <1>1, SegmentsReadAll
<1>3. ParsePipeline(line) = end.commands /\ ~ end.failed
  <2>1. ParsePipeline(line) = IF end.failed THEN None ELSE end.commands
    BY DEF ParsePipeline, segments
  <2> QED BY <2>1
<1> HIDE DEF end
<1>4. Len(end.commands) = Count(Stages(segments), Len(segments))
  BY <1>2, <1>3 DEF SegmentsRead
<1>5. Count(Stages(segments), Len(segments)) \in 0 .. MAX_COMMANDS
  <2>1. Len(segments) \in 0 .. Len(segments)
    BY <1>1
  <2> QED BY <1>1, <2>1, LookedCount
<1> QED BY <1>2, <1>3, <1>4, <1>5, ParserAssumption DEF Staged

\* A pipeline of one stage comes from a line with one command.
THEOREM OneStageOneCommand ==
  ASSUME NEW line \in Seq(STRING), ParsePipeline(line) # None,
         Len(ParsePipeline(line)) = 1
  PROVE  Cardinality({n \in DOMAIN Segments(line) :
                        ParseCommand(Segments(line)[n]).args # <<>>}) = 1
<1> DEFINE segments == Segments(line)
           F == Stages(segments)
           end == FoldLeft(ParseSegment, [commands |-> <<>>, failed |-> FALSE], segments)
<1>1. segments \in Seq(Seq(STRING))
  BY SegmentsType
<1> HIDE DEF segments
<1>2. end \in Staged /\ SegmentsRead(end, segments, Len(segments))
  BY <1>1, SegmentsReadAll
<1>3. ParsePipeline(line) = end.commands /\ ~ end.failed
  <2>1. ParsePipeline(line) = IF end.failed THEN None ELSE end.commands
    BY DEF ParsePipeline, segments
  <2> QED BY <2>1
<1> HIDE DEF end
<1>4. Count(F, Len(segments)) = 1
  BY <1>2, <1>3 DEF SegmentsRead
<1>5. /\ Len(segments) \in Nat
      /\ \A k \in F : k \in 1 .. Len(segments) /\ k \in Nat /\ k > 0
  BY <1>1, LookedCount
<1>6. ASSUME NEW n \in 1 .. Len(segments)
      PROVE  n \in Looked(segments)
  <2>1. n - 1 \in Nat /\ n - 1 <= Len(segments) /\ n - 1 \in 0 .. Len(segments)
    BY <1>5
  <2>2. Count(F, n - 1) <= Count(F, Len(segments))
    <3> HIDE DEF F
    <3> QED BY <1>5, <2>1, CountingUp
  <2>3. Count(F, n - 1) \in Nat
    BY <1>1, <2>1, LookedCount
  <2>4. Count(F, n - 1) < MAX_COMMANDS
    <3> HIDE DEF F
    <3> QED BY <1>4, <2>2, <2>3, ParserAssumption
  <2> QED BY <1>1, <2>4, LookedCount
<1>7. \A n \in 1 .. Len(segments) : WellFormed(segments[n]) /\ segments[n] \in Seq(STRING)
  BY <1>1, <1>2, <1>3, <1>6 DEF SegmentsRead
<1>8. \A n \in 1 .. Len(segments) : n \in F <=> ParseCommand(segments[n]).args # <<>>
  BY <1>6, <1>7, HasArgumentArgs DEF Stages
<1>9. {n \in DOMAIN segments : ParseCommand(segments[n]).args # <<>>} = UpTo(F, Len(segments))
  <2>1. \A n : n \in {i \in DOMAIN segments : ParseCommand(segments[i]).args # <<>>}
                 <=> n \in UpTo(F, Len(segments))
    <3> HIDE DEF F
    <3> QED BY <1>1, <1>5, <1>8 DEF UpTo
  <2> QED BY <2>1
<1> QED BY <1>4, <1>9 DEF Count, segments

-----------------------------------------------------------------------------
(* expand.c: the words of the new argument vector                          *)

\* The smaller of two numbers.
LEMMA MinOfTwo ==
  ASSUME NEW a \in Int, NEW b \in Int
  PROVE  Min({a, b}) = IF a <= b THEN a ELSE b
<1> DEFINE m == IF a <= b THEN a ELSE b
<1>1. m \in {a, b} /\ \A y \in {a, b} : m <= y
  OBVIOUS
<1>2. \A x \in {a, b} : (\A y \in {a, b} : x <= y) => x = m
  OBVIOUS
<1> HIDE DEF m
<1>3. Min({a, b}) = m
  BY <1>1, <1>2 DEF Min
<1> QED BY <1>3 DEF m

\* The beginning of a sequence of which at most m elements are taken.
Beginning(s, m) == SubSeq(s, 1, Min({Len(s), m}))

\* The beginning of a sequence is the sequence up to there.
LEMMA BeginningOf ==
  ASSUME NEW S, NEW s \in Seq(S), NEW m \in Nat
  PROVE  /\ Beginning(s, m) \in Seq(S)
         /\ Len(Beginning(s, m)) = IF Len(s) <= m THEN Len(s) ELSE m
         /\ \A i \in 1 .. Len(Beginning(s, m)) : Beginning(s, m)[i] = s[i]
<1> DEFINE n == Min({Len(s), m})
<1>1. n = IF Len(s) <= m THEN Len(s) ELSE m
  BY MinOfTwo
<1> HIDE DEF n
<1>2. n \in 0 .. Len(s)
  BY <1>1
<1>3. /\ SubSeq(s, 1, n) \in Seq(S)
      /\ Len(SubSeq(s, 1, n)) = n
      /\ \A i \in 1 .. n : SubSeq(s, 1, n)[i] = s[i]
  BY <1>2, SubSeqProperties
<1>4. n \in Nat
  BY <1>1
<1> QED BY <1>1, <1>3 DEF n, Beginning

\* What fits into a vector with m places, word by word, is the beginning of
\* all there is.
LEMMA BeginningConcat ==
  ASSUME NEW S, NEW s \in Seq(S), NEW t \in Seq(S), NEW m \in Nat
  PROVE  LET b == Beginning(s, m)
         IN  Beginning(s \o t, m) = b \o SubSeq(t, 1, Min({Len(t), m - Len(b)}))
<1> DEFINE b == Beginning(s, m)
           n == m - Len(b)
           c == Beginning(t, n)
           all == Beginning(s \o t, m)
<1>1. /\ b \in Seq(S) /\ Len(b) = IF Len(s) <= m THEN Len(s) ELSE m
      /\ \A i \in 1 .. Len(b) : b[i] = s[i]
  BY BeginningOf
<1>2. n \in Nat /\ n = IF Len(s) <= m THEN m - Len(s) ELSE 0
  BY <1>1
<1> HIDE DEF n
<1>3. /\ c \in Seq(S) /\ Len(c) = IF Len(t) <= n THEN Len(t) ELSE n
      /\ \A i \in 1 .. Len(c) : c[i] = t[i]
  BY <1>2, BeginningOf
<1>4. /\ s \o t \in Seq(S) /\ Len(s \o t) = Len(s) + Len(t)
      /\ \A i \in 1 .. Len(s) + Len(t) :
           (s \o t)[i] = IF i <= Len(s) THEN s[i] ELSE t[i - Len(s)]
  BY ConcatProperties
<1>5. /\ all \in Seq(S)
      /\ Len(all) = IF Len(s) + Len(t) <= m THEN Len(s) + Len(t) ELSE m
      /\ \A i \in 1 .. Len(all) : all[i] = (s \o t)[i]
  BY <1>4, BeginningOf
<1> HIDE DEF b, c, all
<1>6. /\ b \o c \in Seq(S) /\ Len(b \o c) = Len(b) + Len(c)
      /\ \A i \in 1 .. Len(b) + Len(c) :
           (b \o c)[i] = IF i <= Len(b) THEN b[i] ELSE c[i - Len(b)]
  BY <1>1, <1>3, ConcatProperties
<1>10. /\ Len(s) \in Nat /\ Len(t) \in Nat /\ Len(b) \in Nat /\ Len(c) \in Nat
       /\ Len(b) = IF Len(s) <= m THEN Len(s) ELSE m
       /\ Len(c) = IF Len(t) <= n THEN Len(t) ELSE n
       /\ Len(all) = IF Len(s) + Len(t) <= m THEN Len(s) + Len(t) ELSE m
       /\ Len(b \o c) = Len(b) + Len(c)
  BY <1>1, <1>3, <1>5, <1>6, LenProperties
<1>7. Len(all) = Len(b \o c) /\ (Len(b) = Len(s) \/ (Len(c) = 0 /\ Len(b) <= Len(s)))
  <2>1. CASE Len(s) + Len(t) <= m
    <3>1. Len(s) <= m /\ n = m - Len(s) /\ Len(t) <= n
      BY <1>2, <1>10, <2>1
    <3> QED BY <1>10, <2>1, <3>1
  <2>2. CASE Len(s) <= m /\ ~ (Len(s) + Len(t) <= m)
    <3>1. n = m - Len(s) /\ ~ (Len(t) <= n)
      BY <1>2, <1>10, <2>2
    <3>2. Len(b) = Len(s) /\ Len(c) = n /\ Len(all) = m
      BY <1>10, <2>2, <3>1
    <3> QED BY <1>10, <3>1, <3>2
  <2>3. CASE ~ (Len(s) <= m)
    <3>1. n = 0 /\ ~ (Len(s) + Len(t) <= m)
      BY <1>2, <1>10, <2>3
    <3>2. Len(b) = m /\ Len(c) = 0 /\ Len(all) = m
      BY <1>10, <2>3, <3>1
    <3> QED BY <1>10, <2>3, <3>2
  <2> QED BY <2>1, <2>2, <2>3
<1>8. ASSUME NEW i \in 1 .. Len(all) PROVE all[i] = (b \o c)[i]
  <2>1. i \in 1 .. Len(b) + Len(c) /\ i \in 1 .. Len(s) + Len(t)
    BY <1>1, <1>3, <1>5, <1>6, <1>7
  <2>2. CASE i <= Len(b)
    <3>1. i \in 1 .. Len(b) /\ i <= Len(s)
      BY <1>1, <2>1, <2>2
    <3> QED BY <1>1, <1>4, <1>5, <1>6, <2>1, <2>2, <3>1
  <2>3. CASE ~ (i <= Len(b))
    <3>1. Len(b) = Len(s) /\ i - Len(b) \in 1 .. Len(c) /\ ~ (i <= Len(s))
      BY <1>7, <1>10, <2>1, <2>3
    <3> QED BY <1>3, <1>4, <1>5, <1>6, <2>1, <2>3, <3>1
  <2> QED BY <2>2, <2>3
<1>9. all = b \o c
  BY <1>5, <1>6, <1>7, <1>8, SeqEqual
<1> QED BY <1>9 DEF all, b, c, n, Beginning

\* FlattenSeq puts the sequences one after the other.
LEMMA FlattenRun ==
  ASSUME NEW S, NEW L \in Nat, NEW seqs \in [1 .. L -> Seq(S)]
  PROVE  \E run \in [0 .. L -> Seq(S)] :
           /\ run[0] = <<>>
           /\ \A n \in 1 .. L : run[n] = run[n - 1] \o seqs[n]
           /\ FlattenSeq(seqs) = run[L]
<1> DEFINE step == [n \in 1 .. L |-> [v \in Seq(S) |-> v \o seqs[n]]]
           Solves(g) == g = [n \in 1 .. Len(seqs) |-> IF n = 1 THEN seqs[n] ELSE g[n - 1] \o seqs[n]]
           flatten == CHOOSE g : Solves(g)
<1>1. seqs \in Seq(Seq(S)) /\ Len(seqs) = L
  <2> DEFINE Q == Seq(S)
  <2>1. seqs \in [1 .. L -> Q]
    OBVIOUS
  <2> HIDE DEF Q
  <2>2. seqs \in Seq(Q)
    BY <2>1, SeqDef
  <2>3. Len(seqs) = L
    BY <2>1, <2>2, LenProperties
  <2> QED BY <2>2, <2>3 DEF Q
<1>2. FlattenSeq(seqs) = IF L = 0 THEN seqs ELSE flatten[L]
  <2>1. FlattenSeq(seqs) = IF Len(seqs) = 0 THEN seqs ELSE flatten[Len(seqs)]
    BY Zenon DEF FlattenSeq
  <2> HIDE DEF flatten
  <2> QED BY <1>1, <2>1
<1> HIDE DEF flatten
<1>3. ASSUME NEW n \in 1 .. L, NEW v \in Seq(S)
      PROVE  step[n][v] = v \o seqs[n] /\ step[n][v] \in Seq(S)
  OBVIOUS
<1> HIDE DEF step
<1>4. IsStep(step, L, Seq(S)) /\ <<>> \in Seq(S)
  BY <1>3 DEF IsStep
<1>5. PICK run : IsRun(run, <<>>, step, L, Seq(S))
  BY <1>4, RunExists
<1>6. /\ run \in [0 .. L -> Seq(S)] /\ run[0] = <<>>
      /\ \A n \in 1 .. L : run[n] = run[n - 1] \o seqs[n]
  <2>1. run \in [0 .. L -> Seq(S)] /\ run[0] = <<>>
    BY <1>5 DEF IsRun
  <2>2. ASSUME NEW n \in 1 .. L PROVE run[n] = run[n - 1] \o seqs[n]
    <3>1. run[n] = step[n][run[n - 1]]
      BY <1>5 DEF IsRun
    <3>2. n - 1 \in 0 .. L
      OBVIOUS
    <3> QED BY <1>3, <2>1, <3>1, <3>2
  <2> QED BY <2>1, <2>2
<1>7. ASSUME L > 0 PROVE 1 \in 1 .. L /\ run[1] = seqs[1]
  <2>1. 1 \in 1 .. L
    BY <1>7
  <2>2. run[1] = run[0] \o seqs[1] /\ seqs[1] \in Seq(S)
    <3>1. run[1] = run[1 - 1] \o seqs[1]
      BY <1>6, <2>1
    <3> QED BY <2>1, <3>1
  <2> QED BY <1>6, <2>1, <2>2, ConcatEmptySeq
<1>8. Solves(flatten)
  <2> DEFINE g == [n \in 1 .. L |-> run[n]]
  <2>1. g = [n \in 1 .. L |-> g[n]] /\ \A n \in 1 .. L : g[n] = run[n]
    OBVIOUS
  <2> HIDE DEF g
  <2>2. ASSUME NEW n \in 1 .. L
        PROVE  g[n] = IF n = 1 THEN seqs[n] ELSE g[n - 1] \o seqs[n]
    <3>1. CASE n = 1
      <4>1. L > 0
        BY <3>1
      <4> QED BY <1>7, <2>1, <3>1, <4>1
    <3>2. CASE n # 1
      <4>1. n - 1 \in 1 .. L
        BY <3>2
      <4>2. g[n] = run[n] /\ g[n - 1] = run[n - 1]
        BY <2>1, <4>1
      <4> QED BY <1>6, <3>2, <4>2
    <3> QED BY <3>1, <3>2
  <2>3. g = [n \in 1 .. Len(seqs) |-> IF n = 1 THEN seqs[n] ELSE g[n - 1] \o seqs[n]]
    BY <1>1, <2>1, <2>2
  <2>4. Solves(g)
    BY <2>3
  <2> HIDE DEF Solves
  <2> QED BY <2>4, Zenon DEF flatten
<1>9. \A n \in 1 .. L : flatten[n] = IF n = 1 THEN seqs[n] ELSE flatten[n - 1] \o seqs[n]
  BY <1>1, <1>8
<1> HIDE DEF Solves
<1>10. FlattenSeq(seqs) = run[L]
  <2>1. CASE L = 0
    <3>1. seqs = <<>>
      BY <1>1, <2>1
    <3> QED BY <1>2, <1>6, <2>1, <3>1
  <2>2. CASE L # 0
    <3> DEFINE T == {n \in 0 .. L : n > 0 => flatten[n] = run[n]}
    <3>1. 0 \in T
      OBVIOUS
    <3>2. ASSUME NEW n \in 1 .. L, n - 1 \in T PROVE n \in T
      <4>1. flatten[n] = run[n]
        <5>1. CASE n = 1
          BY <1>7, <1>9, <5>1
        <5>2. CASE n # 1
          <6>1. flatten[n - 1] = run[n - 1]
            BY <3>2, <5>2
          <6> QED BY <1>6, <1>9, <5>2, <6>1
        <5> QED BY <5>1, <5>2
      <4> QED BY <4>1
    <3>3. \A n \in 0 .. L : n \in T
      <4> HIDE DEF T
      <4> QED BY <3>1, <3>2, RunInduction
    <3>4. flatten[L] = run[L]
      <4>1. L \in 0 .. L /\ L > 0
        BY <2>2
      <4> QED BY <3>3, <4>1
    <3> QED BY <1>2, <2>2, <3>4
  <2> QED BY <2>1, <2>2
<1> QED BY <1>6, <1>10

-----------------------------------------------------------------------------
\* The variables that words refer to have values.
EnvOK(env) == \A w \in DOMAIN VarOf : env[VarOf[w]] \in Word

\* A sequence that is not empty has a first element.
LEMMA FirstElement ==
  ASSUME NEW S, NEW seq \in Seq(S), seq # <<>>
  PROVE  1 \in 1 .. Len(seq) /\ seq[1] \in S
<1>1. 1 \in 1 .. Len(seq)
  BY EmptySeq
<1> QED BY <1>1, ElementOfSeq

\* A sequence of one element.
LEMMA OneElement ==
  ASSUME NEW S, NEW x \in S
  PROVE  <<x>> \in Seq(S) /\ <<x>> # <<>>
OBVIOUS

\* A pattern stands for at least one string, be it itself.
LEMMA GlobType ==
  ASSUME NEW w \in STRING, NEW dir \in DOMAIN Matches, HasGlob(w, dir)
  PROVE  Glob(w, dir) \in Seq(STRING) /\ Glob(w, dir) # <<>>
<1>1. Matches[dir][w] \in Seq(STRING)
  BY ExpandAssumption DEF HasGlob
<1>2. <<w>> \in Seq(STRING) /\ <<w>> # <<>>
  BY OneElement
<1> QED BY <1>1, <1>2 DEF Glob

\* A word with its variable replaced is a string.
LEMMA VariableType ==
  ASSUME NEW word \in STRING, NEW env, EnvOK(env), NEW status
  PROVE  ExpandVariables(word, env, status) \in STRING
<1>1. Numeral(status) \in STRING
  BY LiteralAssumption DEF Numeral
<1>2. ASSUME word \in DOMAIN VarOf, env[VarOf[word]] # None
      PROVE  env[VarOf[word]] \in STRING
  BY <1>2 DEF EnvOK, Word
<1>3. CASE word = "$?"
  BY <1>1, <1>3 DEF ExpandVariables
<1>4. CASE word # "$?" /\ word \in DOMAIN VarOf
  <2>1. "" \in STRING
    BY LiteralAssumption
  <2> QED BY <1>2, <1>4, <2>1, Zenon DEF ExpandVariables
<1>5. CASE word # "$?" /\ word \notin DOMAIN VarOf
  BY <1>5 DEF ExpandVariables
<1> QED BY <1>3, <1>4, <1>5

\* So is the word that is built, whole or not.
LEMMA BuiltType ==
  ASSUME NEW word \in STRING, NEW env, EnvOK(env), NEW status, NEW fault
  PROVE  Built(word, env, status, fault) \in STRING
BY VariableType, ExpandAssumption DEF Built

\* One argument becomes words, of which the first is NULL when memory runs out.
LEMMA WordsType ==
  ASSUME NEW word \in STRING, NEW env, EnvOK(env), NEW status,
         NEW dir \in DOMAIN Matches, NEW fault
  PROVE  WordsOf(word, env, status, dir, fault) \in Seq(Word)
<1> DEFINE w == Built(word, env, status, fault)
           g == Glob(w, dir)
<1>1. w \in STRING
  BY BuiltType
<1> HIDE DEF w
<1>2. STRING \subseteq Word /\ None \in Word
  BY DEF Word
<1>3. <<>> \in Seq(Word) /\ <<w>> \in Seq(Word)
  <2>1. w \in Word
    BY <1>1, <1>2
  <2> QED BY <2>1
<1>4. ASSUME HasGlob(w, dir)
      PROVE  g \in Seq(Word) /\ [g EXCEPT ![1] = None] \in Seq(Word)
  <2>1. g \in Seq(STRING) /\ g # <<>>
    BY <1>1, <1>4, GlobType
  <2> HIDE DEF g
  <2>2. g \in Seq(Word)
    BY <1>2, <2>1, SeqMonotonic
  <2>3. 1 \in 1 .. Len(g)
    BY <2>1, <2>2, FirstElement
  <2> QED BY <1>2, <2>2, <2>3, ExceptSeq
<1> QED BY <1>3, <1>4 DEF WordsOf, w, g

\* A redirection target becomes a word.
LEMMA ExpandWordType ==
  ASSUME NEW word \in Word, NEW env, EnvOK(env), NEW status,
         NEW dir \in DOMAIN Matches, NEW fault
  PROVE  ExpandWord(word, env, status, dir, fault) \in Word
<1>1. CASE word = None \/ fault = "malloc"
  BY <1>1 DEF ExpandWord, Word
<1>2. CASE ~ (word = None \/ fault = "malloc")
  <2> DEFINE w == Built(word, env, status, fault)
  <2>1. w \in STRING
    BY <1>2, BuiltType DEF Word
  <2> HIDE DEF w
  <2>2. HasGlob(w, dir) => Glob(w, dir)[1] \in STRING
    BY <2>1, GlobType, FirstElement
  <2>3. ExpandWord(word, env, status, dir, fault) = IF HasGlob(w, dir) THEN Glob(w, dir)[1] ELSE w
    BY <1>2 DEF ExpandWord, w
  <2> QED BY <2>1, <2>2, <2>3 DEF Word
<1> QED BY <1>1, <1>2

-----------------------------------------------------------------------------
\* Adding the words that fit makes a vector of words.
LEMMA FittingType ==
  ASSUME NEW S, NEW v \in Seq(S), NEW t \in Seq(S)
  PROVE  Fitting(v, t) \in Seq(S)
<1> DEFINE m == Min({Len(t), MAX_ARGS - 1 - Len(v)})
<1>1. Len(t) \in Nat /\ MAX_ARGS - 1 - Len(v) \in Int
  BY ParserAssumption, LenProperties
<1>2. m \in Int /\ m <= Len(t)
  BY <1>1, MinOfTwo
<1> HIDE DEF m
<1>3. \A i \in 1 .. m : t[i] \in S
  BY <1>1, <1>2
<1>4. SubSeq(t, 1, m) \in Seq(S)
  BY <1>2, <1>3, SubSeqProperties
<1> QED BY <1>4, ConcatProperties DEF Fitting, m

\* The loop of expand_args: the vector after each argument.
LEMMA FittingRun ==
  ASSUME NEW S, NEW words \in Seq(Seq(S)), NEW base \in Seq(S)
  PROVE  \E run \in [0 .. Len(words) -> Seq(S)] :
           /\ run[0] = base
           /\ \A n \in 1 .. Len(words) : run[n] = Fitting(run[n - 1], words[n])
           /\ run[Len(words)] = FoldLeft(Fitting, base, words)
<1> DEFINE L == Len(words)
           step == [n \in 1 .. L |-> [v \in Seq(S) |-> Fitting(v, words[n])]]
           Solves(g) == g = [t \in SUBSET DOMAIN words |->
                               IF t = {} THEN base
                               ELSE LET x == Max(t) IN Fitting(g[t \ {x}], words[x])]
           iter == CHOOSE g : Solves(g)
<1>1. L \in Nat /\ DOMAIN words = 1 .. L /\ \A n \in 1 .. L : words[n] \in Seq(S)
  OBVIOUS
<1>2. FoldLeft(Fitting, base, words) = iter[1 .. L]
  BY <1>1, Zenon DEF FoldLeft, MapThenFoldSet
<1> HIDE DEF iter
<1>3. ASSUME NEW n \in 1 .. L, NEW v \in Seq(S)
      PROVE  step[n][v] = Fitting(v, words[n]) /\ step[n][v] \in Seq(S)
  BY <1>1, FittingType
<1> HIDE DEF step, L
<1>4. IsStep(step, L, Seq(S))
  BY <1>3 DEF IsStep
<1>5. Solves(iter)
  <2>1. PICK g : /\ IsFold(g, base, step, L, Seq(S))
                 /\ \A t \in SUBSET (1 .. L) : g[t] \in Seq(S)
    BY <1>1, <1>4, FoldExists
  <2>2. \A t \in (SUBSET (1 .. L)) \ {{}} : g[t] = Fitting(g[t \ {Max(t)}], words[Max(t)])
    BY <1>3, <2>1 DEF IsFold
  <2>3. Solves(g)
    BY <1>1, <2>1, <2>2 DEF IsFold
  <2> HIDE DEF Solves
  <2> QED BY <2>3, Zenon DEF iter
<1>6. IsFold(iter, base, step, L, Seq(S))
  BY <1>1, <1>3, <1>5, MaxIn DEF IsFold
<1>7. PICK run : IsRun(run, base, step, L, Seq(S)) /\ run[L] = iter[1 .. L]
  BY <1>1, <1>4, <1>6, FoldRun
<1>8. ASSUME NEW n \in 1 .. L PROVE run[n] = Fitting(run[n - 1], words[n])
  <2> DEFINE Q == Seq(S)
  <2>1. run[n] = step[n][run[n - 1]] /\ run[n - 1] \in Q
    <3>1. n - 1 \in 0 .. L
      BY <1>1
    <3> HIDE DEF Q
    <3> QED BY <1>7, <3>1 DEF IsRun, Q
  <2> QED BY <1>3, <2>1
<1> QED BY <1>2, <1>7, <1>8 DEF L, IsRun

\* Adding words as long as they fit gives the beginning of all of them.
LEMMA FittingBeginning ==
  ASSUME NEW S, NEW words \in Seq(Seq(S))
  PROVE  /\ FlattenSeq(words) \in Seq(S)
         /\ FoldLeft(Fitting, <<>>, words) = Beginning(FlattenSeq(words), MAX_ARGS - 1)
<1> DEFINE L == Len(words)
           M == MAX_ARGS - 1
           Q == Seq(S)
<1>1. L \in Nat /\ M \in Nat /\ words \in [1 .. L -> Q]
  <2>1. L \in Nat /\ words \in [1 .. L -> Q]
    BY LenProperties
  <2> QED BY <2>1, ParserAssumption
<1> HIDE DEF Q
<1>2. PICK all \in [0 .. L -> Q] :
        /\ all[0] = <<>>
        /\ \A n \in 1 .. L : all[n] = all[n - 1] \o words[n]
        /\ FlattenSeq(words) = all[L]
  <2> HIDE DEF L
  <2> QED BY <1>1, FlattenRun DEF Q
<1>3. <<>> \in Q
  BY DEF Q
<1>4. PICK run \in [0 .. L -> Q] :
        /\ run[0] = <<>>
        /\ \A n \in 1 .. L : run[n] = Fitting(run[n - 1], words[n])
        /\ run[L] = FoldLeft(Fitting, <<>>, words)
  BY <1>3, FittingRun DEF Q
<1> HIDE DEF L, M
<1> DEFINE T == {n \in 0 .. L : run[n] = Beginning(all[n], M)}
<1>5. 0 \in T
  <2>1. 0 \in 0 .. L /\ all[0] \in Seq(S) /\ Len(all[0]) = 0
    BY <1>1, <1>2 DEF Q
  <2>2. Beginning(all[0], M) \in Seq(S) /\ Len(Beginning(all[0], M)) = 0
    BY <1>1, <2>1, BeginningOf
  <2>3. Beginning(all[0], M) = <<>>
    BY <2>2, EmptySeq
  <2> QED BY <1>4, <2>1, <2>3
<1>6. ASSUME NEW n \in 1 .. L, n - 1 \in T PROVE n \in T
  <2>1. n - 1 \in 0 .. L
    BY <1>1
  <2>2. /\ all[n] = all[n - 1] \o words[n] /\ run[n] = Fitting(run[n - 1], words[n])
        /\ run[n - 1] = Beginning(all[n - 1], M)
    BY <1>2, <1>4, <1>6, <2>1
  <2>3. all[n - 1] \in Seq(S) /\ words[n] \in Seq(S)
    BY <1>1, <1>2, <2>1 DEF Q
  <2>4. Beginning(all[n - 1] \o words[n], M) = Fitting(Beginning(all[n - 1], M), words[n])
    BY <1>1, <2>3, BeginningConcat DEF Fitting, M
  <2>5. n \in 0 .. L
    BY <1>1
  <2> QED BY <2>2, <2>4, <2>5
<1>7. \A n \in 0 .. L : n \in T
  <2> HIDE DEF T
  <2> QED BY <1>1, <1>5, <1>6, RunInduction
<1>8. L \in 0 .. L
  BY <1>1
<1> QED BY <1>2, <1>4, <1>7, <1>8 DEF M, Q

\* What all the arguments become together.
AllWords(args, env, status, dir, fault) ==
  FlattenSeq([k \in 1 .. Len(args) |-> WordsOf(args[k], env, status, dir, fault[k])])

\* The new vector is the beginning of all that the arguments become.
THEOREM ExpandArgsBeginning ==
  ASSUME NEW args \in Seq(STRING), NEW env, EnvOK(env), NEW status,
         NEW dir \in DOMAIN Matches, NEW fault
  PROVE  /\ AllWords(args, env, status, dir, fault) \in Seq(Word)
         /\ ExpandArgs(args, env, status, dir, fault) =
              Beginning(AllWords(args, env, status, dir, fault), MAX_ARGS - 1)
<1> DEFINE words == [k \in 1 .. Len(args) |-> WordsOf(args[k], env, status, dir, fault[k])]
           Q == Seq(Word)
<1>1. words \in Seq(Q)
  <2>1. Len(args) \in Nat /\ \A n \in 1 .. Len(args) : args[n] \in STRING
    OBVIOUS
  <2>2. \A n \in 1 .. Len(args) : WordsOf(args[n], env, status, dir, fault[n]) \in Q
    BY <2>1, WordsType
  <2> HIDE DEF Q
  <2>3. words \in [1 .. Len(args) -> Q]
    BY <2>2
  <2> HIDE DEF words
  <2> QED BY <2>1, <2>3, SeqDef
<1>2. /\ AllWords(args, env, status, dir, fault) = FlattenSeq(words)
      /\ ExpandArgs(args, env, status, dir, fault) = FoldLeft(Fitting, <<>>, words)
  BY DEF AllWords, ExpandArgs
<1> HIDE DEF words
<1> QED BY <1>1, <1>2, FittingBeginning DEF Q
=============================================================================

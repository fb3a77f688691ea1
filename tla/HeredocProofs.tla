---------------------------- MODULE HeredocProofs ---------------------------
(***************************************************************************)
(* The bodies of here-documents, for every input: the lines taken since    *)
(* the command line are the bodies of its stages, one behind the other,    *)
(* each followed by the line that ended it.  First what Behind counts and  *)
(* what one more line does to a body, as facts about sequences; then the   *)
(* invariant of the main loop.                                             *)
(***************************************************************************)
EXTENDS ReplProofs

(* Parts of a sequence that grows at its end                               *)

\* A longer sequence has the same parts.
LEMMA PartOfAppend ==
  ASSUME NEW S, NEW s \in Seq(S), NEW x \in S,
         NEW m \in Nat \ {0}, NEW n \in Nat, n <= Len(s)
  PROVE  SubSeq(Append(s, x), m, n) = SubSeq(s, m, n)
<1> DEFINE t == Append(s, x)
<1>1. t \in Seq(S) /\ \A i \in 1 .. Len(s) : t[i] = s[i]
  BY AppendProperties
<1> HIDE DEF t
<1>2. \A i \in m .. n : i \in 1 .. Len(s) /\ s[i] \in S /\ t[i] = s[i] /\ t[i] \in S
  BY <1>1
<1>3. /\ SubSeq(s, m, n) \in Seq(S)
      /\ Len(SubSeq(s, m, n)) = IF m <= n THEN n - m + 1 ELSE 0
      /\ \A i \in 1 .. n - m + 1 : SubSeq(s, m, n)[i] = s[m + i - 1]
  BY <1>2, SubSeqProperties
<1>4. /\ SubSeq(t, m, n) \in Seq(S)
      /\ Len(SubSeq(t, m, n)) = IF m <= n THEN n - m + 1 ELSE 0
      /\ \A i \in 1 .. n - m + 1 : SubSeq(t, m, n)[i] = t[m + i - 1]
  BY <1>2, SubSeqProperties
<1>5. \A i \in 1 .. Len(SubSeq(s, m, n)) :
        i \in 1 .. n - m + 1 /\ m + i - 1 \in m .. n
  BY <1>3
<1>6. \A i \in 1 .. Len(SubSeq(s, m, n)) : SubSeq(s, m, n)[i] = SubSeq(t, m, n)[i]
  BY <1>2, <1>3, <1>4, <1>5
<1> QED BY <1>3, <1>4, <1>6, SeqEqual DEF t

\* The end of a longer sequence is one longer.
LEMMA EndOfAppend ==
  ASSUME NEW S, NEW s \in Seq(S), NEW x \in S,
         NEW m \in Nat \ {0}, m <= Len(s) + 1
  PROVE  SubSeq(Append(s, x), m, Len(s) + 1) = Append(SubSeq(s, m, Len(s)), x)
<1> DEFINE t == Append(s, x)
           a == SubSeq(s, m, Len(s))
           b == SubSeq(t, m, Len(s) + 1)
<1>1. /\ Len(s) \in Nat /\ t \in Seq(S) /\ \A i \in 1 .. Len(s) : t[i] = s[i]
      /\ t[Len(s) + 1] = x
  BY AppendProperties, LenProperties
<1> HIDE DEF t
<1>2. \A i \in m .. Len(s) : i \in 1 .. Len(s) /\ s[i] \in S /\ t[i] = s[i] /\ t[i] \in S
  BY <1>1
<1>3. /\ a \in Seq(S) /\ Len(a) = Len(s) - m + 1
      /\ \A i \in 1 .. Len(s) - m + 1 : a[i] = s[m + i - 1]
  <2>1. /\ a \in Seq(S) /\ Len(a) = IF m <= Len(s) THEN Len(s) - m + 1 ELSE 0
        /\ \A i \in 1 .. Len(s) - m + 1 : a[i] = s[m + i - 1]
    BY <1>1, <1>2, SubSeqProperties
  <2> HIDE DEF a
  <2> QED BY <1>1, <2>1
<1>4. \A i \in m .. Len(s) + 1 : t[i] \in S
  <2>1. \A i \in m .. Len(s) + 1 : i \in m .. Len(s) \/ i = Len(s) + 1
    BY <1>1
  <2> QED BY <1>1, <1>2, <2>1
<1>5. /\ b \in Seq(S) /\ Len(b) = Len(s) - m + 2
      /\ \A i \in 1 .. Len(s) - m + 2 : b[i] = t[m + i - 1]
  <2> DEFINE n == Len(s) + 1
  <2>1. n \in Int /\ m <= n /\ n - m + 1 = Len(s) - m + 2
    BY <1>1
  <2> HIDE DEF n
  <2>2. /\ SubSeq(t, m, n) \in Seq(S)
        /\ Len(SubSeq(t, m, n)) = n - m + 1
        /\ \A i \in 1 .. n - m + 1 : SubSeq(t, m, n)[i] = t[m + i - 1]
    <3>1. \A i \in m .. n : t[i] \in S
      BY <1>4 DEF n
    <3> QED BY <2>1, <3>1, SubSeqProperties
  <2> QED BY <2>1, <2>2 DEF n
<1> HIDE DEF a, b
<1>6. /\ Append(a, x) \in Seq(S) /\ Len(Append(a, x)) = Len(a) + 1
      /\ \A i \in 1 .. Len(a) : Append(a, x)[i] = a[i]
      /\ Append(a, x)[Len(a) + 1] = x
  BY <1>3, AppendProperties
<1>7. ASSUME NEW i \in 1 .. Len(b) PROVE b[i] = Append(a, x)[i]
  <2>1. CASE i \in 1 .. Len(a)
    <3>1. /\ i \in 1 .. Len(s) - m + 2 /\ i \in 1 .. Len(s) - m + 1
          /\ m + i - 1 \in m .. Len(s)
      BY <1>1, <1>3, <1>5, <2>1
    <3> QED BY <1>2, <1>3, <1>5, <1>6, <2>1, <3>1
  <2>2. CASE i \notin 1 .. Len(a)
    <3>1. i = Len(a) + 1 /\ i \in 1 .. Len(s) - m + 2 /\ m + i - 1 = Len(s) + 1
      BY <1>1, <1>3, <1>5, <2>2
    <3> QED BY <1>1, <1>5, <1>6, <3>1
  <2> QED BY <2>1, <2>2
<1>8. Len(b) = Len(Append(a, x))
  BY <1>1, <1>3, <1>5, <1>6
<1>9. b = Append(a, x)
  BY <1>5, <1>6, <1>7, <1>8, SeqEqual
<1> QED BY <1>9 DEF a, b, t

-----------------------------------------------------------------------------
(* How many lines the documents take                                       *)

\* What doc holds: for each stage the lines of its file, or None.
Documents == Seq(Seq(Nat) \cup {None})

\* The lines one here-document takes, with the line that ends it.
Taking(d) == IF d = None THEN 0 ELSE Len(d) + 1

\* b counts the lines taken up to each stage: the command line and, of each
\* document, its lines and the one that ends it.
IsBehind(b, docs) ==
  /\ b \in [0 .. Len(docs) -> Nat]
  /\ b[0] = 1
  /\ \A c \in 1 .. Len(docs) : b[c] = b[c - 1] + Taking(docs[c])

\* Behind counts as it says: the recursion has a solution.
LEMMA BehindCounts ==
  ASSUME NEW docs \in Documents
  PROVE  IsBehind(Behind(docs), docs)
<1> DEFINE L == Len(docs)
           step == [n \in 1 .. L |-> [v \in Nat |-> v + Taking(docs[n])]]
           Solves(g) == g = [c \in 0 .. L |->
                               IF c = 0 THEN 1
                               ELSE g[c - 1] + IF docs[c] = None THEN 0
                                               ELSE Len(docs[c]) + 1]
           behind == CHOOSE g : Solves(g)
<1>1. Behind(docs) = behind
  BY Zenon DEF Behind
<1>2. L \in Nat /\ \A c \in 1 .. L : Taking(docs[c]) \in Nat
  <2> DEFINE D == Seq(Nat) \cup {None}
  <2>1. docs \in Seq(D)
    BY DEF Documents
  <2> HIDE DEF D
  <2>2. L \in Nat /\ \A c \in 1 .. L : docs[c] \in D
    BY <2>1
  <2>3. \A c \in 1 .. L : docs[c] = None \/ docs[c] \in Seq(Nat)
    BY <2>2 DEF D
  <2> QED BY <2>2, <2>3 DEF Taking
<1> HIDE DEF L, behind
<1>3. ASSUME NEW n \in 1 .. L, NEW v \in Nat
      PROVE  step[n][v] = v + Taking(docs[n]) /\ step[n][v] \in Nat
  BY <1>2
<1> HIDE DEF step
<1>4. IsStep(step, L, Nat)
  BY <1>3 DEF IsStep
<1>5. PICK run : IsRun(run, 1, step, L, Nat)
  BY <1>2, <1>4, RunExists
<1>6. /\ run \in [0 .. L -> Nat] /\ run[0] = 1
      /\ \A n \in 1 .. L : run[n] = run[n - 1] + Taking(docs[n])
  <2>1. run \in [0 .. L -> Nat] /\ run[0] = 1
    BY <1>5 DEF IsRun
  <2>2. ASSUME NEW n \in 1 .. L PROVE run[n] = run[n - 1] + Taking(docs[n])
    <3>1. run[n] = step[n][run[n - 1]]
      BY <1>5 DEF IsRun
    <3>2. n - 1 \in 0 .. L
      BY <1>2
    <3> QED BY <1>3, <2>1, <3>1, <3>2
  <2> QED BY <2>1, <2>2
<1>7. Solves(behind)
  <2>1. ASSUME NEW c \in 0 .. L
        PROVE  run[c] = IF c = 0 THEN 1
                        ELSE run[c - 1] + IF docs[c] = None THEN 0 ELSE Len(docs[c]) + 1
    <3>1. c # 0 => c \in 1 .. L
      BY <1>2
    <3> QED BY <1>6, <3>1 DEF Taking
  <2>2. Solves(run)
    BY <1>6, <2>1
  <2> HIDE DEF Solves
  <2> QED BY <2>2, Zenon DEF behind
<1>8. /\ behind = [c \in 0 .. L |-> behind[c]]
      /\ behind[0] = 1
      /\ \A c \in 1 .. L : behind[c] = behind[c - 1] + Taking(docs[c])
  <2>1. \A c \in 0 .. L :
          behind[c] = IF c = 0 THEN 1
                      ELSE behind[c - 1] + IF docs[c] = None THEN 0 ELSE Len(docs[c]) + 1
    BY <1>7
  <2>2. 0 \in 0 .. L /\ \A c \in 1 .. L : c \in 0 .. L /\ c # 0
    BY <1>2
  <2>3. behind = [c \in 0 .. L |-> behind[c]]
    BY <1>7
  <2> HIDE DEF Solves
  <2> QED BY <2>1, <2>2, <2>3 DEF Taking
<1> HIDE DEF Solves
<1>9. \A c \in 0 .. L : behind[c] \in Nat
  <2> DEFINE T == {c \in 0 .. L : behind[c] \in Nat}
  <2>1. 0 \in T
    BY <1>2, <1>8
  <2>2. ASSUME NEW c \in 1 .. L, c - 1 \in T PROVE c \in T
    <3>1. behind[c] = behind[c - 1] + Taking(docs[c])
      BY <1>8
    <3>2. behind[c - 1] \in Nat /\ Taking(docs[c]) \in Nat /\ c \in 0 .. L
      BY <1>2, <2>2
    <3> QED BY <3>1, <3>2
  <2>3. \A c \in 0 .. L : c \in T
    <3> HIDE DEF T
    <3> QED BY <1>2, <2>1, <2>2, RunInduction
  <2> QED BY <2>3
<1> QED BY <1>1, <1>8, <1>9 DEF IsBehind, L

\* The count only grows.
LEMMA BehindGrows ==
  ASSUME NEW docs \in Documents, NEW b, IsBehind(b, docs)
  PROVE  \A d \in 0 .. Len(docs) : 1 <= b[d] /\ \A c \in 0 .. d : b[c] <= b[d]
<1> DEFINE L == Len(docs)
           T == {d \in 0 .. L : 1 <= b[d] /\ \A c \in 0 .. d : b[c] <= b[d]}
<1>1. L \in Nat /\ \A c \in 1 .. L : Taking(docs[c]) \in Nat
  <2> DEFINE D == Seq(Nat) \cup {None}
  <2>1. docs \in Seq(D)
    BY DEF Documents
  <2> HIDE DEF D
  <2>2. L \in Nat /\ \A c \in 1 .. L : docs[c] \in D
    BY <2>1
  <2>3. \A c \in 1 .. L : docs[c] = None \/ docs[c] \in Seq(Nat)
    BY <2>2 DEF D
  <2> QED BY <2>2, <2>3 DEF Taking
<1>2. /\ \A c \in 0 .. L : b[c] \in Nat
      /\ b[0] = 1 /\ \A c \in 1 .. L : b[c] = b[c - 1] + Taking(docs[c])
  BY DEF IsBehind
<1> HIDE DEF L
<1>3. 0 \in T
  BY <1>1, <1>2
<1>4. ASSUME NEW d \in 1 .. L, d - 1 \in T PROVE d \in T
  <2>1. b[d - 1] <= b[d] /\ b[d - 1] \in Nat /\ b[d] \in Nat /\ 1 <= b[d - 1]
    BY <1>1, <1>2, <1>4
  <2>2. ASSUME NEW c \in 0 .. d PROVE b[c] <= b[d]
    <3>1. CASE c = d
      BY <2>1, <3>1
    <3>2. CASE c # d
      <4>1. c \in 0 .. d - 1 /\ c \in 0 .. L
        BY <1>1, <3>2
      <4>2. b[c] <= b[d - 1]
        BY <1>4, <4>1
      <4> QED BY <1>2, <2>1, <4>1, <4>2
    <3> QED BY <3>1, <3>2
  <2> QED BY <1>1, <2>1, <2>2
<1>5. \A d \in 0 .. L : d \in T
  <2> HIDE DEF T
  <2> QED BY <1>1, <1>3, <1>4, RunInduction
<1> QED BY <1>5 DEF L

\* The two agree up to the stage x.
SameUpTo(x, docs, other) ==
  /\ Len(other) = Len(docs)
  /\ \A c \in 1 .. x : other[c] = docs[c]

\* No stage behind x has a document.
NoneBehind(x, docs) == \A d \in 1 .. Len(docs) : d > x => docs[d] = None

\* The count up to a stage is that of the documents up to there.
LEMMA BehindSame ==
  ASSUME NEW docs, NEW other, NEW b, NEW e, NEW x,
         Len(docs) \in Nat, x \in 0 .. Len(docs),
         IsBehind(b, docs), IsBehind(e, other), SameUpTo(x, docs, other)
  PROVE  \A c \in 0 .. x : e[c] = b[c]
<1> DEFINE T == {c \in 0 .. x : e[c] = b[c]}
<1>1. 0 \in T
  BY DEF IsBehind
<1>2. ASSUME NEW c \in 1 .. x, c - 1 \in T PROVE c \in T
  <2>1. c \in 1 .. Len(docs) /\ c \in 0 .. x
    OBVIOUS
  <2>2. b[c] = b[c - 1] + Taking(docs[c]) /\ e[c] = e[c - 1] + Taking(other[c])
    BY <2>1 DEF IsBehind, SameUpTo
  <2>3. other[c] = docs[c]
    BY DEF SameUpTo
  <2> QED BY <1>2, <2>1, <2>2, <2>3
<1>3. \A c \in 0 .. x : c \in T
  <2>1. x \in Nat
    OBVIOUS
  <2> HIDE DEF T
  <2> QED BY <1>1, <1>2, <2>1, RunInduction
<1> QED BY <1>3

\* Stages without a document take nothing.
LEMMA BehindRest ==
  ASSUME NEW docs, NEW b, NEW x, Len(docs) \in Nat, x \in 0 .. Len(docs),
         IsBehind(b, docs), NoneBehind(x, docs)
  PROVE  b[Len(docs)] = b[x]
<1> DEFINE L == Len(docs)
           T == {d \in 0 .. L : d >= x => b[d] = b[x]}
<1>1. \A c \in 0 .. L : b[c] \in Nat
  BY DEF IsBehind
<1>2. 0 \in T
  OBVIOUS
<1>3. ASSUME NEW d \in 1 .. L, d - 1 \in T PROVE d \in T
  <2>1. CASE d <= x
    BY <2>1
  <2>2. CASE d > x
    <3>1. b[d - 1] = b[x] /\ d - 1 \in 0 .. L
      BY <1>3, <2>2
    <3>2. b[d] = b[d - 1] + Taking(docs[d]) /\ Taking(docs[d]) = 0
      BY <2>2 DEF IsBehind, Taking, NoneBehind
    <3> QED BY <1>1, <3>1, <3>2
  <2> QED BY <2>1, <2>2
<1>4. \A d \in 0 .. L : d \in T
  <2> HIDE DEF T
  <2> QED BY <1>2, <1>3, RunInduction
<1> QED BY <1>4

-----------------------------------------------------------------------------
(* Bodies, and what a step makes of them                                   *)

\* One body: the lines it is made of, among them none that ends it, and the
\* line behind it.
Body(d, from, to, took, ends) ==
  /\ d = SubSeq(took, from + 1, to - 1)
  /\ \A k \in Range(d) : k \notin ends

\* The line at to ended the body, by being its word or by a failed write;
\* if there is no such line the input has ended.
Closed(to, took, ends, flt, ended) ==
  IF to <= Len(took) THEN flt \/ took[to] \in ends ELSE ended

\* The bodies docs of the stages, of which those in asked have one, after
\* the lines took, while stage open reads (0: none does).
Bodies(b, docs, took, open, ended, asked, ends, flt) ==
  /\ \A c \in asked, d \in 1 .. Len(docs) : c < d /\ docs[d] # None => docs[c] # None
  /\ open # 0 => \A d \in 1 .. Len(docs) : d > open => docs[d] = None
  /\ \A c \in 1 .. Len(docs) :
       docs[c] # None => /\ c \in asked
                         /\ Body(docs[c], b[c - 1], b[c], took, ends[c])
                         /\ c # open => Closed(b[c], took, ends[c], flt, ended)
  /\ ended => Len(took) < b[Len(docs)]
  /\ ~ended => Len(took) = b[Len(docs)] - IF open = 0 THEN 0 ELSE 1

\* new is docs with the document d for stage x.
Replaces(new, x, d, docs) ==
  /\ Len(new) = Len(docs) /\ new[x] = d
  /\ \A j \in 1 .. Len(docs) : j # x => new[j] = docs[j]

\* Documents are sequences; storing one changes its place alone.
LEMMA DocumentsAre ==
  ASSUME NEW docs \in Documents
  PROVE  /\ Len(docs) \in Nat /\ DOMAIN docs = 1 .. Len(docs)
         /\ \A c \in 1 .. Len(docs) : docs[c] # None => docs[c] \in Seq(Nat)
         /\ \A c \in 1 .. Len(docs), d \in Seq(Nat) :
              /\ [docs EXCEPT ![c] = d] \in Documents
              /\ Replaces([docs EXCEPT ![c] = d], c, d, docs)
<1> DEFINE D == Seq(Nat) \cup {None}
<1>1. docs \in Seq(D)
  BY DEF Documents
<1>2. \A d \in Seq(Nat) : d \in D
  OBVIOUS
<1>3. \A d \in D : d # None => d \in Seq(Nat)
  OBVIOUS
<1>4. Documents = Seq(D)
  BY DEF Documents
<1> HIDE DEF D
<1>5. Len(docs) \in Nat /\ DOMAIN docs = 1 .. Len(docs) /\ \A c \in 1 .. Len(docs) : docs[c] \in D
  BY <1>1
<1>6. ASSUME NEW c \in 1 .. Len(docs), NEW d \in Seq(Nat)
      PROVE  /\ [docs EXCEPT ![c] = d] \in Documents
             /\ Replaces([docs EXCEPT ![c] = d], c, d, docs)
  <2>1. d \in D
    BY <1>2
  <2>2. [docs EXCEPT ![c] = d] \in Seq(D) /\ Len([docs EXCEPT ![c] = d]) = Len(docs)
    BY <1>1, <2>1, ExceptSeq
  <2> QED BY <1>4, <1>5, <2>2 DEF Replaces
<1> QED BY <1>3, <1>5, <1>6

\* A body is not touched by a line behind it,
LEMMA BodyKept ==
  ASSUME NEW took \in Seq(Nat), NEW k \in Nat, NEW d, NEW ends,
         NEW from \in Nat, NEW to \in Nat \ {0}, to - 1 <= Len(took),
         Body(d, from, to, took, ends)
  PROVE  Body(d, from, to, Append(took, k), ends)
<1> DEFINE m == from + 1
           n == to - 1
<1>1. m \in Nat \ {0} /\ n \in Nat /\ n <= Len(took)
  OBVIOUS
<1> HIDE DEF m, n
<1>2. SubSeq(Append(took, k), m, n) = SubSeq(took, m, n)
  BY <1>1, PartOfAppend
<1> QED BY <1>2 DEF Body, m, n

\* nor is the line that ended it.
LEMMA ClosedKept ==
  ASSUME NEW took \in Seq(Nat), NEW k \in Nat, NEW ends, NEW flt \in BOOLEAN,
         NEW ended \in BOOLEAN,
         NEW to \in Nat \ {0}, to <= Len(took),
         Closed(to, took, ends, flt, ended)
  PROVE  Closed(to, Append(took, k), ends, flt, ended)
<1>1. /\ Len(Append(took, k)) = Len(took) + 1 /\ Len(took) \in Nat
      /\ Append(took, k)[to] = took[to]
  BY AppendProperties, LenProperties
<1> QED BY <1>1 DEF Closed

\* A line that does not end the body becomes its last one.
LEMMA BodyGrows ==
  ASSUME NEW took \in Seq(Nat), NEW k \in Nat, NEW d \in Seq(Nat), NEW ends,
         NEW from \in Nat, from <= Len(took),
         Body(d, from, Len(took) + 1, took, ends), k \notin ends
  PROVE  Body(Append(d, k), from, Len(took) + 2, Append(took, k), ends)
<1> DEFINE m == from + 1
<1>1. /\ m \in Nat \ {0} /\ m <= Len(took) + 1 /\ Len(took) \in Nat
      /\ Len(took) + 1 - 1 = Len(took) /\ Len(took) + 2 - 1 = Len(took) + 1
  BY LenProperties
<1> HIDE DEF m
<1>2. d = SubSeq(took, m, Len(took))
  BY <1>1 DEF Body, m
<1>3. Append(d, k) = SubSeq(Append(took, k), m, Len(took) + 1)
  BY <1>1, <1>2, EndOfAppend
<1>4. ASSUME NEW j \in Range(Append(d, k)) PROVE j \notin ends
  <2>1. PICK i \in 1 .. Len(d) + 1 : j = Append(d, k)[i]
    BY AppendProperties DEF Range
  <2>2. CASE i = Len(d) + 1
    BY <2>1, <2>2, AppendProperties
  <2>3. CASE i # Len(d) + 1
    <3>1. i \in 1 .. Len(d) /\ j = d[i]
      BY <2>1, <2>3, AppendProperties
    <3>2. j \in Range(d)
      BY <3>1 DEF Range
    <3> QED BY <3>2 DEF Body
  <2> QED BY <2>2, <2>3
<1>6. \A j \in Range(Append(d, k)) : j \notin ends
  BY <1>4
<1> DEFINE new == Append(d, k)
           more == Append(took, k)
           to == Len(took) + 2
<1>5. to - 1 = Len(took) + 1 /\ m = from + 1
  BY <1>1 DEF m
<1> HIDE DEF new, more, to
<1>7. new = SubSeq(more, from + 1, to - 1)
  BY <1>3, <1>5 DEF new, more
<1>8. \A j \in Range(new) : j \notin ends
  BY <1>6, Zenon DEF new
<1>9. Body(new, from, to, more, ends)
  BY <1>7, <1>8 DEF Body
<1> QED BY <1>9, Zenon DEF new, more, to

-----------------------------------------------------------------------------
\* The beginning: no stage has its document.
LEMMA NoBodies ==
  ASSUME NEW docs \in Documents, NEW b, IsBehind(b, docs),
         NEW took, Len(took) = 1, NEW asked, NEW ends, NEW flt,
         NEW ended \in BOOLEAN, ~ended,
         \A c \in 1 .. Len(docs) : docs[c] = None
  PROVE  Bodies(b, docs, took, 0, ended, asked, ends, flt)
<1>1. Len(docs) \in Nat
  BY DocumentsAre
<1>2. b[Len(docs)] = b[0]
  <2>1. NoneBehind(0, docs) /\ 0 \in 0 .. Len(docs)
    BY <1>1 DEF NoneBehind
  <2> QED BY <1>1, <2>1, BehindRest
<1>3. Len(took) = b[Len(docs)] - 0
  BY <1>2 DEF IsBehind
<1> QED BY <1>3 DEF Bodies

\* The next stage that is due begins with an empty document.
LEMMA BodyOpened ==
  ASSUME NEW docs \in Documents, NEW b, IsBehind(b, docs),
         NEW took \in Seq(Nat), NEW ended \in BOOLEAN, NEW asked, NEW ends,
         NEW flt \in BOOLEAN,
         Bodies(b, docs, took, 0, ended, asked, ends, flt),
         NEW x \in asked, x \in 1 .. Len(docs), docs[x] = None,
         \A c \in asked : c < x => docs[c] # None,
         asked \subseteq 1 .. Len(docs),
         NEW new, Replaces(new, x, <<>>, docs), NEW e, IsBehind(e, new)
  PROVE  Bodies(e, new, took, x, ended, asked, ends, flt)
<1> DEFINE N == Len(docs)
<1>1. N \in Nat /\ Len(new) = N
      /\ new[x] = <<>> /\ \A j \in 1 .. N : j # x => new[j] = docs[j]
  BY DocumentsAre DEF Replaces
<1>2. new[x] # None
  <2>1. <<>> \in Seq(Nat)
    OBVIOUS
  <2> QED BY <1>1, <2>1, ReplAssumption
<1>3. \A d \in 1 .. N : d > x => docs[d] = None
  BY DEF Bodies
<1>4. /\ \A c \in 0 .. N : b[c] \in Nat /\ e[c] \in Nat
      /\ e[x] = e[x - 1] + Taking(new[x])
  BY <1>1 DEF IsBehind
<1> HIDE DEF N
<1>5. x \in 1 .. N /\ x - 1 \in 0 .. N /\ x \in 0 .. N /\ N \in 0 .. N
  BY <1>1 DEF N
<1>6. \A c \in 0 .. x - 1 : e[c] = b[c]
  <2> DEFINE y == x - 1
  <2>1. y \in 0 .. Len(docs) /\ SameUpTo(y, docs, new) /\ Len(docs) \in Nat
    BY <1>1, <1>5 DEF SameUpTo, N
  <2> HIDE DEF y
  <2>2. \A c \in 0 .. y : e[c] = b[c]
    BY <2>1, BehindSame
  <2> QED BY <2>2 DEF y
<1>7. b[N] = b[x - 1]
  <2> DEFINE y == x - 1
  <2>1. y \in 0 .. Len(docs) /\ NoneBehind(y, docs) /\ Len(docs) \in Nat
    BY <1>1, <1>3, <1>5 DEF NoneBehind, N
  <2> HIDE DEF y
  <2>2. b[Len(docs)] = b[y]
    BY <2>1, BehindRest
  <2> QED BY <2>2 DEF y, N
<1>8. e[N] = e[x]
  <2>1. x \in 0 .. Len(new) /\ NoneBehind(x, new) /\ Len(new) \in Nat
    BY <1>1, <1>3, <1>5 DEF NoneBehind
  <2> QED BY <1>1, <2>1, BehindRest
<1>9. e[x] = e[x - 1] + 1 /\ e[x - 1] = b[x - 1]
  <2>1. Taking(new[x]) = 1
    BY <1>1, <1>2 DEF Taking
  <2> QED BY <1>4, <1>5, <1>6, <2>1
<1>10. ASSUME NEW c \in asked, NEW d \in 1 .. N, c < d, new[d] # None
       PROVE  new[c] # None
  <2>1. c \in 1 .. N
    BY DEF N
  <2>2. CASE c = x
    BY <1>2, <2>2
  <2>3. CASE d = x
    <3>1. c < x /\ c # x
      BY <1>10, <1>5, <2>1, <2>3
    <3> QED BY <1>1, <2>1, <3>1
  <2>4. CASE c # x /\ d # x
    <3>1. docs[d] # None /\ new[c] = docs[c]
      BY <1>1, <1>10, <2>1, <2>4
    <3> QED BY <1>10, <3>1 DEF Bodies, N
  <2> QED BY <2>2, <2>3, <2>4
<1>11. \A d \in 1 .. N : d > x => new[d] = None
  BY <1>1, <1>3, <1>5
<1>12. ASSUME NEW c \in 1 .. N, new[c] # None
       PROVE  /\ c \in asked
              /\ Body(new[c], e[c - 1], e[c], took, ends[c])
              /\ c # x => Closed(e[c], took, ends[c], flt, ended)
  <2>1. CASE c = x
    <3>1. e[x - 1] + 1 \in Int /\ e[x] - 1 \in Int /\ e[x] - 1 < e[x - 1] + 1
      BY <1>4, <1>5, <1>9
    <3>2. SubSeq(took, e[x - 1] + 1, e[x] - 1) = <<>>
      BY <3>1, SubSeqEmpty
    <3>3. Range(<<>>) = {}
      BY DEF Range
    <3> QED BY <1>1, <2>1, <3>2, <3>3 DEF Body
  <2>2. CASE c # x
    <3>1. docs[c] # None /\ new[c] = docs[c]
      BY <1>1, <1>12, <2>2
    <3>2. c \in 0 .. x - 1 /\ c - 1 \in 0 .. x - 1
      BY <1>3, <1>5, <2>2, <3>1
    <3>3. e[c] = b[c] /\ e[c - 1] = b[c - 1]
      BY <1>6, <3>2
    <3>4. /\ c \in asked /\ Body(docs[c], b[c - 1], b[c], took, ends[c])
          /\ Closed(b[c], took, ends[c], flt, ended)
      BY <3>1, <3>2 DEF Bodies, N
    <3> QED BY <3>1, <3>3, <3>4
  <2> QED BY <2>1, <2>2
<1>13. /\ ended => Len(took) < e[N]
       /\ ~ended => Len(took) = e[N] - 1
  <2>1. /\ ended => Len(took) < b[N]
        /\ ~ended => Len(took) = b[N] - 0
    BY DEF Bodies, N
  <2>2. Len(took) \in Nat /\ b[N] \in Nat /\ e[N] = b[N] + 1
    BY <1>4, <1>5, <1>7, <1>8, <1>9
  <2> QED BY <2>1, <2>2
<1>14. x # 0
  BY <1>5
<1> QED BY <1>1, <1>10, <1>11, <1>12, <1>13, <1>14 DEF Bodies

-----------------------------------------------------------------------------
\* What Bodies says of the stage that reads.
Reads(b, docs, took, x, ended) ==
  /\ \A d \in 1 .. Len(docs) : docs[d] # None /\ d # x => d < x
  /\ \A c \in 0 .. Len(docs) : b[c] \in Nat /\ 1 <= b[c]
  /\ b[x] = b[x - 1] + Len(docs[x]) + 1
  /\ b[Len(docs)] = b[x]
  /\ \A c \in 0 .. x - 1 : b[c] < b[x]
  /\ ended => Len(took) < b[x]
  /\ ~ended => Len(took) = b[x] - 1

\* While stage x reads: its document is the last one.
LEMMA WhileReading ==
  ASSUME NEW docs \in Documents, NEW b, IsBehind(b, docs),
         NEW took \in Seq(Nat), NEW ended \in BOOLEAN, NEW asked, NEW ends,
         NEW flt, NEW x \in 1 .. Len(docs), docs[x] # None,
         Bodies(b, docs, took, x, ended, asked, ends, flt)
  PROVE  Reads(b, docs, took, x, ended)
<1> DEFINE N == Len(docs)
<1>1. N \in Nat /\ docs[x] \in Seq(Nat)
  BY DocumentsAre
<1>2. \A c \in 0 .. N : b[c] \in Nat
  BY DEF IsBehind
<1>3. x \in 0 .. N /\ x - 1 \in 0 .. N /\ N \in 0 .. N /\ x # 0
  BY <1>1
<1>4. \A d \in 1 .. N : d > x => docs[d] = None
  BY <1>3 DEF Bodies
<1>5. b[N] = b[x]
  <2>1. NoneBehind(x, docs)
    BY <1>4 DEF NoneBehind
  <2> QED BY <1>1, <1>3, <2>1, BehindRest
<1>6. b[x] = b[x - 1] + Len(docs[x]) + 1
  <2>1. b[x] = b[x - 1] + Taking(docs[x]) /\ Taking(docs[x]) = Len(docs[x]) + 1
    BY DEF IsBehind, Taking
  <2>2. Len(docs[x]) \in Nat /\ b[x - 1] \in Nat
    BY <1>1, <1>2, <1>3
  <2> QED BY <2>1, <2>2
<1>7. \A d \in 0 .. N : 1 <= b[d] /\ \A c \in 0 .. d : b[c] <= b[d]
  BY BehindGrows
<1>8. ASSUME NEW c \in 0 .. x - 1 PROVE b[c] < b[x]
  <2>1. b[c] <= b[x - 1] /\ b[c] \in Nat /\ b[x - 1] \in Nat /\ Len(docs[x]) \in Nat
    BY <1>1, <1>2, <1>3, <1>7
  <2> QED BY <1>6, <2>1
<1>9. /\ ended => Len(took) < b[x]
      /\ ~ended => Len(took) = b[x] - 1
  BY <1>3, <1>5 DEF Bodies
<1>10. \A d \in 1 .. N : docs[d] # None /\ d # x => d < x
  BY <1>1, <1>3, <1>4
<1>11. \A c \in 0 .. N : b[c] \in Nat /\ 1 <= b[c]
  BY <1>2, <1>7
<1> QED BY <1>5, <1>6, <1>8, <1>9, <1>10, <1>11 DEF Reads

\* What Bodies says of a stage that has its document.
Kept(c, b, docs, took, ended, asked, ends, flt) ==
  /\ c \in asked
  /\ Body(docs[c], b[c - 1], b[c], took, ends[c])
  /\ Closed(b[c], took, ends[c], flt, ended)

\* The bodies before the one that is read are not touched by a new line.
LEMMA EarlierBodies ==
  ASSUME NEW docs \in Documents, NEW b, IsBehind(b, docs),
         NEW took \in Seq(Nat), NEW asked, NEW ends, NEW flt \in BOOLEAN,
         NEW ended \in BOOLEAN, ~ended,
         NEW x \in 1 .. Len(docs), docs[x] # None,
         Bodies(b, docs, took, x, ended, asked, ends, flt),
         NEW k \in Nat, NEW c \in 1 .. Len(docs), docs[c] # None, c # x
  PROVE  Kept(c, b, docs, Append(took, k), ended, asked, ends, flt)
<1>1. /\ c \in asked /\ Body(docs[c], b[c - 1], b[c], took, ends[c])
      /\ Closed(b[c], took, ends[c], flt, ended)
  BY DEF Bodies
<1>2. /\ \A d \in 1 .. Len(docs) : docs[d] # None /\ d # x => d < x
      /\ \A d \in 0 .. Len(docs) : b[d] \in Nat /\ 1 <= b[d]
      /\ \A d \in 0 .. x - 1 : b[d] < b[x]
      /\ Len(took) = b[x] - 1
  <2>1. Reads(b, docs, took, x, ended)
    BY WhileReading
  <2> QED BY <2>1 DEF Reads
<1>3. c \in 0 .. x - 1 /\ c \in 0 .. Len(docs) /\ c - 1 \in 0 .. Len(docs) /\ x \in 0 .. Len(docs)
  BY <1>2, DocumentsAre
<1>4. /\ b[c] \in Nat \ {0} /\ b[c - 1] \in Nat /\ b[c] <= Len(took) /\ b[c] - 1 <= Len(took)
  <2>1. b[c] < b[x] /\ b[c] \in Nat /\ 1 <= b[c] /\ b[x] \in Nat /\ b[c - 1] \in Nat
    BY <1>2, <1>3
  <2> QED BY <1>2, <2>1
<1>5. Body(docs[c], b[c - 1], b[c], Append(took, k), ends[c])
  BY <1>1, <1>4, BodyKept
<1>6. Closed(b[c], Append(took, k), ends[c], flt, ended)
  BY <1>1, <1>4, ClosedKept
<1> QED BY <1>1, <1>5, <1>6 DEF Kept

\* A line of the body.
LEMMA BodyLine ==
  ASSUME NEW docs \in Documents, NEW b, IsBehind(b, docs),
         NEW took \in Seq(Nat), NEW asked, NEW ends, NEW flt \in BOOLEAN,
         NEW ended \in BOOLEAN, ~ended,
         NEW x \in 1 .. Len(docs), docs[x] # None,
         Bodies(b, docs, took, x, ended, asked, ends, flt),
         asked \subseteq 1 .. Len(docs),
         NEW k \in Nat, k \notin ends[x],
         NEW new, Replaces(new, x, Append(docs[x], k), docs),
         NEW e, IsBehind(e, new)
  PROVE  Bodies(e, new, Append(took, k), x, ended, asked, ends, flt)
<1> DEFINE N == Len(docs)
           new2 == Append(docs[x], k)
<1>1. docs[x] \in Seq(Nat) /\ new2 \in Seq(Nat) /\ Len(new2) = Len(docs[x]) + 1
  BY DocumentsAre, AppendProperties
<1> HIDE DEF new2
<1>2. N \in Nat /\ Len(new) = N
      /\ new[x] = new2 /\ \A j \in 1 .. N : j # x => new[j] = docs[j]
  BY DocumentsAre DEF Replaces, new2
<1>3. new[x] # None
  BY <1>1, <1>2, ReplAssumption
<1>4. /\ \A d \in 1 .. N : docs[d] # None /\ d # x => d < x
      /\ \A d \in 0 .. N : b[d] \in Nat /\ 1 <= b[d]
      /\ b[x] = b[x - 1] + Len(docs[x]) + 1 /\ b[N] = b[x]
      /\ Len(took) = b[x] - 1
  <2>1. Reads(b, docs, took, x, ended)
    BY WhileReading
  <2> QED BY <2>1 DEF Reads
<1> HIDE DEF N
<1>5. x \in 1 .. N /\ x - 1 \in 0 .. N /\ x \in 0 .. N /\ N \in 0 .. N /\ x # 0
  BY <1>2 DEF N
<1>6. \A c \in 0 .. x - 1 : e[c] = b[c]
  <2> DEFINE y == x - 1
  <2>1. y \in 0 .. Len(docs) /\ SameUpTo(y, docs, new) /\ Len(docs) \in Nat
    BY <1>2, <1>5 DEF SameUpTo, N
  <2> HIDE DEF y
  <2>2. \A c \in 0 .. y : e[c] = b[c]
    BY <2>1, BehindSame
  <2> QED BY <2>2 DEF y
<1>7. ASSUME NEW d \in 1 .. N, d > x PROVE new[d] = None
  <2>1. d # x /\ ~ (d < x)
    BY <1>5, <1>7
  <2>2. docs[d] = None
    BY <1>4, <2>1
  <2> QED BY <1>2, <2>1, <2>2
<1>8. e[N] = e[x]
  <2>1. x \in 0 .. Len(new) /\ NoneBehind(x, new) /\ Len(new) \in Nat
    BY <1>2, <1>5, <1>7 DEF NoneBehind
  <2> QED BY <1>2, <2>1, BehindRest
<1>9. e[x] = b[x] + 1 /\ e[x - 1] = b[x - 1]
  <2>1. e[x] = e[x - 1] + Taking(new[x]) /\ Taking(new[x]) = Len(docs[x]) + 2
    <3>1. Taking(new[x]) = Len(new2) + 1
      BY <1>2, <1>3 DEF Taking
    <3>2. Len(docs[x]) \in Nat
      BY <1>1
    <3> QED BY <1>1, <1>2, <1>5, <3>1, <3>2 DEF IsBehind
  <2>2. e[x - 1] = b[x - 1] /\ b[x - 1] \in Nat /\ Len(docs[x]) \in Nat
    BY <1>1, <1>4, <1>5, <1>6
  <2> QED BY <1>4, <2>1, <2>2
<1>10. ASSUME NEW c \in asked, NEW d \in 1 .. N, c < d, new[d] # None
       PROVE  new[c] # None
  <2>1. c \in 1 .. N
    BY DEF N
  <2>2. docs[d] # None
    BY <1>2, <1>10
  <2>3. docs[c] # None
    BY <1>10, <2>2 DEF Bodies, N
  <2> QED BY <1>2, <1>3, <2>1, <2>3
<1>11. ASSUME NEW c \in 1 .. N, new[c] # None
       PROVE  /\ c \in asked
              /\ Body(new[c], e[c - 1], e[c], Append(took, k), ends[c])
              /\ c # x => Closed(e[c], Append(took, k), ends[c], flt, ended)
  <2>1. CASE c = x
    <3>1. x \in asked /\ Body(docs[x], b[x - 1], b[x], took, ends[x])
      BY <1>5 DEF Bodies, N
    <3>2. /\ b[x] = Len(took) + 1 /\ b[x - 1] \in Nat /\ b[x - 1] <= Len(took)
          /\ e[x] = Len(took) + 2
      <4>1. b[x] \in Nat /\ b[x - 1] \in Nat
        BY <1>4, <1>5
      <4>2. Len(docs[x]) \in Nat /\ Len(took) \in Nat
        BY <1>1, LenProperties
      <4> QED BY <1>4, <1>9, <4>1, <4>2
    <3>3. Body(new2, b[x - 1], e[x], Append(took, k), ends[x])
      BY <1>1, <3>1, <3>2, BodyGrows DEF new2
    <3> QED BY <1>2, <1>9, <2>1, <3>1, <3>3
  <2>2. CASE c # x
    <3>1. docs[c] # None /\ new[c] = docs[c]
      BY <1>2, <1>11, <2>2
    <3>2. c \in 0 .. x - 1 /\ c - 1 \in 0 .. x - 1
      BY <1>4, <1>5, <2>2, <3>1
    <3>3. e[c] = b[c] /\ e[c - 1] = b[c - 1]
      BY <1>6, <3>2
    <3>4. /\ c \in asked
          /\ Body(docs[c], b[c - 1], b[c], Append(took, k), ends[c])
          /\ Closed(b[c], Append(took, k), ends[c], flt, ended)
      <4>1. c \in 1 .. Len(docs)
        BY DEF N
      <4>2. Kept(c, b, docs, Append(took, k), ended, asked, ends, flt)
        BY <2>2, <3>1, <4>1, EarlierBodies
      <4> QED BY <4>2 DEF Kept
    <3> QED BY <3>1, <3>3, <3>4
  <2> QED BY <2>1, <2>2
<1>12. Len(Append(took, k)) = e[N] - 1
  <2>1. Len(Append(took, k)) = Len(took) + 1 /\ Len(took) \in Nat /\ b[x] \in Nat
    BY <1>4, <1>5, AppendProperties, LenProperties
  <2> QED BY <1>4, <1>8, <1>9, <2>1
<1> QED BY <1>2, <1>5, <1>7, <1>10, <1>11, <1>12 DEF Bodies

\* The line behind the body: it ends there, or its write failed.
LEMMA BodyEnds ==
  ASSUME NEW docs \in Documents, NEW b, IsBehind(b, docs),
         NEW took \in Seq(Nat), NEW asked, NEW ends, NEW flt \in BOOLEAN,
         NEW ended \in BOOLEAN, ~ended,
         NEW x \in 1 .. Len(docs), docs[x] # None,
         Bodies(b, docs, took, x, ended, asked, ends, flt),
         NEW k \in Nat, flt \/ k \in ends[x]
  PROVE  Bodies(b, docs, Append(took, k), 0, ended, asked, ends, flt)
<1> DEFINE N == Len(docs)
<1>1. /\ \A d \in 0 .. N : b[d] \in Nat /\ 1 <= b[d]
      /\ b[x] = b[x - 1] + Len(docs[x]) + 1 /\ b[N] = b[x]
      /\ Len(took) = b[x] - 1
  <2>1. Reads(b, docs, took, x, ended)
    BY WhileReading
  <2> QED BY <2>1 DEF Reads
<1>2. /\ N \in Nat /\ x \in 0 .. N /\ x - 1 \in 0 .. N /\ x # 0
      /\ Len(docs[x]) \in Nat
  BY DocumentsAre
<1>3. /\ Len(Append(took, k)) = Len(took) + 1 /\ Len(took) \in Nat
      /\ Append(took, k)[Len(took) + 1] = k
  BY AppendProperties, LenProperties
<1>4. b[x] = Len(took) + 1 /\ b[x] \in Nat \ {0} /\ b[x - 1] \in Nat
  BY <1>1, <1>2, <1>3
<1>5. /\ x \in asked /\ Body(docs[x], b[x - 1], b[x], Append(took, k), ends[x])
      /\ Closed(b[x], Append(took, k), ends[x], flt, ended)
  <2>1. x \in asked /\ Body(docs[x], b[x - 1], b[x], took, ends[x])
    BY DEF Bodies
  <2>2. b[x] - 1 <= Len(took)
    BY <1>3, <1>4
  <2>3. Body(docs[x], b[x - 1], b[x], Append(took, k), ends[x])
    BY <1>4, <2>1, <2>2, BodyKept
  <2>4. Closed(b[x], Append(took, k), ends[x], flt, ended)
    BY <1>3, <1>4 DEF Closed
  <2> QED BY <2>1, <2>3, <2>4
<1>6. ASSUME NEW c \in 1 .. N, docs[c] # None
      PROVE  /\ c \in asked
             /\ Body(docs[c], b[c - 1], b[c], Append(took, k), ends[c])
             /\ Closed(b[c], Append(took, k), ends[c], flt, ended)
  <2>1. CASE c = x
    BY <1>5, <2>1
  <2>2. CASE c # x
    <3>1. Kept(c, b, docs, Append(took, k), ended, asked, ends, flt)
      BY <1>6, <2>2, EarlierBodies
    <3> QED BY <3>1 DEF Kept
  <2> QED BY <2>1, <2>2
<1>7. Len(Append(took, k)) = b[N] - 0
  BY <1>1, <1>3, <1>4
<1>8. \A c \in asked, d \in 1 .. N : c < d /\ docs[d] # None => docs[c] # None
  BY DEF Bodies
<1> QED BY <1>6, <1>7, <1>8 DEF Bodies

\* The input ends before the body does.
LEMMA BodyAtEnd ==
  ASSUME NEW docs \in Documents, NEW b, IsBehind(b, docs),
         NEW took \in Seq(Nat), NEW ended \in BOOLEAN, NEW asked, NEW ends,
         NEW flt \in BOOLEAN, NEW x \in 1 .. Len(docs), docs[x] # None,
         Bodies(b, docs, took, x, ended, asked, ends, flt),
         NEW now \in BOOLEAN, now
  PROVE  Bodies(b, docs, took, 0, now, asked, ends, flt)
<1> DEFINE N == Len(docs)
<1>1. /\ \A d \in 0 .. N : b[d] \in Nat /\ b[N] = b[x]
      /\ ended => Len(took) < b[x]
      /\ ~ended => Len(took) = b[x] - 1
  BY WhileReading DEF Reads
<1>2. N \in Nat /\ x \in 0 .. N /\ Len(took) \in Nat
  BY DocumentsAre, LenProperties
<1>3. Len(took) < b[x] /\ b[x] \in Nat
  <2>1. b[x] \in Nat
    BY <1>1, <1>2
  <2> QED BY <1>1, <1>2, <2>1
<1>4. ASSUME NEW c \in 1 .. N, docs[c] # None
      PROVE  /\ c \in asked
             /\ Body(docs[c], b[c - 1], b[c], took, ends[c])
             /\ Closed(b[c], took, ends[c], flt, now)
  <2>1. /\ c \in asked /\ Body(docs[c], b[c - 1], b[c], took, ends[c])
        /\ c # x => Closed(b[c], took, ends[c], flt, ended)
    BY <1>4 DEF Bodies
  <2>2. CASE c = x
    <3>1. ~ (b[x] <= Len(took))
      BY <1>2, <1>3
    <3> QED BY <2>1, <2>2, <3>1 DEF Closed
  <2>3. CASE c # x
    BY <2>1, <2>3 DEF Closed
  <2> QED BY <2>2, <2>3
<1>5. \A c \in asked, d \in 1 .. N : c < d /\ docs[d] # None => docs[c] # None
  BY DEF Bodies
<1>6. now => Len(took) < b[Len(docs)]
  BY <1>1, <1>3
<1> QED BY <1>4, <1>5, <1>6 DEF Bodies

-----------------------------------------------------------------------------
(* The invariant of the main loop                                          *)

\* The stages that have a here-document.
Asked(cmds) == {c \in DOMAIN cmds : cmds[c].delim # None}

\* The lines that end the body of each.
EndLines(cmds) ==
  [c \in DOMAIN cmds |-> {k \in Nat : script[k] = <<cmds[c].delim>>}]

\* The bodies so far, and the stage whose body is being read.
Collected ==
  Bodies(Behind(doc), doc, taken, reading, eof, Asked(commands),
         EndLines(commands), faulty)

\* From the command line to its execution the bodies are collected in
\* order; they all are when the collection is over.  Once stdio has seen the
\* end of the input, no line is left.
BodiesOK ==
  /\ faulty \in BOOLEAN /\ taken \in Seq(Nat)
  /\ eof => buf = <<>>
  /\ pc \in {"heredoc", "expand", "execute"} => Collected
  /\ pc \in {"expand", "execute"} =>
       reading = 0 /\ \A c \in Asked(commands) : doc[c] # None

\* While here-documents are collected there is one place for each stage.
Collecting ==
  pc \in {"heredoc", "expand", "execute"} =>
    /\ Len(doc) = Len(commands) /\ DOMAIN commands = 1 .. Len(doc)
    /\ doc \in Documents /\ IsBehind(Behind(doc), doc)
    /\ Asked(commands) \subseteq 1 .. Len(doc)
    /\ eof \in BOOLEAN
    /\ reading # 0 => /\ pc = "heredoc" /\ reading \in 1 .. Len(doc)
                      /\ doc[reading] \in Seq(Nat) /\ doc[reading] # None

\* The invariant of the session has the facts about places.
LEMMA CollectingHolds == SessionInv => Collecting
<1> SUFFICES ASSUME SessionInv, pc \in {"heredoc", "expand", "execute"}
             PROVE  Collecting
  BY DEF Collecting
<1> USE DEF SessionInv
<1>1. Len(commands) \in Nat /\ DOMAIN commands = 1 .. Len(commands)
  BY StagesOf DEF PipelineOK
<1>2. Len(doc) = Len(commands) /\ doc \in Documents /\ eof \in BOOLEAN
  BY DEF DocumentsOK, Documents
<1>3. IsBehind(Behind(doc), doc)
  BY <1>2, BehindCounts
<1>4. Asked(commands) \subseteq 1 .. Len(doc)
  BY <1>1, <1>2 DEF Asked
<1>5. reading # 0 => /\ pc = "heredoc" /\ reading \in DOMAIN commands
                     /\ doc[reading] \in Seq(Nat)
  BY DEF DocumentsOK
<1> QED BY <1>1, <1>2, <1>3, <1>4, <1>5, ReplAssumption DEF Collecting

\* A line that is taken is one of the script, and the input has not ended.
LEMMA LineTaken ==
  ASSUME SessionInv, BodiesOK, NEW isCommand, Take(isCommand)
  PROVE  Head(buf) \in Nat /\ Head(buf) \in 1 .. Len(script) /\ ~eof
<1>1. Head(buf) \in 1 .. Len(script)
  BY DEF Take, SessionInv, InputOK
<1>2. Len(script) \in Nat
  BY ScriptLines DEF SessionInv, InputOK
<1> QED BY <1>1, <1>2 DEF Take, BodiesOK

\* A line that is a command: none of its bodies has begun.
LEMMA CommandBodies ==
  ASSUME SessionInv, Collecting', BodiesOK, NEW strdup, TakeCommand(strdup)
  PROVE  BodiesOK'
<1> USE DEF inputVars
<1>1. Head(buf) \in Nat /\ ~eof
  BY LineTaken DEF TakeCommand
<1>2. /\ UNCHANGED <<faulty, eof, reading>> /\ reading = 0
      /\ taken' = <<Head(buf)>> /\ pc = "prompt"
  BY DEF TakeCommand, Take, SessionInv, DocumentsOK
<1>3. taken' \in Seq(Nat) /\ Len(taken') = 1
  BY <1>1, <1>2
<1>4. CASE pc' = "prompt"
  BY <1>1, <1>2, <1>3, <1>4 DEF BodiesOK
<1>5. CASE pc' # "prompt"
  <2>1. /\ pc' = "heredoc" /\ commands' = parsed[Head(buf)]
        /\ doc' = [c \in DOMAIN commands' |-> None]
    BY <1>2, <1>5 DEF TakeCommand
  <2>2. /\ DOMAIN commands' = 1 .. Len(doc') /\ doc' \in Documents
        /\ IsBehind(Behind(doc'), doc') /\ eof' \in BOOLEAN
    BY <2>1 DEF Collecting
  <2>3. \A c \in 1 .. Len(doc') : doc'[c] = None
    BY <2>1, <2>2
  <2>4. Bodies(Behind(doc'), doc', taken', 0, eof', Asked(commands'),
               EndLines(commands)', faulty')
    BY <1>1, <1>2, <1>3, <2>2, <2>3, NoBodies
  <2>5. Collected'
    BY <1>2, <2>4 DEF Collected
  <2> QED BY <1>1, <1>2, <1>3, <2>1, <2>5 DEF BodiesOK
<1> QED BY <1>4, <1>5

\* The first stage that is due begins to read.
LEMMA OpenedBody ==
  ASSUME SessionInv, Collecting, Collecting', BodiesOK, OpenHeredoc
  PROVE  BodiesOK'
<1> USE DEF inputVars, ghosts
<1> DEFINE x == Min(Due)
<1>1. /\ UNCHANGED <<script, faulty, eof, buf, commands, pc, taken>>
      /\ pc = "heredoc" /\ reading = 0 /\ Due # {}
      /\ reading' = x /\ doc' = [doc EXCEPT ![x] = <<>>]
  BY DEF OpenHeredoc
<1>2. /\ doc \in Documents /\ IsBehind(Behind(doc), doc) /\ eof \in BOOLEAN
      /\ Asked(commands) \subseteq 1 .. Len(doc)
      /\ IsBehind(Behind(doc'), doc')
  BY <1>1 DEF Collecting
<1>3. Due = {c \in Asked(commands) : doc[c] = None}
  BY DEF Due, Asked
<1>4. x \in Due /\ \A c \in Due : x <= c
  <2>1. Len(doc) \in Nat
    BY <1>2, DocumentsAre
  <2>2. Due \in SUBSET Nat
    BY <1>2, <1>3, <2>1
  <2> QED BY <1>1, <2>2, LeastNatural DEF Min
<1>5. x \in Asked(commands) /\ x \in 1 .. Len(doc) /\ doc[x] = None
  BY <1>2, <1>3, <1>4
<1>6. \A c \in Asked(commands) : c < x => doc[c] # None
  <2>1. ASSUME NEW c \in Asked(commands), c < x, doc[c] = None PROVE FALSE
    <3> HIDE DEF x
    <3>1. c \in Due
      BY <1>3, <2>1
    <3>2. x <= c
      BY <1>4, <3>1
    <3>3. c \in 1 .. Len(doc) /\ Len(doc) \in Nat
      BY <1>2, DocumentsAre
    <3> QED BY <1>5, <2>1, <3>2, <3>3
  <2> QED BY <2>1
<1>7. Replaces(doc', x, <<>>, doc)
  <2>1. <<>> \in Seq(Nat)
    OBVIOUS
  <2> HIDE DEF x
  <2>2. Replaces([doc EXCEPT ![x] = <<>>], x, <<>>, doc)
    BY <1>2, <1>5, <2>1, DocumentsAre
  <2> QED BY <1>1, <2>2
<1>8. Bodies(Behind(doc), doc, taken, 0, eof, Asked(commands), EndLines(commands), faulty)
  BY <1>1 DEF BodiesOK, Collected
<1>9. taken \in Seq(Nat) /\ faulty \in BOOLEAN
  BY DEF BodiesOK
<1> HIDE DEF x
<1>10. Bodies(Behind(doc'), doc', taken, x, eof, Asked(commands), EndLines(commands), faulty)
  <2> DEFINE b    == Behind(doc)
             e    == Behind(doc')
             new  == doc'
             ends == EndLines(commands)
             who  == Asked(commands)
  <2> HIDE DEF b, e, new, ends, who
  <2> QED BY <1>2, <1>5, <1>6, <1>7, <1>8, <1>9, BodyOpened DEF b, e, new, ends, who
<1>11. Collected'
  BY <1>1, <1>10 DEF Collected, EndLines
<1> QED BY <1>1, <1>9, <1>11 DEF BodiesOK

\* While a stage reads: what the lemmas on bodies ask for.
LEMMA Reading ==
  ASSUME Collecting, BodiesOK, pc = "heredoc", reading # 0
  PROVE  /\ doc \in Documents /\ IsBehind(Behind(doc), doc) /\ eof \in BOOLEAN
         /\ Asked(commands) \subseteq 1 .. Len(doc) /\ DOMAIN commands = 1 .. Len(doc)
         /\ reading \in 1 .. Len(doc) /\ doc[reading] \in Seq(Nat) /\ doc[reading] # None
         /\ taken \in Seq(Nat) /\ faulty \in BOOLEAN
         /\ Bodies(Behind(doc), doc, taken, reading, eof, Asked(commands),
                   EndLines(commands), faulty)
BY DEF Collecting, BodiesOK, Collected

\* The line behind the body, or the line whose write fails.
LEMMA EndedBody ==
  ASSUME SessionInv, Collecting, BodiesOK, HeredocLine \/ HeredocWriteFails, reading' = 0
  PROVE  BodiesOK'
<1> USE DEF inputVars
<1> DEFINE k == Head(buf)
<1>1. /\ UNCHANGED <<script, faulty, eof, commands, pc, doc>>
      /\ pc = "heredoc" /\ reading # 0
      /\ Take(FALSE) /\ taken' = Append(taken, k)
      /\ faulty \/ EndsBody(k)
  BY DEF HeredocLine, HeredocWriteFails, Take
<1>2. k \in Nat /\ ~eof
  BY <1>1, LineTaken
<1> HIDE DEF k
<1>3. faulty \/ k \in EndLines(commands)[reading]
  <2>1. reading \in DOMAIN commands
    BY <1>1, Reading
  <2> QED BY <1>1, <1>2, <2>1 DEF EndsBody, EndLines
<1>4. Bodies(Behind(doc), doc, Append(taken, k), 0, eof, Asked(commands),
             EndLines(commands), faulty)
  <2> DEFINE b    == Behind(doc)
             ends == EndLines(commands)
             who  == Asked(commands)
  <2>1. /\ doc \in Documents /\ IsBehind(b, doc) /\ eof \in BOOLEAN
        /\ reading \in 1 .. Len(doc) /\ doc[reading] # None
        /\ taken \in Seq(Nat) /\ faulty \in BOOLEAN
        /\ Bodies(b, doc, taken, reading, eof, who, ends, faulty)
    BY <1>1, Reading
  <2>2. faulty \/ k \in ends[reading]
    BY <1>3
  <2> HIDE DEF b, ends, who
  <2>3. Bodies(b, doc, Append(taken, k), 0, eof, who, ends, faulty)
    BY <1>2, <2>1, <2>2, BodyEnds
  <2> QED BY <2>3 DEF b, ends, who
<1>5. Collected'
  BY <1>1, <1>4 DEF Collected, EndLines
<1>6. taken' \in Seq(Nat) /\ faulty \in BOOLEAN
  BY <1>1, <1>2 DEF BodiesOK
<1> QED BY <1>1, <1>2, <1>5, <1>6 DEF BodiesOK

\* A line of the body.
LEMMA ReadBody ==
  ASSUME SessionInv, Collecting, Collecting', BodiesOK, HeredocLine, reading' # 0
  PROVE  BodiesOK'
<1> USE DEF inputVars
<1> DEFINE k == Head(buf)
<1>1. /\ UNCHANGED <<script, faulty, eof, commands, pc, reading>>
      /\ pc = "heredoc" /\ reading # 0
      /\ Take(FALSE) /\ taken' = Append(taken, k) /\ ~EndsBody(k)
      /\ doc' = [doc EXCEPT ![reading] = Append(@, k)]
  BY DEF HeredocLine, Take
<1>2. k \in Nat /\ ~eof
  BY <1>1, LineTaken
<1> HIDE DEF k
<1> DEFINE b    == Behind(doc)
           e    == Behind(doc')
           ends == EndLines(commands)
           who  == Asked(commands)
<1>3. /\ doc \in Documents /\ IsBehind(b, doc) /\ eof \in BOOLEAN
      /\ who \subseteq 1 .. Len(doc)
      /\ reading \in 1 .. Len(doc) /\ doc[reading] # None /\ doc[reading] \in Seq(Nat)
      /\ taken \in Seq(Nat) /\ faulty \in BOOLEAN
      /\ Bodies(b, doc, taken, reading, eof, who, ends, faulty)
  BY <1>1, Reading
<1>4. k \notin ends[reading]
  <2>1. reading \in DOMAIN commands
    BY <1>1, Reading
  <2> QED BY <1>1, <1>2, <2>1 DEF EndsBody, EndLines
<1>5. Replaces(doc', reading, Append(doc[reading], k), doc)
  <2> DEFINE new == Append(doc[reading], k)
  <2>1. new \in Seq(Nat)
    BY <1>2, <1>3
  <2>2. doc' = [doc EXCEPT ![reading] = new]
    BY <1>1
  <2> HIDE DEF new
  <2>3. Replaces([doc EXCEPT ![reading] = new], reading, new, doc)
    BY <1>3, <2>1, DocumentsAre
  <2>4. Replaces(doc', reading, new, doc)
    BY <2>2, <2>3
  <2> QED BY <2>4 DEF new
<1>6. IsBehind(e, doc')
  BY <1>1 DEF Collecting
<1>7. Bodies(e, doc', Append(taken, k), reading, eof, who, ends, faulty)
  <2> DEFINE new == doc'
  <2> HIDE DEF b, e, ends, who, new
  <2>1. IsBehind(e, new) /\ Replaces(new, reading, Append(doc[reading], k), doc)
    BY <1>5, <1>6 DEF new
  <2>2. Bodies(e, new, Append(taken, k), reading, eof, who, ends, faulty)
    BY <1>2, <1>3, <1>4, <2>1, BodyLine
  <2> QED BY <2>2 DEF new
<1>8. Collected'
  BY <1>1, <1>7 DEF Collected, EndLines
<1>9. taken' \in Seq(Nat)
  BY <1>1, <1>2 DEF BodiesOK
<1> QED BY <1>1, <1>2, <1>3, <1>8, <1>9 DEF BodiesOK

\* The end of the input inside a body.
LEMMA BodyWithoutEnd ==
  ASSUME SessionInv, Collecting, BodiesOK, HeredocAtEnd
  PROVE  BodiesOK'
<1> USE DEF inputVars, ghosts
<1>1. /\ UNCHANGED <<script, faulty, commands, pc, doc, taken, buf>>
      /\ pc = "heredoc" /\ reading # 0 /\ buf = <<>>
      /\ reading' = 0 /\ eof'
  BY DEF HeredocAtEnd, AtEnd
<1>2. eof' \in BOOLEAN
  BY DEF HeredocAtEnd
<1>3. Bodies(Behind(doc), doc, taken, 0, eof', Asked(commands), EndLines(commands), faulty)
  <2> DEFINE b    == Behind(doc)
             ends == EndLines(commands)
             who  == Asked(commands)
             now  == eof'
  <2>1. /\ doc \in Documents /\ IsBehind(b, doc) /\ eof \in BOOLEAN
        /\ reading \in 1 .. Len(doc) /\ doc[reading] # None
        /\ taken \in Seq(Nat) /\ faulty \in BOOLEAN
        /\ Bodies(b, doc, taken, reading, eof, who, ends, faulty)
    BY <1>1, Reading
  <2>2. now /\ now \in BOOLEAN
    BY <1>1, <1>2
  <2> HIDE DEF b, ends, who, now
  <2>3. Bodies(b, doc, taken, 0, now, who, ends, faulty)
    BY <2>1, <2>2, BodyAtEnd
  <2> QED BY <2>3 DEF b, ends, who, now
<1>4. Collected'
  BY <1>1, <1>3 DEF Collected, EndLines
<1> QED BY <1>1, <1>4 DEF BodiesOK

\* Expansion leaves the bodies and the words that end them.
LEMMA ExpandedBodies ==
  ASSUME SessionInv, BodiesOK, ExpandPipeline
  PROVE  BodiesOK'
<1> USE DEF inputVars, ghosts
<1>1. /\ UNCHANGED <<script, faulty, eof, doc, taken, buf, reading>>
      /\ pc = "expand" /\ pc' = "execute"
  BY DEF ExpandPipeline
<1>2. /\ DOMAIN commands' = DOMAIN commands
      /\ \A c \in DOMAIN commands : commands'[c].delim = commands[c].delim
  BY ExpandedStages DEF SessionInv
<1>3. Asked(commands') = Asked(commands)
  BY <1>2 DEF Asked
<1>4. EndLines(commands)' = EndLines(commands)
  BY <1>1, <1>2 DEF EndLines
<1>5. Collected'
  <2>1. Collected
    BY <1>1 DEF BodiesOK
  <2> QED BY <1>1, <1>3, <1>4, <2>1 DEF Collected
<1> QED BY <1>1, <1>3, <1>5 DEF BodiesOK

\* Every step leaves the bodies in order.
LEMMA BodiesStep ==
  ASSUME SessionInv, Collecting, Collecting', BodiesOK, [Next]_vars
  PROVE  BodiesOK'
<1> USE DEF inputVars, ghosts
<1>1. ASSUME UNCHANGED <<script, faulty, commands, doc, taken, reading, eof>>,
             pc' = pc \/ pc' \notin {"heredoc", "expand", "execute"},
             eof => buf' = <<>>
      PROVE  BodiesOK'
  BY <1>1 DEF BodiesOK, Collected, EndLines
<1>2. ASSUME UNCHANGED <<faulty, taken, eof, buf>>,
             pc' \notin {"heredoc", "expand", "execute"}
      PROVE  BodiesOK'
  BY <1>2 DEF BodiesOK
<1>3. ASSUME NEW strdup, TakeCommand(strdup) PROVE BodiesOK'
  BY <1>3, CommandBodies
<1>4. CASE Refill
  BY <1>1, <1>4 DEF Refill
<1>5. CASE EndOfInput \/ Crash
  BY <1>2, <1>5 DEF EndOfInput, Crash
<1>6. CASE OpenHeredoc
  BY <1>6, OpenedBody
<1>7. CASE HeredocLine
  BY <1>7, EndedBody, ReadBody
<1>8. CASE HeredocWriteFails
  BY <1>8, EndedBody DEF HeredocWriteFails
<1>9. CASE HeredocAtEnd
  BY <1>9, BodyWithoutEnd
<1>10. CASE HeredocsCollected
  <2>1. /\ UNCHANGED <<script, faulty, commands, doc, taken, reading, eof, buf>>
        /\ pc = "heredoc" /\ pc' = "expand" /\ reading = 0 /\ Due = {}
    BY <1>10 DEF HeredocsCollected
  <2>2. \A c \in Asked(commands) : doc[c] # None
    BY <2>1 DEF Due, Asked
  <2> QED BY <2>1, <2>2 DEF BodiesOK, Collected, EndLines
<1>11. CASE ExpandPipeline
  BY <1>11, ExpandedBodies
<1>12. ASSUME NEW ran, EndOfBody(ran) PROVE BodiesOK'
  BY <1>2, <1>12 DEF EndOfBody
<1>13. CASE OpenHeredocFails \/ RunBuiltin \/ SpawnFails \/ WaitDone
  BY <1>12, <1>13 DEF OpenHeredocFails, RunBuiltin, SpawnFails, WaitDone
<1>14. ASSUME NEW k \in KidIds, NEW fate \in AllFates,
              ExecuteBackground(k, fate) \/ ExecuteForeground(k, fate)
       PROVE  BodiesOK'
  BY <1>2, <1>12, <1>14 DEF ExecuteBackground, ExecuteForeground
<1>15. CASE UNCHANGED <<script, faulty, commands, doc, taken, reading, eof, pc, buf>>
  BY <1>1, <1>15 DEF BodiesOK
<1> QED BY <1>3, <1>4, <1>5, <1>6, <1>7, <1>8, <1>9, <1>10, <1>11, <1>13, <1>14, <1>15,
           OthersStep DEF ShellStep

\* When the pipeline is expanded and when it runs, the lines taken since the
\* command line are the bodies of its here-documents.
THEOREM Bodied == Spec => []BodiesInOrder
<1>1. Init => BodiesOK
  <2> SUFFICES ASSUME Init PROVE BodiesOK
    OBVIOUS
  <2>1. faulty \in BOOLEAN
    BY ReplAssumption DEF Init
  <2>2. taken \in Seq(Nat) /\ buf = <<>> /\ pc = "prompt"
    BY DEF Init
  <2> QED BY <2>1, <2>2 DEF BodiesOK
<1>2. SessionInv /\ Collecting /\ Collecting' /\ BodiesOK /\ [Next]_vars => BodiesOK'
  BY BodiesStep
<1>3. SessionInv /\ Collecting /\ BodiesOK => BodiesInOrder
  <2> SUFFICES ASSUME SessionInv, Collecting, BodiesOK, pc \in {"expand", "execute"}
               PROVE  BodiesInOrder
    BY DEF BodiesInOrder
  <2> DEFINE b    == Behind(doc)
             ends == EndLines(commands)
             who  == Asked(commands)
  <2>1. /\ DOMAIN commands = 1 .. Len(doc) /\ eof \in BOOLEAN
        /\ IsBehind(b, doc) /\ doc \in Documents
        /\ reading = 0 /\ \A c \in who : doc[c] # None
        /\ Bodies(b, doc, taken, reading, eof, who, ends, faulty)
    BY DEF Collecting, BodiesOK, Collected
  <2>2. /\ \A c \in 1 .. Len(doc) :
             doc[c] # None => /\ c \in who
                              /\ Body(doc[c], b[c - 1], b[c], taken, ends[c])
                              /\ Closed(b[c], taken, ends[c], faulty, eof)
        /\ eof => Len(taken) < b[Len(doc)]
        /\ ~eof => Len(taken) = b[Len(doc)] - 0
    <3> HIDE DEF b, ends, who
    <3> QED BY <2>1, DocumentsAre DEF Bodies
  <2>3. b[Len(doc)] \in Nat
    <3>1. Len(doc) \in 0 .. Len(doc)
      BY <2>1, DocumentsAre
    <3> QED BY <2>1, <3>1 DEF IsBehind
  <2>4. \A c \in DOMAIN commands : commands[c].delim # None <=> doc[c] # None
    BY <2>1, <2>2 DEF Asked
  <2>5. ASSUME NEW c \in DOMAIN commands, doc[c] # None
        PROVE  /\ doc[c] = SubSeq(taken, b[c - 1] + 1, b[c] - 1)
               /\ \A k \in Range(doc[c]) : script[k] # <<commands[c].delim>>
               /\ IF b[c] <= Len(taken)
                  THEN faulty \/ script[taken[b[c]]] = <<commands[c].delim>>
                  ELSE eof
    <3>1. /\ doc[c] \in Seq(Nat)
          /\ Body(doc[c], b[c - 1], b[c], taken, ends[c])
          /\ Closed(b[c], taken, ends[c], faulty, eof)
      BY <2>1, <2>2, <2>5, DocumentsAre
    <3>2. \A k : k \in ends[c] <=> k \in Nat /\ script[k] = <<commands[c].delim>>
      BY <2>5 DEF EndLines
    <3> HIDE DEF b, ends, who
    <3>3. doc[c] = SubSeq(taken, b[c - 1] + 1, b[c] - 1)
      BY <3>1 DEF Body
    <3>4. ASSUME NEW k \in Range(doc[c]) PROVE script[k] # <<commands[c].delim>>
      <4>1. k \in Nat /\ k \notin ends[c]
        BY <3>1 DEF Body, Range
      <4> QED BY <3>2, <4>1
    <3>5. IF b[c] <= Len(taken)
          THEN faulty \/ script[taken[b[c]]] = <<commands[c].delim>>
          ELSE eof
      BY <3>1, <3>2 DEF Closed
    <3> QED BY <3>3, <3>4, <3>5
  <2>6. IF eof THEN Len(taken) < b[Len(doc)] ELSE Len(taken) = b[Len(doc)]
    BY <2>2, <2>3
  <2> QED BY <2>4, <2>5, <2>6 DEF BodiesInOrder
<1> QED BY <1>1, <1>2, <1>3, SessionInvariant, CollectingHolds, PTL DEF Spec
=============================================================================

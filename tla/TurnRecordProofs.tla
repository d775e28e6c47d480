-------------------------- MODULE TurnRecordProofs --------------------------
(***************************************************************************)
(* Lemmas about the operators of TurnRecord.  The unstreamed handler folds *)
(* ProcessPart over the parts of an answer; the fold of the library is a   *)
(* recursive function over sets of positions, so what one part more does   *)
(* to it is proved here, by least counterexample.  So is what the          *)
(* accumulator holds after any parts (AlwaysRight): each message the text  *)
(* between two signatures, signed by the last one for it, each call what   *)
(* was sent last for it, all listed in the order of their first pieces.    *)
(***************************************************************************)
EXTENDS TurnRecord, Integers, SequenceTheorems, WellFoundedInduction, TLAPS

(* The accumulator after all parts, before Finish.                         *)
Accumulated(parts) == FoldLeft(ProcessPart, NewAccumulator, parts)

(* The equation of the fold's recursive function, over the sets in S.      *)
Step(f, parts, s) ==
  IF s = {} THEN NewAccumulator ELSE ProcessPart(f[s \ {Max(s)}], parts[Max(s)])

Solves(f, parts, S) == f = [s \in S |-> Step(f, parts, s)]

(* The library's fold is the value at all positions of such a function.    *)
LEMMA FoldIsChosen ==
  ASSUME NEW parts
  PROVE  Accumulated(parts)
           = (CHOOSE f : Solves(f, parts, SUBSET DOMAIN parts))[DOMAIN parts]
BY DEF Accumulated, FoldLeft, MapThenFoldSet, Solves, Step

(* Every set of numbers has a least element.                               *)
LEMMA LeastElement ==
  ASSUME NEW T, T \subseteq Nat, T # {}
  PROVE  \E m \in T : \A n \in T : m <= n
<1>1. PICK m \in T : \A n \in T : <<n, m>> \notin OpToRel(<, Nat)
  BY WFMin, NatLessThanWellFounded
<1>2. \A n \in T : ~ (n < m)
  BY <1>1 DEF OpToRel
<1> QED BY <1>2

(* Max is one, and it is in the set.                                       *)
LEMMA MaxOfPositions ==
  ASSUME NEW n \in Nat, NEW s, s \subseteq 1..n, s # {}
  PROVE  Max(s) \in s /\ \A x \in s : x <= Max(s)
<1> DEFINE Above == {k \in Nat : \A x \in s : x <= k}
<1>1. n \in Above
  OBVIOUS
<1>2. PICK m \in Above : \A k \in Above : m <= k
  <2> HIDE DEF Above
  <2>1. Above \subseteq Nat
    BY DEF Above
  <2> QED BY <2>1, <1>1, LeastElement
<1>3. m \in s
  <2> SUFFICES ASSUME m \notin s PROVE FALSE
    OBVIOUS
  <2>1. PICK x \in s : TRUE
    OBVIOUS
  <2>2. m \in Nat /\ \A y \in s : y \in 1..n /\ y <= m /\ y # m
    BY <1>2
  <2>3. m - 1 \in Nat /\ ~ (m <= m - 1) /\ \A y \in s : y <= m - 1
    BY <2>1, <2>2
  <2> QED BY <2>3, <1>2
<1>4. \E x \in s : \A y \in s : x >= y
  BY <1>2, <1>3
<1> QED BY <1>4 DEF Max

(* A function that solves the equation exists, for any number of parts.    *)
LEMMA FoldExists ==
  ASSUME NEW parts, NEW n \in Nat
  PROVE  \E f : Solves(f, parts, SUBSET (1..n))
<1> DEFINE Without == {k \in Nat : ~ \E f : Solves(f, parts, SUBSET (1..k))}
<1> SUFFICES ASSUME n \in Without PROVE FALSE
  OBVIOUS
<1>1. PICK m \in Without : \A k \in Without : m <= k
  <2> HIDE DEF Without
  <2>1. Without \subseteq Nat
    BY DEF Without
  <2> QED BY <2>1, LeastElement
<1>2. CASE m = 0
  <2> DEFINE f == [s \in SUBSET (1..0) |-> NewAccumulator]
  <2>1. Solves(f, parts, SUBSET (1..0))
    BY DEF Solves, Step
  <2> QED BY <2>1, <1>2
<1>3. CASE m # 0
  <2>1. m - 1 \in Nat /\ ~ (m <= m - 1)
    <3>1. m \in Nat
      OBVIOUS
    <3> QED BY <3>1, <1>3
  <2>2. PICK g : Solves(g, parts, SUBSET (1..(m - 1)))
    <3>1. m - 1 \notin Without
      <4> HIDE DEF Without
      <4> QED BY <1>1, <2>1
    <3> QED BY <2>1, <3>1
  <2> DEFINE f == [s \in SUBSET (1..m) |-> Step(g, parts, s)]
  <2>3. ASSUME NEW s \in SUBSET (1..m) PROVE Step(g, parts, s) = Step(f, parts, s)
    <3>1. CASE s = {}
      BY <3>1 DEF Step
    <3>2. CASE s # {}
      <4> DEFINE t == s \ {Max(s)}
      <4>1. Max(s) \in s /\ \A x \in s : x <= Max(s)
        BY <3>2, MaxOfPositions
      <4>2. t \in SUBSET (1..(m - 1)) /\ t \in SUBSET (1..m)
        <5>1. m \in Nat
          OBVIOUS
        <5>2. \A x \in t : x \in 1..m /\ x # Max(s) /\ x <= Max(s) /\ Max(s) \in 1..m
          BY <4>1
        <5>3. \A x \in t : x \in 1..(m - 1)
          BY <5>1, <5>2
        <5> QED BY <5>3
      <4> HIDE DEF t
      <4>3. g[t] = Step(g, parts, t)
        BY <2>2, <4>2 DEF Solves
      <4>4. f[t] = g[t]
        BY <4>2, <4>3
      <4> HIDE DEF f
      <4> QED BY <3>2, <4>4 DEF Step, t
    <3> QED BY <3>1, <3>2
  <2>4. Solves(f, parts, SUBSET (1..m))
    <3>1. [s \in SUBSET (1..m) |-> Step(g, parts, s)] = [s \in SUBSET (1..m) |-> Step(f, parts, s)]
      <4> HIDE DEF f
      <4> QED BY <2>3
    <3> QED BY <3>1 DEF Solves
  <2> QED BY <2>4, <1>1
<1> QED BY <1>2, <1>3

(* So Accumulated does what the equation says.                             *)
LEMMA AccumulatedSolves ==
  ASSUME NEW S, NEW parts \in Seq(S)
  PROVE  \E f : /\ Solves(f, parts, SUBSET (1..Len(parts)))
                /\ Accumulated(parts) = f[1..Len(parts)]
<1>1. DOMAIN parts = 1..Len(parts) /\ Len(parts) \in Nat
  OBVIOUS
<1>2. \E f : Solves(f, parts, SUBSET (1..Len(parts)))
  BY <1>1, FoldExists
<1> QED BY <1>1, <1>2, FoldIsChosen

(* Nothing accumulated yet.                                                *)
LEMMA AccumulatedNone == Accumulated(<<>>) = NewAccumulator
<1>1. <<>> \in Seq({}) /\ Len(<<>>) = 0
  OBVIOUS
<1>2. PICK f : /\ Solves(f, <<>>, SUBSET (1..0))
               /\ Accumulated(<<>>) = f[1..0]
  BY <1>1, AccumulatedSolves
<1>3. 1..0 = {} /\ 1..0 \in SUBSET (1..0)
  OBVIOUS
<1> QED BY <1>2, <1>3 DEF Solves, Step

(* One part more is one more step of the accumulator.                      *)
LEMMA AccumulatedAppend ==
  ASSUME NEW S, NEW parts \in Seq(S), NEW part \in S
  PROVE  Accumulated(Append(parts, part)) = ProcessPart(Accumulated(parts), part)
<1> DEFINE size == Len(parts)
           more == Append(parts, part)
<1>1. /\ more \in Seq(S) /\ Len(more) = size + 1 /\ size \in Nat /\ size + 1 \in Nat
      /\ more[size + 1] = part /\ \A i \in 1..size : parts[i] = more[i]
  OBVIOUS
<1> HIDE DEF more, size
<1>2. PICK f : Solves(f, parts, SUBSET (1..size)) /\ Accumulated(parts) = f[1..size]
  BY AccumulatedSolves DEF size
<1>3. PICK g : Solves(g, more, SUBSET (1..(size + 1))) /\ Accumulated(more) = g[1..(size + 1)]
  BY <1>1, AccumulatedSolves
<1>4. f[1..size] = g[1..size]
  <2> DEFINE Differ == {m \in Nat : m <= size /\ \E s \in SUBSET (1..m) : f[s] # g[s]}
  <2> SUFFICES ASSUME size \in Differ PROVE FALSE
    BY <1>1
  <2>1. PICK m \in Differ : \A j \in Differ : m <= j
    <3> HIDE DEF Differ
    <3>1. Differ \subseteq Nat
      BY DEF Differ
    <3> QED BY <3>1, LeastElement
  <2>2. PICK s \in SUBSET (1..m) : f[s] # g[s]
    BY <2>1
  <2>3. m \in Nat /\ m <= size
    BY <2>1
  <2>4. s \in SUBSET (1..size) /\ s \in SUBSET (1..(size + 1))
    BY <1>1, <2>3
  <2>5. f[s] = Step(f, parts, s) /\ g[s] = Step(g, more, s)
    BY <1>2, <1>3, <2>4 DEF Solves
  <2>6. s # {}
    BY <2>2, <2>5 DEF Step
  <2>7. Max(s) \in s /\ \A x \in s : x <= Max(s)
    BY <2>3, <2>6, MaxOfPositions
  <2> DEFINE t == s \ {Max(s)}
  <2>8. t \in SUBSET (1..(m - 1)) /\ m - 1 \in Nat /\ m - 1 \notin Differ
    <3>1. \A x \in t : x \in 1..m /\ x # Max(s) /\ x <= Max(s) /\ Max(s) \in 1..m
      BY <2>7
    <3>2. m # 0
      <4>1. PICK x \in s : x \in 1..m
        BY <2>6
      <4> QED BY <2>3, <4>1
    <3>3. m - 1 \in Nat /\ ~ (m <= m - 1)
      BY <2>3, <3>2
    <3>4. \A x \in t : x \in 1..(m - 1)
      BY <2>3, <3>1
    <3>5. m - 1 \notin Differ
      <4> HIDE DEF Differ
      <4> QED BY <2>1, <3>3
    <3> QED BY <3>3, <3>4, <3>5
  <2> HIDE DEF t
  <2>9. f[t] = g[t]
    BY <1>1, <2>3, <2>8
  <2>10. parts[Max(s)] = more[Max(s)]
    BY <1>1, <2>4, <2>7
  <2> QED BY <2>2, <2>5, <2>6, <2>9, <2>10 DEF Step, t
<1>5. Max(1..(size + 1)) = size + 1 /\ (1..(size + 1)) \ {size + 1} = 1..size /\ 1..(size + 1) # {}
  <2>1. Max(1..(size + 1)) \in 1..(size + 1) /\ \A x \in 1..(size + 1) : x <= Max(1..(size + 1))
    <3>1. 1..(size + 1) # {} /\ 1..(size + 1) \subseteq 1..(size + 1)
      BY <1>1
    <3> QED BY <1>1, <3>1, MaxOfPositions
  <2> QED BY <1>1, <2>1
<1>6. g[1..(size + 1)] = Step(g, more, 1..(size + 1))
  BY <1>3 DEF Solves
<1>7. g[1..(size + 1)] = ProcessPart(g[1..size], part)
  BY <1>1, <1>5, <1>6 DEF Step
<1> QED BY <1>2, <1>3, <1>4, <1>7 DEF more
-----------------------------------------------------------------------------
(* The library flattens a sequence of sequences with a recursive function  *)
(* over its positions; the same argument applies.                          *)
Flattens(f, s) == f = [i \in 1..Len(s) |-> IF i = 1 THEN s[i] ELSE f[i - 1] \o s[i]]

LEMMA FlattenIsChosen ==
  ASSUME NEW s, Len(s) # 0
  PROVE  FlattenSeq(s) = (CHOOSE f : Flattens(f, s))[Len(s)]
BY DEF FlattenSeq, Flattens

LEMMA FlattenExists ==
  ASSUME NEW S, NEW s \in Seq(S)
  PROVE  \E f : Flattens(f, s)
<1> DEFINE T == {n \in Nat : \E r \in Seq(S) : Len(r) = n /\ ~ \E f : Flattens(f, r)}
<1>1. T = {}
  <2> SUFFICES ASSUME T # {} PROVE FALSE
    OBVIOUS
  <2>1. PICK m \in T : \A n \in T : m <= n
    BY LeastElement
  <2>2. PICK r \in Seq(S) : Len(r) = m /\ ~ \E f : Flattens(f, r)
    BY <2>1
  <2>3. m \in Nat /\ m # 0
    <3>1. CASE m = 0
      <4>1. Flattens([i \in 1..0 |-> r[i]], r)
        BY <2>2, <3>1 DEF Flattens
      <4> QED BY <2>2, <4>1
    <3> QED BY <2>1, <3>1
  <2> DEFINE q == [i \in 1..(m - 1) |-> r[i]]
  <2>4. q \in Seq(S) /\ Len(q) = m - 1 /\ m - 1 \in Nat /\ \A i \in 1..(m - 1) : q[i] = r[i]
    BY <2>2, <2>3
  <2>5. m - 1 \notin T
    <3>1. ~ (m <= m - 1)
      BY <2>3
    <3> QED BY <2>1, <3>1
  <2>6. PICK g : Flattens(g, q)
    <3> HIDE DEF q
    <3> QED BY <2>4, <2>5
  <2> DEFINE f == [i \in 1..m |-> IF i = m THEN (IF m = 1 THEN r[m] ELSE g[m - 1] \o r[m]) ELSE g[i]]
  <2>7. \A i \in 1..(m - 1) : g[i] = IF i = 1 THEN r[i] ELSE g[i - 1] \o r[i]
    <3>1. g = [i \in 1..(m - 1) |-> IF i = 1 THEN q[i] ELSE g[i - 1] \o q[i]]
      BY <2>4, <2>6 DEF Flattens
    <3> HIDE DEF q
    <3>2. \A i \in 1..(m - 1) : g[i] = IF i = 1 THEN q[i] ELSE g[i - 1] \o q[i]
      BY <3>1
    <3> QED BY <2>4, <3>2
  <2>8. \A i \in 1..m : f[i] = IF i = 1 THEN r[i] ELSE f[i - 1] \o r[i]
    <3> TAKE i \in 1..m
    <3>1. CASE i = m /\ m # 1
      <4>1. i - 1 \in 1..m /\ i - 1 # m /\ f[i - 1] = g[m - 1]
        BY <2>3, <3>1
      <4> QED BY <3>1, <4>1
    <3>2. CASE i = m /\ m = 1
      BY <3>2
    <3>3. CASE i # m
      <4>1. i \in 1..(m - 1) /\ f[i] = g[i]
        BY <2>3, <3>3
      <4>2. i # 1 => i - 1 \in 1..m /\ i - 1 # m /\ f[i - 1] = g[i - 1]
        BY <2>3, <4>1
      <4> HIDE DEF f
      <4> QED BY <2>7, <4>1, <4>2
    <3> QED BY <3>1, <3>2, <3>3
  <2>9. f = [i \in 1..m |-> f[i]]
    OBVIOUS
  <2> HIDE DEF f
  <2>10. Flattens(f, r)
    BY <2>2, <2>8, <2>9 DEF Flattens
  <2> QED BY <2>2, <2>10
<1> QED BY <1>1

(* What is flattened of a sequence does not depend on what comes after it. *)
LEMMA FlattensAlike ==
  ASSUME NEW S, NEW s \in Seq(S), NEW x \in S, NEW f, NEW g, Flattens(f, s), Flattens(g, Append(s, x))
  PROVE  \A i \in 1..Len(s) : f[i] = g[i]
<1>1. PICK n \in Nat : n = Len(s)
  OBVIOUS
<1>2. \A i \in 1..n : f[i] = IF i = 1 THEN s[i] ELSE f[i - 1] \o s[i]
  BY <1>1 DEF Flattens
<1>3. \A i \in 1..n : g[i] = IF i = 1 THEN s[i] ELSE g[i - 1] \o s[i]
  <2> DEFINE r == Append(s, x)
  <2>1. Len(r) = n + 1 /\ \A i \in 1..n : r[i] = s[i]
    BY <1>1
  <2>2. Flattens(g, r)
    OBVIOUS
  <2> HIDE DEF r
  <2>3. \A i \in 1..(n + 1) : g[i] = IF i = 1 THEN r[i] ELSE g[i - 1] \o r[i]
    BY <2>1, <2>2 DEF Flattens
  <2>4. \A i \in 1..n : i \in 1..(n + 1)
    OBVIOUS
  <2> QED BY <2>1, <2>3, <2>4
<1> DEFINE T == {i \in 1..n : f[i] # g[i]}
<1>4. T = {}
  <2> SUFFICES ASSUME T # {} PROVE FALSE
    OBVIOUS
  <2>1. PICK m \in T : \A i \in T : m <= i
    <3>1. T \subseteq Nat
      OBVIOUS
    <3> HIDE DEF T
    <3> QED BY <3>1, LeastElement
  <2>2. m \in 1..n /\ f[m] # g[m]
    OBVIOUS
  <2>3. m # 1
    BY <1>2, <1>3, <2>2
  <2>4. m - 1 \in 1..n /\ ~ (m <= m - 1)
    BY <2>2, <2>3
  <2>5. f[m - 1] = g[m - 1]
    BY <2>1, <2>4
  <2> QED BY <1>2, <1>3, <2>2, <2>3, <2>5
<1> QED BY <1>1, <1>4

(* One sequence more.                                                      *)
LEMMA FlattenAppend ==
  ASSUME NEW S, NEW s \in Seq(Seq(S)), NEW x \in Seq(S)
  PROVE  FlattenSeq(Append(s, x)) = FlattenSeq(s) \o x
<1> DEFINE r == Append(s, x)
           g == CHOOSE h : Flattens(h, r)
           f == CHOOSE h : Flattens(h, s)
<1>1. PICK n \in Nat : n = Len(s)
  OBVIOUS
<1>2. r \in Seq(Seq(S)) /\ Len(r) = n + 1 /\ r[n + 1] = x
  BY <1>1
<1>3. Flattens(g, r) /\ Flattens(f, s)
  BY <1>2, FlattenExists
<1>4. FlattenSeq(r) = g[n + 1]
  <2>1. Len(r) # 0
    BY <1>2
  <2> QED BY <1>2, <2>1, FlattenIsChosen
<1>5. g[n + 1] = IF n + 1 = 1 THEN r[n + 1] ELSE g[n] \o r[n + 1]
  <2> HIDE DEF g, r
  <2>1. n + 1 \in 1..(n + 1) /\ (n + 1) - 1 = n
    OBVIOUS
  <2>2. g = [i \in 1..(n + 1) |-> IF i = 1 THEN r[i] ELSE g[i - 1] \o r[i]]
    BY <1>2, <1>3 DEF Flattens
  <2> QED BY <2>1, <2>2
<1>6. CASE n = 0
  <2>1. Len(s) = 0 /\ s = <<>>
    <3>1. Len(s) = 0
      BY <1>1, <1>6
    <3> QED BY <3>1, EmptySeq
  <2>2. FlattenSeq(s) = s
    BY <2>1, Zenon DEF FlattenSeq
  <2> HIDE DEF f, g, r
  <2>3. FlattenSeq(r) = x
    BY <1>2, <1>4, <1>5, <1>6
  <2>4. <<>> \o x = x
    OBVIOUS
  <2> QED BY <2>1, <2>2, <2>3, <2>4 DEF r
<1>7. CASE n # 0
  <2>1. FlattenSeq(s) = f[n]
    BY <1>1, <1>7, FlattenIsChosen
  <2>2. f[n] = g[n]
    <3>1. n \in 1..Len(s)
      BY <1>1, <1>7
    <3>2. \A i \in 1..Len(s) : f[i] = g[i]
      <4> HIDE DEF f, g
      <4> QED BY <1>3, FlattensAlike DEF r
    <3> QED BY <3>1, <3>2
  <2> HIDE DEF f, g, r
  <2>3. FlattenSeq(r) = FlattenSeq(s) \o x
    BY <1>2, <1>4, <1>5, <1>7, <2>1, <2>2
  <2> QED BY <2>3 DEF r
<1> QED BY <1>6, <1>7

(* Nothing to flatten.                                                     *)
LEMMA FlattenNone == FlattenSeq(<<>>) = <<>>
<1>1. Len(<<>>) = 0
  OBVIOUS
<1> QED BY <1>1, Zenon DEF FlattenSeq

(* What is flattened comes from the sequences.                             *)
LEMMA FlattenElements ==
  ASSUME NEW S, NEW s \in Seq(Seq(S))
  PROVE  FlattenSeq(s) \in Seq(S)
<1>1. PICK n \in Nat : n = Len(s)
  OBVIOUS
<1>2. CASE n = 0
  <2>1. s = <<>>
    <3>1. Len(s) = 0
      BY <1>1, <1>2
    <3> QED BY <3>1, EmptySeq
  <2>2. <<>> \in Seq(S)
    OBVIOUS
  <2> QED BY <2>1, <2>2, FlattenNone
<1>3. CASE n # 0
  <2> DEFINE f == CHOOSE h : Flattens(h, s)
  <2>1. Flattens(f, s)
    BY FlattenExists
  <2>2. FlattenSeq(s) = f[n]
    BY <1>1, <1>3, FlattenIsChosen
  <2> HIDE DEF f
  <2>3. \A i \in 1..n : f[i] = IF i = 1 THEN s[i] ELSE f[i - 1] \o s[i]
    BY <1>1, <2>1 DEF Flattens
  <2>4. \A i \in 1..n : s[i] \in Seq(S)
    BY <1>1
  <2> DEFINE T == {i \in 1..n : f[i] \notin Seq(S)}
  <2>5. T = {}
    <3> SUFFICES ASSUME T # {} PROVE FALSE
      OBVIOUS
    <3>1. PICK m \in T : \A i \in T : m <= i
      <4>1. T \subseteq Nat
        OBVIOUS
      <4> HIDE DEF T
      <4> QED BY <4>1, LeastElement
    <3>2. m \in 1..n /\ f[m] \notin Seq(S)
      OBVIOUS
    <3>3. m # 1
      BY <2>3, <2>4, <3>2
    <3>4. m - 1 \in 1..n /\ ~ (m <= m - 1)
      BY <3>2, <3>3
    <3>5. f[m - 1] \in Seq(S)
      BY <3>1, <3>4
    <3>6. f[m] = f[m - 1] \o s[m] /\ s[m] \in Seq(S)
      BY <2>3, <2>4, <3>2, <3>3
    <3> QED BY <3>2, <3>5, <3>6, ConcatProperties
  <2>6. n \in 1..n
    BY <1>3
  <2> QED BY <2>2, <2>5, <2>6
<1> QED BY <1>2, <1>3

(* What is selected of a sequence is in the set.                           *)
LEMMA SelectedElements ==
  ASSUME NEW T, NEW s \in Seq(T), NEW S
  PROVE  Selected(s, S) \in Seq(S)
<1> DEFINE r == [i \in DOMAIN s |-> IF s[i] \in S THEN <<s[i]>> ELSE <<>>]
<1>1. DOMAIN s = 1..Len(s) /\ Len(s) \in Nat
  OBVIOUS
<1>2. \A x \in S : <<x>> \in Seq(S)
  OBVIOUS
<1>3. <<>> \in Seq(S)
  OBVIOUS
<1>4. \A i \in 1..Len(s) : r[i] \in Seq(S)
  BY <1>1, <1>2, <1>3
<1>5. r = [i \in 1..Len(s) |-> r[i]]
  BY <1>1
<1> HIDE DEF r
<1>6. r \in Seq(Seq(S))
  <2>1. [i \in 1..Len(s) |-> r[i]] \in Seq(Seq(S))
    BY <1>1, <1>4, IsASeq
  <2> QED BY <1>5, <2>1
<1> QED BY <1>6, FlattenElements DEF Selected, r

-----------------------------------------------------------------------------
(* What an accumulator holds, whatever parts it took.                      *)

TurnItems ==
  {Reasoning} \cup {Message(n) : n \in Nat}
    \cup {CallItem(n, id) : n \in Nat, id \in UpstreamIds \cup {NoId}}

RecordPart ==
  [kind : {"text", "call"}, item : TurnItems, id : UpstreamIds \cup {NoId},
   body : Seq(Nat), sig : Sigs \cup {NoSig}]

AnyPart ==
  [kind : {"thought", "call", "text"}, id : UpstreamIds \cup {NoId},
   body : Seq(Nat), sig : Sigs \cup {NoSig}]

(* The fields, of their types.                                             *)
Recording(a) ==
  /\ DOMAIN a = DOMAIN NewAccumulator
  /\ a.parts \in Seq(RecordPart) /\ a.order \in Seq(TurnItems) /\ a.calls \in Seq(TurnItems)
  /\ a.thought \in Seq(Nat) /\ a.text \in Seq(Nat) /\ a.textSig \in Sigs \cup {NoSig}
  /\ a.text = <<>> => a.textSig = NoSig
  /\ a.textCount \in Nat

(* An order lists the items, each once and in their sequence, and nothing  *)
(* else but the reasoning item.                                            *)
Lists(order, items) ==
  /\ \A x \in DOMAIN items : items[x] # Reasoning /\ \E i \in DOMAIN order : order[i] = items[x]
  /\ \A x, y \in DOMAIN items : items[x] = items[y] => x = y
  /\ \A i \in DOMAIN order : order[i] = Reasoning \/ \E x \in DOMAIN items : order[i] = items[x]
  /\ \A i, j \in DOMAIN order : order[i] = order[j] => i = j
  /\ \A i, j \in DOMAIN order : \A x, y \in DOMAIN items :
       order[i] = items[x] /\ order[j] = items[y] /\ i < j => x < y

ItemsOf(parts) == [x \in DOMAIN parts |-> parts[x].item]

(* Calls are named after their place and the upstream's id, texts are      *)
(* counted, and the bridge knows the call of every id.                     *)
Named(t) ==
  /\ \A x \in DOMAIN t.parts :
       IF t.parts[x].kind = "call" THEN t.parts[x].item = CallItem(x - 1, t.parts[x].id)
       ELSE \E k \in 0..(t.textCount - 1) : t.parts[x].item = Message(k)
  /\ \A i \in DOMAIN t.calls :
       \E x \in DOMAIN t.parts : t.parts[x].kind = "call" /\ t.parts[x].item = t.calls[i]
  /\ \A x \in DOMAIN t.parts : t.parts[x].kind = "call" => Contains(t.calls, t.parts[x].item)
  /\ \A id \in DOMAIN t.bridge :
       \E x \in DOMAIN t.parts : t.parts[x].kind = "call" /\ t.parts[x].id = id /\ t.parts[x].item = t.bridge[id]
  /\ \A x \in DOMAIN t.parts : t.parts[x].kind = "call" /\ t.parts[x].id # NoId =>
       t.parts[x].id \in DOMAIN t.bridge /\ t.bridge[t.parts[x].id] = t.parts[x].item

(* The first call of the turn leads its calls.                             *)
FirstCallLeads(t) ==
  \A x \in DOMAIN t.parts : t.parts[x].kind = "call" =>
    \E y \in DOMAIN t.parts : y <= x /\ t.parts[y].item = Head(t.calls)

Ordered(t) ==
  /\ Named(t)
  /\ Lists(t.order, ItemsOf(t.parts))
  /\ FirstCallLeads(t)
  /\ t.thought # <<>> => Contains(t.order, Reasoning)
  /\ t.hasThought <=> Contains(t.order, Reasoning)

-----------------------------------------------------------------------------
(* What it says of the parts s it took, when they are numbered.            *)
Numbered(s) == \A k \in DOMAIN s : s[k].body \in {<<>>, <<k>>}

TextPieces(s) == {k \in DOMAIN s : s[k].kind = "text" /\ s[k].body # <<>>}

LoneSigs(s) == {k \in DOMAIN s : s[k].kind = "text" /\ s[k].body = <<>> /\ s[k].sig # NoSig}

(* The signatures for a text of these pieces.                              *)
Signing(s, body) ==
  {k \in TextPieces(s) : k \in ToSet(body) /\ s[k].sig # NoSig}
    \cup {k \in LoneSigs(s) : \E m \in ToSet(body) : m < k /\ \A j \in TextPieces(s) : j < k => j <= m}

Latest(S, k) == k \in S /\ \A j \in S : j <= k

SignedLast(s, S, sig) == (S = {} => sig = NoSig) /\ \A k \in S : Latest(S, k) => sig = s[k].sig

Rising(body) == \A i, j \in DOMAIN body : i < j => body[i] < body[j]

TextsRight(parts, s) ==
  /\ \A x \in DOMAIN parts : parts[x].kind = "text" =>
       /\ parts[x].body # <<>> /\ Rising(parts[x].body) /\ ToSet(parts[x].body) \subseteq TextPieces(s)
       /\ SignedLast(s, Signing(s, parts[x].body), parts[x].sig)
  /\ \A k \in TextPieces(s) : \E x \in DOMAIN parts : parts[x].kind = "text" /\ k \in ToSet(parts[x].body)
  /\ \A x, y \in DOMAIN parts : parts[x].kind = "text" /\ parts[y].kind = "text" /\ x < y =>
       \A k \in ToSet(parts[x].body), l \in ToSet(parts[y].body) : k < l

CallsFor(s, id) == {k \in DOMAIN s : s[k].kind = "call" /\ s[k].id = id}

SentLast(s, S, body) == (S = {} => body = <<>>) /\ \A k \in S : Latest(S, k) => body = <<k>>

CallsRight(t, s) ==
  /\ \A x \in DOMAIN t.parts : t.parts[x].kind = "call" /\ t.parts[x].id # NoId =>
       LET sent == CallsFor(s, t.parts[x].id)
       IN /\ SignedLast(s, {k \in sent : s[k].sig # NoSig}, t.parts[x].sig)
          /\ SentLast(s, {k \in sent : s[k].body # <<>>}, t.parts[x].body)
  /\ \A k \in DOMAIN s : s[k].kind = "call" /\ s[k].id # NoId => s[k].id \in DOMAIN t.bridge

ThoughtsRight(thought, s) ==
  /\ Rising(thought)
  /\ ToSet(thought) = {k \in DOMAIN s : s[k].kind = "thought" /\ s[k].body # <<>>}

Right(t, s) == TextsRight(t.parts, s) /\ CallsRight(t, s) /\ ThoughtsRight(t.thought, s)

-----------------------------------------------------------------------------
(* What a part does to the record, the text under way counted as committed:*)
(* f before, g after.                                                      *)
Unthought(f, g) == g.thought = f.thought /\ g.hasThought = f.hasThought

ThoughtTaken(f, g, part) ==
  /\ g.parts = f.parts /\ g.order = Recorded(f.order, Reasoning)
  /\ g.calls = f.calls /\ g.bridge = f.bridge /\ g.textCount = f.textCount
  /\ g.thought = f.thought \o part.body /\ g.hasThought = TRUE

CallAdded(f, g, part) ==
  LET item == CallItem(Len(f.parts), part.id)
  IN /\ part.id \notin DOMAIN f.bridge
     /\ g.parts = Append(f.parts, TurnPart("call", item, part.id, part.body, part.sig))
     /\ g.order = Recorded(f.order, item) /\ g.calls = Append(f.calls, item)
     /\ g.bridge = Bound(f.bridge, part, item) /\ g.textCount = f.textCount
     /\ Unthought(f, g)

CallUpdated(f, g, part) ==
  LET item == f.bridge[part.id]
  IN /\ part.id \in DOMAIN f.bridge
     /\ g.parts = [i \in DOMAIN f.parts |->
                     IF f.parts[i].item = item THEN Updated(f.parts[i], part) ELSE f.parts[i]]
     /\ g.order = Recorded(f.order, item) /\ g.calls = f.calls
     /\ g.bridge = f.bridge /\ g.textCount = f.textCount
     /\ Unthought(f, g)

Unnamed(f, g) ==
  g.calls = f.calls /\ g.bridge = f.bridge /\ Unthought(f, g)

SignatureTaken(f, g, part) ==
  /\ g.parts = [i \in DOMAIN f.parts |->
                  IF i \in SignatureTarget(f.parts) THEN [f.parts[i] EXCEPT !.sig = part.sig] ELSE f.parts[i]]
  /\ g.order = f.order /\ g.textCount = f.textCount /\ Unnamed(f, g)

TextExtended(f, g, part) ==
  LET n == Len(f.parts)
  IN /\ n > 0 /\ f.parts[n].kind = "text" /\ f.parts[n].sig = part.sig
     /\ g.parts = [i \in DOMAIN f.parts |->
                     IF i = n THEN [f.parts[i] EXCEPT !.body = @ \o part.body] ELSE f.parts[i]]
     /\ g.order = Recorded(f.order, f.parts[n].item) /\ g.textCount = f.textCount /\ Unnamed(f, g)

TextAdded(f, g, part) ==
  LET item == Message(f.textCount)
  IN /\ g.parts = Append(f.parts, TurnPart("text", item, NoId, part.body, part.sig))
     /\ g.order = Recorded(f.order, item) /\ g.textCount = f.textCount + 1 /\ Unnamed(f, g)

(* The fields of the accumulator.                                          *)
LEMMA RecordFields ==
  DOMAIN NewAccumulator = {"parts", "order", "thought", "hasThought", "text", "textSig",
                           "textCount", "calls", "bridge", "toolSigs", "textSigs"}
BY DEF NewAccumulator

(* A text or nothing is under way.                                         *)
LEMMA FlushView ==
  ASSUME NEW a, Recording(a)
  PROVE  LET f == FlushPendingText(a)
         IN /\ Recording(f) /\ f.text = <<>>
            /\ f.order = a.order /\ f.calls = a.calls /\ f.bridge = a.bridge
            /\ Unthought(a, f)
            /\ a.text = <<>> => f = a
            /\ a.text # <<>> =>
                 /\ f.parts = Append(a.parts, TurnPart("text", Message(a.textCount), NoId, a.text, a.textSig))
                 /\ f.textCount = a.textCount + 1
<1>1. CASE a.text = <<>>
  BY <1>1 DEF FlushPendingText, HasPendingText, Recording, Unthought
<1>2. CASE a.text # <<>>
  <2> DEFINE item == CurrentTextID(a)
             made == TurnPart("text", item, NoId, a.text, a.textSig)
             f == [a EXCEPT !.parts = Append(@, made),
                            !.textSigs = Noted(@, item, a.textSig),
                            !.text = <<>>, !.textSig = NoSig, !.textCount = @ + 1]
  <2>1. FlushPendingText(a) = f
    BY <1>2 DEF FlushPendingText, HasPendingText
  <2>2. made = TurnPart("text", Message(a.textCount), NoId, a.text, a.textSig)
    BY DEF CurrentTextID
  <2>3. made \in RecordPart
    BY <2>2 DEF Recording, TurnPart, RecordPart, TurnItems
  <2> HIDE DEF made, item
  <2>4. /\ DOMAIN f = DOMAIN a
        /\ f.parts = Append(a.parts, made) /\ f.textCount = a.textCount + 1 /\ f.order = a.order /\ f.calls = a.calls
        /\ f.bridge = a.bridge /\ f.thought = a.thought /\ f.hasThought = a.hasThought
        /\ f.text = <<>> /\ f.textSig = NoSig
    BY RecordFields DEF Recording
  <2> HIDE DEF f
  <2>5. f.parts \in Seq(RecordPart)
    BY <2>3, <2>4 DEF Recording
  <2>6. Recording(f)
    BY <2>4, <2>5 DEF Recording
  <2> QED BY <1>2, <2>1, <2>2, <2>4, <2>6 DEF Unthought
<1> QED BY <1>1, <1>2

(* Entry by entry.                                                         *)
LEMMA MappedSeq ==
  ASSUME NEW S, NEW parts \in Seq(S), NEW h, h = [i \in DOMAIN parts |-> h[i]],
         \A i \in DOMAIN parts : h[i] \in S
  PROVE  h \in Seq(S) /\ Len(h) = Len(parts) /\ DOMAIN h = DOMAIN parts
<1>1. PICK n \in Nat : n = Len(parts)
  OBVIOUS
<1>2. DOMAIN parts = 1..n
  BY <1>1
<1>3. h = [i \in 1..n |-> h[i]] /\ \A i \in 1..n : h[i] \in S
  BY <1>2
<1>4. [i \in 1..n |-> h[i]] \in Seq(S)
  BY <1>3, IsASeq
<1>5. h \in Seq(S) /\ DOMAIN h = 1..n
  BY <1>3, <1>4
<1> QED BY <1>1, <1>2, <1>5

(* A record part that is updated, signed or extended: what changes, and    *)
(* what stays.                                                             *)
LEMMA PartChanges ==
  ASSUME NEW p \in RecordPart, NEW part \in AnyPart
  PROVE  /\ Updated(p, part) \in RecordPart /\ Updated(p, part).item = p.item
         /\ Updated(p, part).kind = p.kind /\ Updated(p, part).id = p.id
         /\ Updated(p, part).body = IF part.body = <<>> THEN p.body ELSE part.body
         /\ Updated(p, part).sig = IF part.sig = NoSig THEN p.sig ELSE part.sig
         /\ LET q == [p EXCEPT !.sig = part.sig]
            IN /\ q \in RecordPart /\ q.item = p.item /\ q.kind = p.kind /\ q.id = p.id /\ q.body = p.body
               /\ q.sig = part.sig
         /\ LET q == [p EXCEPT !.body = p.body \o part.body]
            IN /\ q \in RecordPart /\ q.item = p.item /\ q.kind = p.kind /\ q.id = p.id /\ q.sig = p.sig
               /\ q.body = p.body \o part.body
<1>1. /\ p.body \in Seq(Nat) /\ part.body \in Seq(Nat) /\ part.sig \in Sigs \cup {NoSig}
      /\ p = [kind |-> p.kind, item |-> p.item, id |-> p.id, body |-> p.body, sig |-> p.sig]
      /\ p.kind \in {"text", "call"} /\ p.item \in TurnItems /\ p.id \in UpstreamIds \cup {NoId}
      /\ p.sig \in Sigs \cup {NoSig}
  BY DEF RecordPart, AnyPart
<1>2. p.body \o part.body \in Seq(Nat)
  BY <1>1
<1> DEFINE all == p.body \o part.body
           q == [p EXCEPT !.body = all]
           r == [p EXCEPT !.sig = part.sig]
<1> HIDE DEF all
<1>3. q = [kind |-> p.kind, item |-> p.item, id |-> p.id, body |-> all, sig |-> p.sig]
  BY <1>1
<1>4. r = [kind |-> p.kind, item |-> p.item, id |-> p.id, body |-> p.body, sig |-> part.sig]
  BY <1>1
<1>5. \A x \in RecordPart : LET v == Updated(x, part)
        IN /\ v \in RecordPart /\ v.item = x.item /\ v.kind = x.kind /\ v.id = x.id
           /\ v.body = IF part.body = <<>> THEN x.body ELSE part.body
           /\ v.sig = IF part.sig = NoSig THEN x.sig ELSE part.sig
  BY <1>1 DEF Updated, RecordPart
<1> HIDE DEF q, r
<1>6. q \in RecordPart
  BY <1>1, <1>2, <1>3 DEF RecordPart, all
<1>7. r \in RecordPart
  BY <1>1, <1>4 DEF RecordPart
<1>10. r.item = p.item /\ r.kind = p.kind /\ r.id = p.id /\ r.body = p.body /\ r.sig = part.sig
  BY <1>4
<1>11. q.item = p.item /\ q.kind = p.kind /\ q.id = p.id /\ q.sig = p.sig /\ q.body = all
  BY <1>3
<1> QED BY <1>5, <1>6, <1>7, <1>10, <1>11 DEF q, r, all

(* An order stays one when an item is recorded.                            *)
LEMMA RecordedItem ==
  ASSUME NEW order \in Seq(TurnItems), NEW item \in TurnItems
  PROVE  Recorded(order, item) \in Seq(TurnItems)
BY DEF Recorded

(* A thought.                                                              *)
LEMMA ThoughtIsTaken ==
  ASSUME NEW c, Recording(c), NEW part \in AnyPart, part.kind = "thought"
  PROVE  LET b == ProcessPart(c, part)
         IN Recording(b) /\ ThoughtTaken(FlushPendingText(c), FlushPendingText(b), part)
<1> DEFINE a == FlushPendingText(c)
           b == [a EXCEPT !.hasThought = TRUE, !.order = Recorded(@, Reasoning),
                          !.thought = @ \o part.body]
<1>1. ProcessPart(c, part) = b
  BY DEF ProcessPart, ProcessThought
<1>2. Recording(a) /\ a.text = <<>>
  BY FlushView
<1> HIDE DEF a
<1>3. /\ DOMAIN b = DOMAIN a /\ b.order = Recorded(a.order, Reasoning)
      /\ b.thought = a.thought \o part.body /\ b.hasThought = TRUE
      /\ b.parts = a.parts /\ b.text = a.text /\ b.textCount = a.textCount /\ b.calls = a.calls
      /\ b.bridge = a.bridge /\ b.textSig = a.textSig
  BY <1>2, RecordFields DEF Recording
<1> HIDE DEF b
<1>4. Recording(b)
  <2>0. Reasoning \in TurnItems
    BY DEF TurnItems
  <2>1. b.order \in Seq(TurnItems)
    BY <1>2, <1>3, <2>0, RecordedItem DEF Recording
  <2>2. b.thought \in Seq(Nat)
    BY <1>2, <1>3 DEF Recording, AnyPart
  <2> QED BY <1>2, <1>3, <2>1, <2>2 DEF Recording
<1>5. FlushPendingText(b) = b
  BY <1>2, <1>3, <1>4, FlushView
<1> QED BY <1>1, <1>3, <1>4, <1>5 DEF ThoughtTaken, a

(* A call, new or known by the upstream's id.                              *)
LEMMA CallIsTaken ==
  ASSUME NEW c, Recording(c), Named(FlushPendingText(c)), NEW part \in AnyPart, part.kind = "call"
  PROVE  LET b == ProcessPart(c, part)
             f == FlushPendingText(c)
             g == FlushPendingText(b)
         IN Recording(b) /\ (CallAdded(f, g, part) \/ CallUpdated(f, g, part))
<1> DEFINE a == FlushPendingText(c)
           item == CallOf(a, part)
           known == Contains(a.calls, item)
           made == TurnPart("call", item, part.id, part.body, part.sig)
           bound == Bound(a.bridge, part, item)
           more == IF known
                   THEN [i \in DOMAIN a.parts |->
                           IF a.parts[i].item = item THEN Updated(a.parts[i], part) ELSE a.parts[i]]
                   ELSE Append(a.parts, made)
           calls == IF known THEN a.calls ELSE Append(a.calls, item)
           b == [a EXCEPT !.bridge = bound,
                          !.toolSigs = Noted(@, item, part.sig),
                          !.parts = more,
                          !.order = Recorded(@, item),
                          !.calls = calls]
<1>1. ProcessPart(c, part) = b
  BY DEF ProcessPart, ProcessCall
<1>2. Recording(a) /\ a.text = <<>> /\ Named(a)
  BY FlushView
<1> HIDE DEF a
<1>3. /\ DOMAIN b = DOMAIN a /\ b.parts = more /\ b.order = Recorded(a.order, item) /\ b.calls = calls
      /\ b.bridge = bound /\ b.thought = a.thought /\ b.hasThought = a.hasThought
      /\ b.text = a.text /\ b.textCount = a.textCount /\ b.textSig = a.textSig
  <2> HIDE DEF more, calls, item, bound
  <2> QED BY <1>2, RecordFields DEF Recording
<1> HIDE DEF b
<1>4. \A x \in DOMAIN a.parts : a.parts[x] \in RecordPart /\ x \in 1..Len(a.parts)
  BY <1>2 DEF Recording
<1>5. Len(a.parts) \in Nat
  BY <1>2 DEF Recording
<1>6. part.id \in DOMAIN a.bridge => known /\ item = a.bridge[part.id]
  <2> HAVE part.id \in DOMAIN a.bridge
  <2>1. item = a.bridge[part.id]
    BY DEF CallOf
  <2>2. PICK x \in DOMAIN a.parts : a.parts[x].kind = "call" /\ a.parts[x].item = item
    BY <1>2, <2>1 DEF Named
  <2> QED BY <1>2, <2>1, <2>2 DEF Named
<1>7. part.id \notin DOMAIN a.bridge => ~known /\ item = CallItem(Len(a.parts), part.id)
  <2> HAVE part.id \notin DOMAIN a.bridge
  <2>1. item = CallItem(Len(a.parts), part.id)
    BY DEF CallOf
  <2>2. ASSUME known PROVE FALSE
    <3>1. PICK x \in DOMAIN a.parts : a.parts[x].kind = "call" /\ a.parts[x].item = item
      BY <1>2, <2>2 DEF Named, Contains
    <3>2. CallItem(x - 1, a.parts[x].id) = CallItem(Len(a.parts), part.id)
      BY <1>2, <2>1, <3>1 DEF Named
    <3>3. x - 1 = Len(a.parts)
      BY <3>2 DEF CallItem
    <3> QED BY <1>4, <1>5, <3>3
  <2> QED BY <2>1, <2>2
<1>8. item \in TurnItems
  <2>1. CASE part.id \in DOMAIN a.bridge
    <3>1. PICK x \in DOMAIN a.parts : a.parts[x].item = a.bridge[part.id]
      BY <1>2, <2>1 DEF Named
    <3> HIDE DEF item
    <3> QED BY <1>4, <1>6, <2>1, <3>1 DEF RecordPart
  <2>2. CASE part.id \notin DOMAIN a.bridge
    <3> HIDE DEF item
    <3> QED BY <1>5, <1>7, <2>2 DEF TurnItems, AnyPart
  <2> QED BY <2>1, <2>2
<1>9. more \in Seq(RecordPart)
  <2>1. CASE known
    <3> DEFINE h == [i \in DOMAIN a.parts |->
                       IF a.parts[i].item = item THEN Updated(a.parts[i], part) ELSE a.parts[i]]
    <3>1. \A i \in DOMAIN a.parts : h[i] \in RecordPart
      BY <1>4, PartChanges
    <3>2. h = [i \in DOMAIN a.parts |-> h[i]]
      OBVIOUS
    <3>3. more = h
      BY <2>1
    <3> HIDE DEF h, more
    <3>4. a.parts \in Seq(RecordPart)
      BY <1>2 DEF Recording
    <3> QED BY <3>1, <3>2, <3>3, <3>4, MappedSeq
  <2>2. CASE ~known
    <3>1. made \in RecordPart
      <4> HIDE DEF item
      <4> QED BY <1>8 DEF TurnPart, RecordPart, AnyPart
    <3>2. more = Append(a.parts, made)
      BY <2>2
    <3> HIDE DEF made, more
    <3> QED BY <1>2, <3>1, <3>2 DEF Recording
  <2> QED BY <2>1, <2>2
<1>10. Recording(b)
  <2>1. calls \in Seq(TurnItems) /\ Recorded(a.order, item) \in Seq(TurnItems)
    <3>1. a.order \in Seq(TurnItems) /\ a.calls \in Seq(TurnItems)
      BY <1>2 DEF Recording
    <3> HIDE DEF item, known
    <3> QED BY <1>8, <3>1, RecordedItem
  <2> HIDE DEF more, calls, item
  <2> QED BY <1>2, <1>3, <1>9, <2>1 DEF Recording
<1>11. FlushPendingText(b) = b
  BY <1>2, <1>3, <1>10, FlushView
<1>12. CASE part.id \in DOMAIN a.bridge
  <2>1. bound = a.bridge
    BY <1>12 DEF Bound
  <2>2. CallUpdated(a, b, part)
    BY <1>3, <1>6, <1>12, <2>1 DEF CallUpdated, Unthought
  <2> QED BY <1>1, <1>10, <1>11, <2>2 DEF a
<1>13. CASE part.id \notin DOMAIN a.bridge
  <2>1. CallAdded(a, b, part)
    BY <1>3, <1>7, <1>13 DEF CallAdded, Unthought
  <2> QED BY <1>1, <1>10, <1>11, <2>1 DEF a
<1> QED BY <1>12, <1>13

(* Another last element.                                                   *)
LEMMA LastChanged ==
  ASSUME NEW S, NEW parts \in Seq(S), NEW x \in S, NEW y \in S
  PROVE  LET p == Append(parts, x)
         IN /\ Append(parts, y) = [i \in DOMAIN p |-> IF i = Len(p) THEN y ELSE p[i]]
            /\ Len(p) = Len(parts) + 1 /\ Len(parts) \in Nat /\ p[Len(p)] = x
<1>1. PICK n \in Nat : n = Len(parts)
  OBVIOUS
<1> DEFINE p == Append(parts, x)
           q == Append(parts, y)
           r == [i \in DOMAIN p |-> IF i = Len(p) THEN y ELSE p[i]]
<1>2. /\ p \in Seq(S) /\ Len(p) = n + 1 /\ DOMAIN p = 1..(n + 1) /\ \A i \in 1..n : p[i] = parts[i]
      /\ q \in Seq(S) /\ DOMAIN q = 1..(n + 1) /\ q[n + 1] = y /\ \A i \in 1..n : q[i] = parts[i]
      /\ p[n + 1] = x
  BY <1>1
<1>3. q = [i \in 1..(n + 1) |-> q[i]] /\ r = [i \in 1..(n + 1) |-> r[i]]
  <2>1. r = [i \in 1..(n + 1) |-> r[i]]
    BY <1>2
  <2>2. q = [i \in 1..(n + 1) |-> q[i]]
    <3> HIDE DEF q
    <3> QED BY <1>2
  <2> QED BY <2>1, <2>2
<1>4. \A i \in 1..(n + 1) : r[i] = IF i = n + 1 THEN y ELSE p[i]
  BY <1>2
<1>5. \A i \in 1..(n + 1) : (i \in 1..n /\ i # n + 1) \/ i = n + 1
  OBVIOUS
<1> HIDE DEF p, q, r
<1>6. \A i \in 1..(n + 1) : q[i] = r[i]
  BY <1>2, <1>4, <1>5
<1>7. q = r
  BY <1>3, <1>6
<1> QED BY <1>1, <1>2, <1>7 DEF p, q, r

(* A text under way, with one piece more.                                  *)
LEMMA TextWith ==
  ASSUME NEW item, NEW body, NEW sig, NEW x
  PROVE  LET p == TurnPart("text", item, NoId, body, sig)
         IN /\ [p EXCEPT !.sig = x] = TurnPart("text", item, NoId, body, x)
            /\ [p EXCEPT !.body = x] = TurnPart("text", item, NoId, x, sig)
            /\ p.body = body /\ p.sig = sig /\ p.item = item /\ p.kind = "text"
BY DEF TurnPart

(* A text under way is a record part.                                      *)
LEMMA TextTyped ==
  ASSUME NEW item \in TurnItems, NEW body \in Seq(Nat), NEW sig \in Sigs \cup {NoSig}
  PROVE  TurnPart("text", item, NoId, body, sig) \in RecordPart
BY DEF TurnPart, RecordPart

(* A signature on its own.                                                 *)
LEMMA SignatureIsTaken ==
  ASSUME NEW a, Recording(a), NEW part \in AnyPart, part.kind = "text", part.body = <<>>, part.sig # NoSig
  PROVE  LET b == ProcessPart(a, part)
         IN Recording(b) /\ SignatureTaken(FlushPendingText(a), FlushPendingText(b), part)
<1>1. CASE a.text # <<>>
  <2> DEFINE b == [a EXCEPT !.textSig = part.sig]
             f == FlushPendingText(a)
             g == FlushPendingText(b)
             old == TurnPart("text", Message(a.textCount), NoId, a.text, a.textSig)
             new == TurnPart("text", Message(a.textCount), NoId, a.text, part.sig)
  <2>1. ProcessPart(a, part) = b
    BY <1>1 DEF ProcessPart, ProcessSignature
  <2>2. /\ DOMAIN b = DOMAIN a /\ b.textSig = part.sig /\ b.parts = a.parts /\ b.order = a.order /\ b.calls = a.calls
        /\ b.bridge = a.bridge /\ b.thought = a.thought /\ b.hasThought = a.hasThought
        /\ b.text = a.text /\ b.textCount = a.textCount
    BY RecordFields DEF Recording
  <2> HIDE DEF b
  <2>3. Recording(b)
    BY <1>1, <2>2 DEF Recording, AnyPart
  <2>4. /\ f.parts = Append(a.parts, old) /\ f.textCount = a.textCount + 1
        /\ g.parts = Append(a.parts, new) /\ g.textCount = a.textCount + 1
        /\ g.order = f.order /\ Unnamed(f, g)
    <3>1. /\ f.parts = Append(a.parts, old) /\ f.textCount = a.textCount + 1
          /\ f.order = a.order /\ f.calls = a.calls /\ f.bridge = a.bridge /\ Unthought(a, f)
      BY <1>1, FlushView
    <3>2. /\ g.parts = Append(b.parts, TurnPart("text", Message(b.textCount), NoId, b.text, b.textSig))
          /\ g.textCount = b.textCount + 1
          /\ g.order = b.order /\ g.calls = b.calls /\ g.bridge = b.bridge /\ Unthought(b, g)
      BY <1>1, <2>2, <2>3, FlushView
    <3> QED BY <2>2, <3>1, <3>2 DEF Unnamed, Unthought
  <2>5. old \in RecordPart /\ new \in RecordPart /\ a.parts \in Seq(RecordPart) /\ old.kind = "text"
        /\ new = [old EXCEPT !.sig = part.sig]
    <3>1. Message(a.textCount) \in TurnItems /\ a.text \in Seq(Nat) /\ a.textSig \in Sigs \cup {NoSig}
          /\ part.sig \in Sigs \cup {NoSig} /\ a.parts \in Seq(RecordPart)
      BY DEF Recording, TurnItems, AnyPart
    <3> QED BY <3>1, TextWith, TextTyped
  <2> HIDE DEF old, new, f, g
  <2>6. /\ g.parts = [i \in DOMAIN f.parts |-> IF i = Len(f.parts) THEN new ELSE f.parts[i]]
        /\ f.parts[Len(f.parts)] = old
    BY <2>4, <2>5, LastChanged
  <2>7. SignatureTarget(f.parts) = {Len(f.parts)}
    <3>1. f.parts \in Seq(RecordPart)
      BY <2>4, <2>5
    <3>2. PICK n \in Nat : n = Len(f.parts) /\ DOMAIN f.parts = 1..n
      BY <3>1
    <3>3. n # 0
      BY <2>4, <2>5, <3>2, LastChanged
    <3>4. f.parts[n].kind = "text"
      BY <2>5, <2>6, <3>2
    <3>5. \A i \in 1..n : i = n \/ n > i
      OBVIOUS
    <3>6. n \in 1..n /\ \A i \in 1..n : ~(i > n)
      BY <3>3
    <3> QED BY <3>2, <3>4, <3>5, <3>6 DEF SignatureTarget
  <2>8. g.parts = [i \in DOMAIN f.parts |->
                    IF i \in SignatureTarget(f.parts) THEN [f.parts[i] EXCEPT !.sig = part.sig] ELSE f.parts[i]]
    BY <2>5, <2>6, <2>7
  <2> QED BY <2>1, <2>3, <2>4, <2>8 DEF SignatureTaken, f, g
<1>2. CASE a.text = <<>>
  <2> DEFINE target == SignatureTarget(a.parts)
             more == [i \in DOMAIN a.parts |->
                        IF i \in target THEN [a.parts[i] EXCEPT !.sig = part.sig] ELSE a.parts[i]]
             sigs == [m \in DOMAIN a.textSigs \cup {a.parts[i].item : i \in target} |->
                        IF \E i \in target : a.parts[i].item = m THEN part.sig ELSE a.textSigs[m]]
             b == [a EXCEPT !.parts = more, !.textSigs = sigs]
  <2>1. ProcessPart(a, part) = b
    BY <1>2 DEF ProcessPart, ProcessSignature
  <2> HIDE DEF sigs
  <2>2. more \in Seq(RecordPart)
    <3>1. a.parts \in Seq(RecordPart)
      BY DEF Recording
    <3>2. \A i \in DOMAIN a.parts : a.parts[i] \in RecordPart
      BY <3>1
    <3>3. \A i \in DOMAIN a.parts : more[i] \in RecordPart
      <4> HIDE DEF target
      <4> QED BY <3>2, PartChanges
    <3>4. more = [i \in DOMAIN a.parts |-> more[i]]
      OBVIOUS
    <3> HIDE DEF more
    <3> QED BY <3>1, <3>3, <3>4, MappedSeq
  <2>3. /\ DOMAIN b = DOMAIN a /\ b.parts = more /\ b.order = a.order /\ b.calls = a.calls
        /\ b.bridge = a.bridge /\ b.thought = a.thought /\ b.hasThought = a.hasThought
        /\ b.text = a.text /\ b.textCount = a.textCount /\ b.textSig = a.textSig
    <3> HIDE DEF more
    <3> QED BY RecordFields DEF Recording
  <2> HIDE DEF b
  <2>4. Recording(b)
    <3> HIDE DEF more
    <3> QED BY <2>2, <2>3 DEF Recording
  <2>5. FlushPendingText(a) = a /\ FlushPendingText(b) = b
    BY <1>2, <2>3, <2>4, FlushView
  <2> QED BY <2>1, <2>3, <2>4, <2>5 DEF SignatureTaken, Unnamed, Unthought
<1> QED BY <1>1, <1>2

(* A text, with the one under way or after it.                             *)
LEMMA TextIsTaken ==
  ASSUME NEW c, Recording(c), NEW part \in AnyPart, part.kind = "text", part.body # <<>>
  PROVE  LET b == ProcessPart(c, part)
             f == FlushPendingText(c)
             g == FlushPendingText(b)
         IN Recording(b) /\ (TextExtended(f, g, part) \/ TextAdded(f, g, part))
<1> DEFINE a == IF c.text # <<>> /\ c.textSig # part.sig THEN FlushPendingText(c) ELSE c
           id == CurrentTextID(a)
           sig == IF part.sig = NoSig THEN a.textSig ELSE part.sig
           text == a.text \o part.body
           b == [a EXCEPT !.order = Recorded(@, id), !.text = text, !.textSig = sig]
           g == FlushPendingText(b)
           f == FlushPendingText(c)
           made == TurnPart("text", Message(a.textCount), NoId, b.text, b.textSig)
<1>1. ProcessPart(c, part) = b
  BY DEF ProcessPart, ProcessText
<1>2. Recording(a) /\ (a.text # <<>> => a = c /\ a.textSig = part.sig) /\ (a.text = <<>> => a = f)
  BY FlushView
<1>3. sig = part.sig
  BY <1>2 DEF Recording
<1> HIDE DEF a, f
<1>4. a.text \in Seq(Nat) /\ part.body \in Seq(Nat) /\ a.order \in Seq(TurnItems) /\ id \in TurnItems /\ id = Message(a.textCount)
  BY <1>2 DEF Recording, AnyPart, CurrentTextID, TurnItems
<1>5. text \in Seq(Nat) /\ text # <<>>
  <2>1. text \in Seq(Nat)
    BY <1>4
  <2>2. Len(text) = Len(a.text) + Len(part.body) /\ Len(a.text) \in Nat /\ Len(part.body) \in Nat
    BY <1>4, ConcatProperties
  <2>3. Len(part.body) # 0
    BY <1>4
  <2> HIDE DEF text
  <2>4. Len(text) # 0
    <3>1. \A x, y \in Nat : y # 0 => x + y # 0
      OBVIOUS
    <3> QED BY <2>2, <2>3, <3>1
  <2> QED BY <2>1, <2>4
<1> HIDE DEF id, sig
<1>6. /\ DOMAIN b = DOMAIN a /\ b.order = Recorded(a.order, id) /\ b.text = text /\ b.textSig = sig
      /\ b.parts = a.parts /\ b.calls = a.calls /\ b.textCount = a.textCount
      /\ b.bridge = a.bridge /\ b.thought = a.thought /\ b.hasThought = a.hasThought
  <2> HIDE DEF text
  <2> QED BY <1>2, RecordFields DEF Recording
<1> HIDE DEF b
<1>7. Recording(b)
  <2>1. b.order \in Seq(TurnItems)
    BY <1>4, <1>6, RecordedItem
  <2>2. b.textSig \in Sigs \cup {NoSig}
    BY <1>3, <1>6 DEF AnyPart
  <2> HIDE DEF text
  <2> QED BY <1>2, <1>5, <1>6, <2>1, <2>2 DEF Recording
<1>8. /\ g.parts = Append(a.parts, made) /\ g.order = Recorded(a.order, id)
      /\ g.textCount = a.textCount + 1
      /\ g.calls = a.calls /\ g.bridge = a.bridge /\ g.thought = a.thought /\ g.hasThought = a.hasThought
  <2> HIDE DEF text
  <2>1. b.text # <<>>
    BY <1>5, <1>6
  <2> QED BY <1>6, <1>7, <2>1, FlushView DEF Unthought
<1>9. made = TurnPart("text", id, NoId, text, part.sig)
  BY <1>3, <1>4, <1>6
<1> HIDE DEF made, g
<1>10. CASE a.text = <<>>
  <2>1. text = part.body
    BY <1>4, <1>10
  <2>2. TextAdded(f, g, part)
    <3> HIDE DEF text
    <3> QED BY <1>2, <1>4, <1>8, <1>9, <1>10, <2>1 DEF TextAdded, Unnamed, Unthought
  <2> QED BY <1>1, <1>7, <2>2 DEF f, g
<1>11. CASE a.text # <<>>
  <2> DEFINE old == TurnPart("text", id, NoId, a.text, part.sig)
  <2>1. /\ f.parts = Append(a.parts, old) /\ f.order = a.order /\ f.calls = a.calls /\ f.bridge = a.bridge
        /\ f.textCount = a.textCount + 1 /\ f.thought = a.thought /\ f.hasThought = a.hasThought
    BY <1>2, <1>4, <1>11, FlushView DEF f, Unthought
  <2>2. /\ old \in RecordPart /\ made \in RecordPart /\ a.parts \in Seq(RecordPart)
        /\ old.kind = "text" /\ old.sig = part.sig /\ old.item = id
        /\ made = [old EXCEPT !.body = old.body \o part.body]
    <3>1. old.body = a.text
      BY TextWith
    <3>2. text = old.body \o part.body
      BY <3>1
    <3>3. part.sig \in Sigs \cup {NoSig} /\ a.parts \in Seq(RecordPart)
      BY <1>2 DEF Recording, AnyPart
    <3> HIDE DEF text
    <3>4. made = [old EXCEPT !.body = text]
      BY <1>9, TextWith
    <3>5. old \in RecordPart /\ made \in RecordPart
      BY <1>4, <1>5, <1>9, <3>3, TextTyped
    <3> QED BY <3>2, <3>3, <3>4, <3>5, TextWith
  <2> HIDE DEF old
  <2>3. /\ g.parts = [i \in DOMAIN f.parts |-> IF i = Len(f.parts) THEN made ELSE f.parts[i]]
        /\ f.parts[Len(f.parts)] = old /\ Len(f.parts) = Len(a.parts) + 1 /\ Len(a.parts) \in Nat
    <3>1. g.parts = Append(a.parts, made) /\ f.parts = Append(a.parts, old)
      BY <1>8, <2>1
    <3>2. old \in RecordPart /\ made \in RecordPart /\ a.parts \in Seq(RecordPart)
      BY <2>2
    <3> HIDE DEF f
    <3> QED BY <3>1, <3>2, LastChanged
  <2>4. Len(f.parts) > 0
    BY <2>3
  <2>5. g.parts = [i \in DOMAIN f.parts |->
                     IF i = Len(f.parts) THEN [f.parts[i] EXCEPT !.body = @ \o part.body] ELSE f.parts[i]]
    BY <2>2, <2>3
  <2>6. TextExtended(f, g, part)
    BY <1>8, <2>1, <2>2, <2>3, <2>4, <2>5 DEF TextExtended, Unnamed, Unthought
  <2> QED BY <1>1, <1>7, <2>6 DEF f, g
<1> QED BY <1>10, <1>11

(* One item more in both.                                                  *)
LEMMA ListsAppended ==
  ASSUME NEW S, NEW order \in Seq(S), NEW items \in Seq(S), Lists(order, items), NEW new \in S,
         new # Reasoning, \A x \in DOMAIN items : items[x] # new
  PROVE  Lists(Append(order, new), Append(items, new)) /\ ~Contains(order, new)
<1> DEFINE o == Append(order, new)
           s == Append(items, new)
<1>1. PICK n \in Nat : n = Len(order)
  OBVIOUS
<1>2. PICK m \in Nat : m = Len(items)
  OBVIOUS
<1>3. /\ DOMAIN order = 1..n /\ DOMAIN o = 1..(n + 1) /\ o[n + 1] = new /\ \A i \in 1..n : o[i] = order[i]
  BY <1>1
<1>4. /\ DOMAIN items = 1..m /\ DOMAIN s = 1..(m + 1) /\ s[m + 1] = new /\ \A x \in 1..m : s[x] = items[x]
  BY <1>2
<1>0. /\ \A x \in 1..m : items[x] # Reasoning /\ \E i \in 1..n : order[i] = items[x]
      /\ \A x, y \in 1..m : items[x] = items[y] => x = y
      /\ \A i \in 1..n : order[i] = Reasoning \/ \E x \in 1..m : order[i] = items[x]
      /\ \A i, j \in 1..n : order[i] = order[j] => i = j
      /\ \A i, j \in 1..n : \A x, y \in 1..m : order[i] = items[x] /\ order[j] = items[y] /\ i < j => x < y
      /\ \A x \in 1..m : items[x] # new
  BY <1>3, <1>4 DEF Lists
<1>5. \A i \in 1..n : order[i] # new
  BY <1>0, <1>4
<1>6. /\ \A i \in 1..(n + 1) : i \in 1..n \/ i = n + 1
      /\ \A x \in 1..(m + 1) : x \in 1..m \/ x = m + 1
      /\ \A i \in 1..n : i \in 1..(n + 1) /\ i < n + 1 /\ ~(n + 1 < i)
      /\ \A x \in 1..m : x \in 1..(m + 1) /\ x < m + 1 /\ ~(m + 1 < x)
      /\ n + 1 \in 1..(n + 1) /\ m + 1 \in 1..(m + 1) /\ ~(n + 1 < n + 1)
  OBVIOUS
<1> HIDE DEF o, s
<1>7. \A x \in 1..(m + 1) : s[x] # Reasoning /\ \E i \in 1..(n + 1) : o[i] = s[x]
  BY <1>0, <1>3, <1>4, <1>6
<1>8. \A x, y \in 1..(m + 1) : s[x] = s[y] => x = y
  BY <1>0, <1>4, <1>6
<1>9. \A i \in 1..(n + 1) : o[i] = Reasoning \/ \E x \in 1..(m + 1) : o[i] = s[x]
  BY <1>0, <1>3, <1>4, <1>6
<1>10. \A i, j \in 1..(n + 1) : o[i] = o[j] => i = j
  BY <1>0, <1>3, <1>5, <1>6
<1>11. ASSUME NEW i \in 1..(n + 1), NEW j \in 1..(n + 1), NEW x \in 1..(m + 1), NEW y \in 1..(m + 1),
              o[i] = s[x], o[j] = s[y], i < j
       PROVE  x < y
  <2>1. i \in 1..n /\ o[i] = order[i] /\ order[i] # new
    BY <1>3, <1>5, <1>6, <1>11
  <2>2. x \in 1..m /\ s[x] = items[x]
    BY <1>4, <1>6, <1>11, <2>1
  <2>3. CASE j = n + 1
    <3>1. y = m + 1
      BY <1>3, <1>4, <1>6, <1>11, <2>3
    <3> QED BY <1>6, <2>2, <3>1
  <2>4. CASE j # n + 1
    <3>1. j \in 1..n /\ o[j] = order[j] /\ order[j] # new
      BY <1>3, <1>5, <1>6, <2>4
    <3>2. y \in 1..m /\ s[y] = items[y]
      BY <1>4, <1>6, <1>11, <3>1
    <3>3. order[i] = items[x] /\ order[j] = items[y]
      BY <1>11, <2>1, <2>2, <3>1, <3>2
    <3> QED BY <1>0, <1>11, <2>1, <2>2, <3>1, <3>2, <3>3
  <2> QED BY <2>3, <2>4
<1>12. Lists(o, s)
  <2>1. \A i, j \in 1..(n + 1) : \A x, y \in 1..(m + 1) : o[i] = s[x] /\ o[j] = s[y] /\ i < j => x < y
    BY <1>11
  <2>2. DOMAIN o = 1..(n + 1) /\ DOMAIN s = 1..(m + 1)
    BY <1>3, <1>4
  <2> DEFINE O == 1..(n + 1)
             X == 1..(m + 1)
  <2> HIDE DEF O, X
  <2>3. DOMAIN o = O /\ DOMAIN s = X
    BY <2>2 DEF O, X
  <2>4. \A x \in X : s[x] # Reasoning /\ \E i \in O : o[i] = s[x]
    BY <1>7 DEF O, X
  <2>5. \A i \in O : o[i] = Reasoning \/ \E x \in X : o[i] = s[x]
    BY <1>9 DEF O, X
  <2>6. \A i, j \in O : \A x, y \in X : o[i] = s[x] /\ o[j] = s[y] /\ i < j => x < y
    BY <2>1 DEF O, X
  <2>7. (\A x, y \in X : s[x] = s[y] => x = y) /\ (\A i, j \in O : o[i] = o[j] => i = j)
    BY <1>8, <1>10 DEF O, X
  <2> QED BY <2>3, <2>4, <2>5, <2>6, <2>7 DEF Lists
<1>13. ~Contains(order, new)
  BY <1>3, <1>5 DEF Contains
<1> QED BY <1>12, <1>13 DEF o, s

(* The reasoning item may be recorded at any time.                         *)
LEMMA ListsReasoning ==
  ASSUME NEW S, NEW order \in Seq(S), NEW items \in Seq(S), Lists(order, items), Reasoning \in S
  PROVE  /\ Lists(Recorded(order, Reasoning), items)
         /\ ~Contains(order, Reasoning) => Lists(<<Reasoning>> \o order, items)
<1> DEFINE r == Reasoning
<1>1. r \in S
  OBVIOUS
<1> HIDE DEF r
<1>2. PICK n \in Nat : n = Len(order)
  OBVIOUS
<1>3. DOMAIN order = 1..n /\ \A i \in 1..n : order[i] \in S
  BY <1>2
<1> DEFINE D == DOMAIN items
<1>0. /\ \A x \in D : items[x] # r /\ \E i \in 1..n : order[i] = items[x]
      /\ \A x, y \in D : items[x] = items[y] => x = y
      /\ \A i \in 1..n : order[i] = r \/ \E x \in D : order[i] = items[x]
      /\ \A i, j \in 1..n : order[i] = order[j] => i = j
      /\ \A i, j \in 1..n : \A x, y \in D : order[i] = items[x] /\ order[j] = items[y] /\ i < j => x < y
  BY <1>3 DEF Lists, r
<1>4. CASE Contains(order, r)
  BY <1>4 DEF Recorded, r
<1>5. CASE ~Contains(order, r)
  <2>0. \A i \in 1..n : order[i] # r
    BY <1>3, <1>5 DEF Contains
  <2> DEFINE o == Append(order, r)
             q == <<r>> \o order
  <2>1. DOMAIN o = 1..(n + 1) /\ o[n + 1] = r /\ \A i \in 1..n : o[i] = order[i]
    BY <1>1, <1>2
  <2>2. DOMAIN q = 1..(n + 1) /\ q[1] = r /\ \A i \in 1..n : q[i + 1] = order[i]
    <3>1. <<r>> \in Seq(S) /\ Len(<<r>>) = 1 /\ <<r>>[1] = r
      BY <1>1
    <3>2. /\ Len(q) = 1 + n /\ q \in Seq(S) /\ \A i \in 1..1 : q[i] = <<r>>[i]
          /\ \A i \in (1 + 1)..(1 + n) : q[i] = order[i - 1]
      BY <1>2, <3>1, ConcatProperties
    <3>3. DOMAIN q = 1..(n + 1)
      BY <3>2
    <3>4. \A i \in 1..n : i + 1 \in (1 + 1)..(1 + n) /\ (i + 1) - 1 = i
      OBVIOUS
    <3> HIDE DEF q
    <3> QED BY <3>1, <3>2, <3>3, <3>4
  <2> HIDE DEF o, q
  <2>3. /\ \A i \in 1..(n + 1) : i \in 1..n \/ i = n + 1
        /\ \A i \in 1..(n + 1) : i = 1 \/ (\E k \in 1..n : i = k + 1)
        /\ \A i \in 1..n : i \in 1..(n + 1) /\ i + 1 \in 1..(n + 1) /\ i + 1 # 1
        /\ \A i, j \in 1..n : (i + 1 < j + 1) => i < j
        /\ n + 1 \in 1..(n + 1) /\ 1 \in 1..(n + 1)
    <3>1. \A i \in 1..(n + 1) : i = 1 \/ (i - 1 \in 1..n /\ i = (i - 1) + 1)
      OBVIOUS
    <3> QED BY <3>1
  <2>5. Lists(o, items)
    <3>1. \A x \in D : items[x] # r /\ \E i \in 1..(n + 1) : o[i] = items[x]
      BY <1>0, <2>1, <2>3
    <3>2. \A i \in 1..(n + 1) : o[i] = r \/ \E x \in D : o[i] = items[x]
      BY <1>0, <2>1, <2>3
    <3>3. \A i, j \in 1..(n + 1) : o[i] = o[j] => i = j
      BY <1>0, <2>0, <2>1, <2>3
    <3>4. ASSUME NEW i \in 1..(n + 1), NEW j \in 1..(n + 1), NEW x \in D, NEW y \in D,
                 o[i] = items[x], o[j] = items[y], i < j
          PROVE  x < y
      <4>1. i \in 1..n /\ j \in 1..n
        BY <1>0, <2>1, <2>3, <3>4
      <4>2. order[i] = items[x] /\ order[j] = items[y]
        BY <2>1, <3>4, <4>1
      <4> QED BY <1>0, <3>4, <4>1, <4>2
    <3>5. \A x, y \in D : items[x] = items[y] => x = y
      BY <1>0
    <3> QED BY <2>1, <3>1, <3>2, <3>3, <3>4, <3>5 DEF Lists, r
  <2>6. Lists(q, items)
    <3>0. \A i \in 1..(n + 1) : (q[i] = r /\ i = 1) \/ \E k \in 1..n : i = k + 1 /\ q[i] = order[k]
      BY <2>2, <2>3
    <3>1. \A x \in D : items[x] # r /\ \E i \in 1..(n + 1) : q[i] = items[x]
      <4> TAKE x \in D
      <4>1. PICK k \in 1..n : order[k] = items[x]
        BY <1>0
      <4>2. k + 1 \in 1..(n + 1) /\ q[k + 1] = items[x]
        BY <2>2, <2>3, <4>1
      <4> QED BY <1>0, <4>2
    <3>2. \A i \in 1..(n + 1) : q[i] = r \/ \E x \in D : q[i] = items[x]
      BY <1>0, <3>0
    <3>3. \A i, j \in 1..(n + 1) : q[i] = q[j] => i = j
      BY <1>0, <2>0, <3>0
    <3>4. ASSUME NEW i \in 1..(n + 1), NEW j \in 1..(n + 1), NEW x \in D, NEW y \in D,
                 q[i] = items[x], q[j] = items[y], i < j
          PROVE  x < y
      <4>1. PICK k \in 1..n : i = k + 1 /\ q[i] = order[k]
        BY <1>0, <3>0, <3>4
      <4>2. PICK l \in 1..n : j = l + 1 /\ q[j] = order[l]
        BY <1>0, <3>0, <3>4
      <4>3. k < l
        BY <2>3, <3>4, <4>1, <4>2
      <4> QED BY <1>0, <3>4, <4>1, <4>2, <4>3
    <3>5. \A x, y \in D : items[x] = items[y] => x = y
      BY <1>0
    <3> QED BY <2>2, <3>1, <3>2, <3>3, <3>4, <3>5 DEF Lists, r
  <2> QED BY <1>5, <2>5, <2>6 DEF Recorded, o, q, r
<1> QED BY <1>4, <1>5 DEF r


(* The items and kinds of the parts stay, and whatever names them.         *)
SameItems(p, q) ==
  /\ DOMAIN p = DOMAIN q
  /\ \A x \in DOMAIN p : p[x].item = q[x].item /\ p[x].kind = q[x].kind /\ p[x].id = q[x].id

(* What only changes bodies and signatures keeps every name.               *)
LEMMA NamedAlike ==
  ASSUME NEW f, Named(f), NEW g, SameItems(g.parts, f.parts), g.calls = f.calls, g.bridge = f.bridge,
         g.textCount = f.textCount
  PROVE  Named(g) /\ ItemsOf(g.parts) = ItemsOf(f.parts) /\ (FirstCallLeads(f) => FirstCallLeads(g))
<1>0. /\ DOMAIN g.parts = DOMAIN f.parts
      /\ \A x \in DOMAIN f.parts : /\ g.parts[x].item = f.parts[x].item /\ g.parts[x].kind = f.parts[x].kind
                                   /\ g.parts[x].id = f.parts[x].id
  BY DEF SameItems
<1>1. ItemsOf(g.parts) = ItemsOf(f.parts)
  BY <1>0 DEF ItemsOf
<1>2. FirstCallLeads(f) => FirstCallLeads(g)
  BY <1>0 DEF FirstCallLeads
<1>3. \A x \in DOMAIN g.parts :
        IF g.parts[x].kind = "call" THEN g.parts[x].item = CallItem(x - 1, g.parts[x].id)
        ELSE \E k \in 0..(g.textCount - 1) : g.parts[x].item = Message(k)
  BY <1>0 DEF Named
<1>4. /\ \A i \in DOMAIN g.calls :
           \E x \in DOMAIN g.parts : g.parts[x].kind = "call" /\ g.parts[x].item = g.calls[i]
      /\ \A x \in DOMAIN g.parts : g.parts[x].kind = "call" => Contains(g.calls, g.parts[x].item)
  BY <1>0 DEF Named
<1>5. /\ \A id \in DOMAIN g.bridge :
           \E x \in DOMAIN g.parts : g.parts[x].kind = "call" /\ g.parts[x].id = id /\ g.parts[x].item = g.bridge[id]
      /\ \A x \in DOMAIN g.parts : g.parts[x].kind = "call" /\ g.parts[x].id # NoId =>
           g.parts[x].id \in DOMAIN g.bridge /\ g.bridge[g.parts[x].id] = g.parts[x].item
  BY <1>0 DEF Named
<1> QED BY <1>1, <1>2, <1>3, <1>4, <1>5 DEF Named

(* The items of a record's parts are items of a turn.                      *)
LEMMA ItemsTyped ==
  ASSUME NEW parts \in Seq(RecordPart)
  PROVE  ItemsOf(parts) \in Seq(TurnItems) /\ DOMAIN ItemsOf(parts) = DOMAIN parts
<1>1. PICK n \in Nat : n = Len(parts) /\ DOMAIN parts = 1..n
  OBVIOUS
<1> DEFINE items == ItemsOf(parts)
<1>2. \A x \in 1..n : items[x] \in TurnItems
  <2> TAKE x \in 1..n
  <2>1. parts[x] \in RecordPart
    BY <1>1
  <2>2. parts[x].item \in TurnItems
    BY <2>1 DEF RecordPart
  <2> QED BY <1>1, <2>2 DEF ItemsOf
<1>3. items = [x \in 1..n |-> items[x]]
  BY <1>1 DEF ItemsOf
<1> HIDE DEF items
<1>4. [x \in 1..n |-> items[x]] \in Seq(TurnItems)
  BY <1>2, IsASeq
<1>5. DOMAIN items = 1..n
  BY <1>3
<1> QED BY <1>1, <1>3, <1>4, <1>5 DEF items

(* Recording an item that is listed changes nothing.                       *)
LEMMA RecordedListed ==
  ASSUME NEW order \in Seq(TurnItems), NEW parts, Lists(order, ItemsOf(parts)), NEW x \in DOMAIN parts
  PROVE  Recorded(order, parts[x].item) = order
<1>1. x \in DOMAIN ItemsOf(parts) /\ ItemsOf(parts)[x] = parts[x].item
  BY DEF ItemsOf
<1>2. \E i \in DOMAIN order : order[i] = parts[x].item
  BY <1>1 DEF Lists
<1>3. DOMAIN order = 1..Len(order)
  OBVIOUS
<1> QED BY <1>2, <1>3 DEF Recorded, Contains

(* Whether the reasoning item is listed.                                   *)
LEMMA ReasoningListed ==
  ASSUME NEW S, NEW order \in Seq(S), NEW item \in S
  PROVE  /\ Contains(Recorded(order, item), item)
         /\ item # Reasoning => (Contains(Recorded(order, item), Reasoning) <=> Contains(order, Reasoning))
<1>1. PICK n \in Nat : n = Len(order)
  OBVIOUS
<1> DEFINE o == Append(order, item)
<1>2. DOMAIN order = 1..n /\ DOMAIN o = 1..(n + 1) /\ o[n + 1] = item /\ \A i \in 1..n : o[i] = order[i]
  BY <1>1
<1>3. \A i \in 1..(n + 1) : i \in 1..n \/ i = n + 1
  OBVIOUS
<1>4. \A i \in 1..n : i \in 1..(n + 1)
  OBVIOUS
<1>5. n + 1 \in 1..(n + 1)
  OBVIOUS
<1> HIDE DEF o
<1>6. Contains(o, item)
  BY <1>2, <1>5 DEF Contains
<1>7. item # Reasoning => (Contains(o, Reasoning) <=> Contains(order, Reasoning))
  BY <1>2, <1>3, <1>4 DEF Contains
<1> QED BY <1>6, <1>7 DEF Recorded, o

(* A thought keeps the order.                                              *)
LEMMA ThoughtOrdered ==
  ASSUME NEW f, Recording(f), Ordered(f), NEW g, NEW part \in AnyPart, ThoughtTaken(f, g, part)
  PROVE  Ordered(g)
<1>1. /\ g.parts = f.parts /\ g.order = Recorded(f.order, Reasoning)
      /\ g.calls = f.calls /\ g.bridge = f.bridge /\ g.textCount = f.textCount /\ g.hasThought = TRUE
  BY DEF ThoughtTaken
<1>2. /\ f.order \in Seq(TurnItems) /\ ItemsOf(f.parts) \in Seq(TurnItems) /\ Reasoning \in TurnItems
      /\ Lists(f.order, ItemsOf(f.parts)) /\ Named(f) /\ FirstCallLeads(f)
  <2>1. f.order \in Seq(TurnItems) /\ f.parts \in Seq(RecordPart)
    BY DEF Recording
  <2>2. ItemsOf(f.parts) \in Seq(TurnItems) /\ Reasoning \in TurnItems
    BY <2>1, ItemsTyped DEF TurnItems
  <2> QED BY <2>1, <2>2 DEF Ordered
<1>3. Lists(g.order, ItemsOf(g.parts))
  BY <1>1, <1>2, ListsReasoning
<1>4. Contains(g.order, Reasoning)
  BY <1>1, <1>2, ReasoningListed
<1>5. SameItems(g.parts, f.parts)
  BY <1>1 DEF SameItems
<1>6. Named(g) /\ FirstCallLeads(g)
  BY <1>1, <1>2, <1>5, NamedAlike
<1> QED BY <1>1, <1>3, <1>4, <1>6 DEF Ordered

(* So does what only changes the texts and signatures.                     *)
LEMMA ChangesOrdered ==
  ASSUME NEW f, Ordered(f), NEW g, SameItems(g.parts, f.parts), g.calls = f.calls, g.bridge = f.bridge,
         g.textCount = f.textCount, g.order = f.order, Unthought(f, g)
  PROVE  Ordered(g)
<1>1. Named(f) /\ FirstCallLeads(f) /\ Lists(f.order, ItemsOf(f.parts))
  BY DEF Ordered
<1>2. Named(g) /\ FirstCallLeads(g) /\ ItemsOf(g.parts) = ItemsOf(f.parts)
  BY <1>1, NamedAlike
<1> QED BY <1>1, <1>2 DEF Ordered, Unthought

(* So does an update of a known call, a signature, a longer text.          *)
LEMMA UpdateOrdered ==
  ASSUME NEW f, Recording(f), Ordered(f), NEW g, NEW part \in AnyPart,
         CallUpdated(f, g, part) \/ SignatureTaken(f, g, part) \/ TextExtended(f, g, part)
  PROVE  Ordered(g)
<1>1. \A x \in DOMAIN f.parts : f.parts[x] \in RecordPart
  BY DEF Recording
<1>2. Lists(f.order, ItemsOf(f.parts)) /\ Named(f) /\ f.order \in Seq(TurnItems)
  BY DEF Ordered, Recording
<1>3. CASE CallUpdated(f, g, part)
  <2> DEFINE item == f.bridge[part.id]
  <2>1. /\ part.id \in DOMAIN f.bridge
        /\ g.parts = [i \in DOMAIN f.parts |->
                        IF f.parts[i].item = item THEN Updated(f.parts[i], part) ELSE f.parts[i]]
        /\ g.order = Recorded(f.order, item) /\ g.calls = f.calls /\ g.bridge = f.bridge
        /\ g.textCount = f.textCount /\ Unthought(f, g)
    BY <1>3 DEF CallUpdated
  <2>2. PICK x \in DOMAIN f.parts : f.parts[x].item = item
    BY <1>2, <2>1 DEF Named
  <2> HIDE DEF item
  <2>3. g.order = f.order
    BY <1>2, <2>1, <2>2, RecordedListed
  <2>4. SameItems(g.parts, f.parts)
    <3> SUFFICES ASSUME NEW i \in DOMAIN f.parts
                 PROVE  g.parts[i].item = f.parts[i].item /\ g.parts[i].kind = f.parts[i].kind /\ g.parts[i].id = f.parts[i].id
      BY <2>1 DEF SameItems
    <3> DEFINE p == f.parts[i]
               q == Updated(p, part)
    <3>1. q.item = p.item /\ q.kind = p.kind /\ q.id = p.id
      BY <1>1, PartChanges
    <3>2. g.parts[i] = q \/ g.parts[i] = p
      BY <2>1
    <3> HIDE DEF p, q
    <3>3. g.parts[i].item = p.item /\ g.parts[i].kind = p.kind /\ g.parts[i].id = p.id
      BY <3>1, <3>2
    <3> QED BY <3>3 DEF p
  <2> QED BY <2>1, <2>3, <2>4, ChangesOrdered
<1>4. CASE SignatureTaken(f, g, part)
  <2> DEFINE target == SignatureTarget(f.parts)
  <2>1. /\ g.parts = [i \in DOMAIN f.parts |->
                        IF i \in target THEN [f.parts[i] EXCEPT !.sig = part.sig] ELSE f.parts[i]]
        /\ g.order = f.order /\ g.calls = f.calls /\ g.bridge = f.bridge
        /\ g.textCount = f.textCount /\ Unthought(f, g)
    BY <1>4 DEF SignatureTaken, Unnamed
  <2> HIDE DEF target
  <2>2. SameItems(g.parts, f.parts)
    <3> SUFFICES ASSUME NEW i \in DOMAIN f.parts
                 PROVE  g.parts[i].item = f.parts[i].item /\ g.parts[i].kind = f.parts[i].kind /\ g.parts[i].id = f.parts[i].id
      BY <2>1 DEF SameItems
    <3> DEFINE p == f.parts[i]
               q == [p EXCEPT !.sig = part.sig]
    <3>1. q.item = p.item /\ q.kind = p.kind /\ q.id = p.id
      BY <1>1, PartChanges
    <3>2. g.parts[i] = q \/ g.parts[i] = p
      BY <2>1
    <3> HIDE DEF p, q
    <3>3. g.parts[i].item = p.item /\ g.parts[i].kind = p.kind /\ g.parts[i].id = p.id
      BY <3>1, <3>2
    <3> QED BY <3>3 DEF p
  <2> QED BY <2>1, <2>2, ChangesOrdered
<1>5. CASE TextExtended(f, g, part)
  <2>1. PICK n \in Nat : n = Len(f.parts)
    BY DEF Recording
  <2>2. /\ n > 0
        /\ g.parts = [i \in DOMAIN f.parts |->
                        IF i = n THEN [f.parts[i] EXCEPT !.body = f.parts[i].body \o part.body] ELSE f.parts[i]]
        /\ g.order = Recorded(f.order, f.parts[n].item) /\ g.calls = f.calls /\ g.bridge = f.bridge
        /\ g.textCount = f.textCount /\ Unthought(f, g)
    BY <1>5, <2>1 DEF TextExtended, Unnamed
  <2>3. n \in DOMAIN f.parts
    BY <2>1, <2>2 DEF Recording
  <2>4. g.order = f.order
    BY <1>2, <2>2, <2>3, RecordedListed
  <2>5. SameItems(g.parts, f.parts)
    <3> SUFFICES ASSUME NEW i \in DOMAIN f.parts
                 PROVE  g.parts[i].item = f.parts[i].item /\ g.parts[i].kind = f.parts[i].kind /\ g.parts[i].id = f.parts[i].id
      BY <2>2 DEF SameItems
    <3> DEFINE p == f.parts[i]
               q == [p EXCEPT !.body = p.body \o part.body]
    <3>1. q.item = p.item /\ q.kind = p.kind /\ q.id = p.id
      BY <1>1, PartChanges
    <3>2. g.parts[i] = q \/ g.parts[i] = p
      BY <2>2
    <3> HIDE DEF p, q
    <3>3. g.parts[i].item = p.item /\ g.parts[i].kind = p.kind /\ g.parts[i].id = p.id
      BY <3>1, <3>2
    <3> QED BY <3>3 DEF p
  <2> QED BY <2>2, <2>4, <2>5, ChangesOrdered
<1> QED BY <1>3, <1>4, <1>5

(* Names: of different kinds, they differ.                                 *)
LEMMA NamesDiffer ==
  /\ \A n : Message(n) # Reasoning /\ Message(n)[1] = "msg" /\ Message(n)[2] = n
  /\ \A m, n, id : CallItem(n, id) # Reasoning /\ CallItem(n, id) # Message(m)
  /\ \A n, id : CallItem(n, id)[1] = "fc" /\ CallItem(n, id)[2] = n /\ CallItem(n, id)[3] = id
  /\ Reasoning[1] = "rs"
BY DEF Message, Reasoning, CallItem

(* A new part, under a name no part had.                                   *)
LEMMA AddedListed ==
  ASSUME NEW f, Recording(f), Ordered(f), NEW g, NEW p \in RecordPart, p.item # Reasoning,
         \A x \in DOMAIN f.parts : f.parts[x].item # p.item,
         g.parts = Append(f.parts, p), g.order = Recorded(f.order, p.item), Unthought(f, g)
  PROVE  /\ Lists(g.order, ItemsOf(g.parts))
         /\ g.thought # <<>> => Contains(g.order, Reasoning)
         /\ g.hasThought <=> Contains(g.order, Reasoning)
<1> DEFINE items == ItemsOf(f.parts)
           new == p.item
           more == Append(items, new)
           all == ItemsOf(g.parts)
<1>1. PICK n \in Nat : n = Len(f.parts)
  BY DEF Recording
<1>2. /\ f.parts \in Seq(RecordPart) /\ DOMAIN f.parts = 1..n /\ DOMAIN g.parts = 1..(n + 1)
      /\ g.parts[n + 1] = p /\ \A x \in 1..n : g.parts[x] = f.parts[x]
  BY <1>1 DEF Recording
<1>3. /\ items \in Seq(TurnItems) /\ DOMAIN items = 1..n /\ f.order \in Seq(TurnItems) /\ new \in TurnItems
      /\ Lists(f.order, items)
  BY <1>2, ItemsTyped DEF Recording, Ordered, RecordPart
<1>4. Len(items) = n
  <2> HIDE DEF items
  <2> QED BY <1>3
<1>5. \A x \in DOMAIN items : items[x] # new
  BY <1>2, <1>3 DEF ItemsOf
<1>6. DOMAIN all = 1..(n + 1) /\ all[n + 1] = new /\ \A x \in 1..n : all[x] = items[x]
  <2>1. \A x \in 1..(n + 1) : all[x] = g.parts[x].item
    BY <1>2 DEF ItemsOf
  <2>2. \A x \in 1..n : x \in 1..(n + 1) /\ items[x] = f.parts[x].item
    BY <1>2 DEF ItemsOf
  <2>3. n + 1 \in 1..(n + 1) /\ DOMAIN all = 1..(n + 1)
    BY <1>2 DEF ItemsOf
  <2> HIDE DEF all, items
  <2> QED BY <1>2, <2>1, <2>2, <2>3
<1>7. all = [x \in 1..(n + 1) |-> all[x]]
  BY <1>2 DEF ItemsOf
<1> HIDE DEF items, new, all
<1>8. /\ DOMAIN more = 1..(n + 1) /\ more[n + 1] = new /\ \A x \in 1..n : more[x] = items[x]
      /\ more = [x \in 1..(n + 1) |-> more[x]]
  <2>1. more \in Seq(TurnItems) /\ Len(more) = n + 1 /\ more[n + 1] = new /\ \A x \in 1..n : more[x] = items[x]
    BY <1>3, <1>4
  <2> HIDE DEF more
  <2> QED BY <2>1
<1>9. \A x \in 1..(n + 1) : x \in 1..n \/ x = n + 1
  OBVIOUS
<1> HIDE DEF more
<1>10. \A x \in 1..(n + 1) : more[x] = all[x]
  BY <1>6, <1>8, <1>9
<1>11. all = more
  BY <1>7, <1>8, <1>10
<1>12. Lists(Append(f.order, new), more) /\ ~Contains(f.order, new)
  BY <1>3, <1>5, ListsAppended DEF more, new
<1>13. Lists(g.order, all)
  BY <1>11, <1>12 DEF Recorded, new
<1>14. Contains(g.order, Reasoning) <=> Contains(f.order, Reasoning)
  BY <1>3, ReasoningListed DEF new
<1> QED BY <1>13, <1>14 DEF all, Ordered, Unthought

(* A call the upstream had not named.                                      *)
LEMMA CallAddedOrdered ==
  ASSUME NEW f, Recording(f), Ordered(f), NEW g, NEW part \in AnyPart, part.kind = "call",
         CallAdded(f, g, part)
  PROVE  Ordered(g)
<1> DEFINE id == part.id
           item == CallItem(Len(f.parts), id)
           p == TurnPart("call", item, id, part.body, part.sig)
<1>1. PICK n \in Nat : n = Len(f.parts)
  BY DEF Recording
<1>2. item = CallItem(n, id)
  BY <1>1
<1>3. /\ id \notin DOMAIN f.bridge /\ g.parts = Append(f.parts, p) /\ g.order = Recorded(f.order, item)
      /\ g.calls = Append(f.calls, item) /\ g.bridge = Bound(f.bridge, part, item)
      /\ g.textCount = f.textCount /\ Unthought(f, g)
  BY DEF CallAdded
<1>4. p \in RecordPart /\ p.kind = "call" /\ p.item = item /\ p.id = id
  BY <1>2 DEF TurnPart, RecordPart, AnyPart, TurnItems
<1> HIDE DEF p, item
<1>5. /\ f.parts \in Seq(RecordPart) /\ DOMAIN f.parts = 1..n /\ DOMAIN g.parts = 1..(n + 1)
      /\ g.parts[n + 1] = p /\ \A x \in 1..n : g.parts[x] = f.parts[x]
  BY <1>1, <1>3, <1>4 DEF Recording
<1>6. \A x \in 1..n : /\ f.parts[x] \in RecordPart
                      /\ f.parts[x].kind = "call" => f.parts[x].item = CallItem(x - 1, f.parts[x].id)
                      /\ f.parts[x].kind # "call" => \E k \in 0..(f.textCount - 1) : f.parts[x].item = Message(k)
  <2>1. Named(f)
    BY DEF Ordered
  <2>2. \A x \in 1..n : f.parts[x] \in RecordPart
    BY <1>5
  <2>3. \A x \in DOMAIN f.parts :
          IF f.parts[x].kind = "call" THEN f.parts[x].item = CallItem(x - 1, f.parts[x].id)
          ELSE \E k \in 0..(f.textCount - 1) : f.parts[x].item = Message(k)
    BY <2>1 DEF Named
  <2> QED BY <1>5, <2>2, <2>3
<1>7. \A x \in 1..n : f.parts[x].item # item
  <2> SUFFICES ASSUME NEW x \in 1..n, f.parts[x].item = item PROVE FALSE
    OBVIOUS
  <2>1. CASE f.parts[x].kind = "call"
    <3>1. CallItem(x - 1, f.parts[x].id) = CallItem(n, id)
      BY <1>2, <1>6, <2>1
    <3>2. x - 1 = n
      BY <3>1, NamesDiffer
    <3> QED BY <3>2
  <2>2. CASE f.parts[x].kind # "call"
    BY <1>2, <1>6, <2>2, NamesDiffer
  <2> QED BY <2>1, <2>2
<1>8. /\ Lists(g.order, ItemsOf(g.parts))
      /\ g.thought # <<>> => Contains(g.order, Reasoning)
      /\ g.hasThought <=> Contains(g.order, Reasoning)
  <2>1. p.item # Reasoning
    BY <1>2, <1>4, NamesDiffer
  <2>2. \A x \in DOMAIN f.parts : f.parts[x].item # p.item
    BY <1>4, <1>5, <1>7
  <2> QED BY <1>3, <1>4, <2>1, <2>2, AddedListed
<1>9. /\ \A i \in 1..(n + 1) : i \in 1..n \/ i = n + 1
      /\ \A i \in 1..n : i \in 1..(n + 1) /\ i <= n + 1
      /\ n + 1 \in 1..(n + 1) /\ n + 1 <= n + 1 /\ (n + 1) - 1 = n
  OBVIOUS
<1>10. PICK m \in Nat : m = Len(f.calls)
  BY DEF Recording
<1>11. DOMAIN f.calls = 1..m /\ DOMAIN g.calls = 1..(m + 1) /\ g.calls[m + 1] = item /\ \A i \in 1..m : g.calls[i] = f.calls[i]
  BY <1>3, <1>10 DEF Recording
<1>12. /\ \A i \in 1..(m + 1) : i \in 1..m \/ i = m + 1
       /\ \A i \in 1..m : i \in 1..(m + 1)
       /\ m + 1 \in 1..(m + 1)
  OBVIOUS
<1>13. \A x \in DOMAIN g.parts :
         IF g.parts[x].kind = "call" THEN g.parts[x].item = CallItem(x - 1, g.parts[x].id)
         ELSE \E k \in 0..(g.textCount - 1) : g.parts[x].item = Message(k)
  <2> SUFFICES ASSUME NEW x \in 1..(n + 1)
               PROVE  IF g.parts[x].kind = "call" THEN g.parts[x].item = CallItem(x - 1, g.parts[x].id)
                      ELSE \E k \in 0..(g.textCount - 1) : g.parts[x].item = Message(k)
    BY <1>5
  <2>1. CASE x = n + 1
    BY <1>2, <1>4, <1>5, <1>9, <2>1
  <2>2. CASE x # n + 1
    BY <1>3, <1>5, <1>6, <1>9, <2>2
  <2> QED BY <2>1, <2>2
<1>14. \A i \in DOMAIN g.calls :
         \E x \in DOMAIN g.parts : g.parts[x].kind = "call" /\ g.parts[x].item = g.calls[i]
  <2> SUFFICES ASSUME NEW i \in 1..(m + 1)
               PROVE  \E x \in 1..(n + 1) : g.parts[x].kind = "call" /\ g.parts[x].item = g.calls[i]
    BY <1>5, <1>11
  <2>1. CASE i = m + 1
    BY <1>4, <1>5, <1>9, <1>11, <2>1
  <2>2. CASE i # m + 1
    <3>1. i \in 1..m /\ g.calls[i] = f.calls[i]
      BY <1>11, <1>12, <2>2
    <3>0. \A j \in DOMAIN f.calls :
            \E x \in DOMAIN f.parts : f.parts[x].kind = "call" /\ f.parts[x].item = f.calls[j]
      BY DEF Ordered, Named
    <3>2. PICK x \in 1..n : f.parts[x].kind = "call" /\ f.parts[x].item = f.calls[i]
      BY <1>5, <1>11, <3>0, <3>1
    <3>3. x \in 1..(n + 1) /\ g.parts[x].kind = "call" /\ g.parts[x].item = g.calls[i]
      BY <1>5, <1>9, <3>1, <3>2
    <3> QED BY <3>3
  <2> QED BY <2>1, <2>2
<1>15. \A x \in DOMAIN g.parts : g.parts[x].kind = "call" => Contains(g.calls, g.parts[x].item)
  <2> SUFFICES ASSUME NEW x \in 1..(n + 1), g.parts[x].kind = "call"
               PROVE  \E i \in 1..(m + 1) : g.calls[i] = g.parts[x].item
    BY <1>5, <1>11 DEF Contains
  <2>1. CASE x = n + 1
    BY <1>4, <1>5, <1>11, <1>12, <2>1
  <2>2. CASE x # n + 1
    <3>1. x \in 1..n /\ g.parts[x] = f.parts[x]
      BY <1>5, <1>9, <2>2
    <3>0. \A y \in DOMAIN f.parts : f.parts[y].kind = "call" => Contains(f.calls, f.parts[y].item)
      BY DEF Ordered, Named
    <3>2. PICK i \in 1..m : f.calls[i] = f.parts[x].item
      <4>1. x \in DOMAIN f.parts /\ f.parts[x].kind = "call"
        BY <1>5, <3>1
      <4>2. Contains(f.calls, f.parts[x].item)
        BY <3>0, <4>1
      <4> QED BY <1>11, <4>2 DEF Contains
    <3>3. i \in 1..(m + 1) /\ g.calls[i] = g.parts[x].item
      BY <1>11, <1>12, <3>1, <3>2
    <3> QED BY <3>3
  <2> QED BY <2>1, <2>2
<1>16. /\ id = NoId => g.bridge = f.bridge
       /\ id # NoId => /\ DOMAIN g.bridge = DOMAIN f.bridge \cup {id} /\ g.bridge[id] = item
                       /\ \A k \in DOMAIN f.bridge : k # id /\ g.bridge[k] = f.bridge[k]
  <2>1. id = NoId => g.bridge = f.bridge
    BY <1>3 DEF Bound
  <2>2. id # NoId => g.bridge = Assigned(f.bridge, id, item)
    BY <1>3 DEF Bound
  <2> QED BY <1>3, <2>1, <2>2 DEF Assigned
<1>17. \A k \in DOMAIN g.bridge :
         \E x \in DOMAIN g.parts : g.parts[x].kind = "call" /\ g.parts[x].id = k /\ g.parts[x].item = g.bridge[k]
  <2> SUFFICES ASSUME NEW k \in DOMAIN g.bridge
               PROVE  \E x \in 1..(n + 1) : g.parts[x].kind = "call" /\ g.parts[x].id = k /\ g.parts[x].item = g.bridge[k]
    BY <1>5
  <2>1. CASE k \in DOMAIN f.bridge
    <3>1. g.bridge[k] = f.bridge[k]
      BY <1>16, <2>1
    <3>2. PICK x \in 1..n : f.parts[x].kind = "call" /\ f.parts[x].id = k /\ f.parts[x].item = f.bridge[k]
      BY <1>5, <2>1 DEF Ordered, Named
    <3>3. x \in 1..(n + 1) /\ g.parts[x] = f.parts[x]
      BY <1>5, <1>9, <3>2
    <3> QED BY <3>1, <3>2, <3>3
  <2>2. CASE k \notin DOMAIN f.bridge
    <3>1. k = id /\ id # NoId /\ g.bridge[k] = item
      BY <1>16, <2>2
    <3> QED BY <1>4, <1>5, <1>9, <3>1
  <2> QED BY <2>1, <2>2
<1>18. \A x \in DOMAIN g.parts : g.parts[x].kind = "call" /\ g.parts[x].id # NoId =>
         g.parts[x].id \in DOMAIN g.bridge /\ g.bridge[g.parts[x].id] = g.parts[x].item
  <2> SUFFICES ASSUME NEW x \in 1..(n + 1), g.parts[x].kind = "call", g.parts[x].id # NoId
               PROVE  g.parts[x].id \in DOMAIN g.bridge /\ g.bridge[g.parts[x].id] = g.parts[x].item
    BY <1>5
  <2>1. CASE x = n + 1
    BY <1>4, <1>5, <1>16, <2>1
  <2>2. CASE x # n + 1
    <3>1. x \in 1..n /\ g.parts[x] = f.parts[x]
      BY <1>5, <1>9, <2>2
    <3>2. f.parts[x].id \in DOMAIN f.bridge /\ f.bridge[f.parts[x].id] = f.parts[x].item
      BY <1>5, <3>1 DEF Ordered, Named
    <3> QED BY <1>16, <3>1, <3>2
  <2> QED BY <2>1, <2>2
<1>19. Named(g)
  BY <1>13, <1>14, <1>15, <1>17, <1>18 DEF Named
<1>20. FirstCallLeads(g)
  <2> SUFFICES ASSUME NEW x \in 1..(n + 1), g.parts[x].kind = "call"
               PROVE  \E y \in 1..(n + 1) : y <= x /\ g.parts[y].item = Head(g.calls)
    BY <1>5 DEF FirstCallLeads
  <2>1. CASE m = 0
    <3>1. \A y \in 1..n : f.parts[y].kind # "call"
      <4> SUFFICES ASSUME NEW y \in 1..n, f.parts[y].kind = "call" PROVE FALSE
        OBVIOUS
      <4>1. Contains(f.calls, f.parts[y].item) /\ f.calls \in Seq(TurnItems)
        BY <1>5 DEF Ordered, Named, Recording
      <4>2. \E i \in DOMAIN f.calls : f.calls[i] = f.parts[y].item
        BY <4>1 DEF Contains
      <4> QED BY <1>11, <2>1, <4>2
    <3>2. x = n + 1
      BY <1>5, <1>9, <3>1
    <3>3. f.calls = <<>>
      <4>1. f.calls \in Seq(TurnItems) /\ Len(f.calls) = 0
        BY <1>10, <2>1 DEF Recording
      <4> QED BY <4>1
    <3>4. Head(g.calls) = item
      BY <1>3, <3>3
    <3> QED BY <1>4, <1>5, <3>2, <3>4
  <2>2. CASE m # 0
    <3>1. Head(g.calls) = Head(f.calls) /\ Head(f.calls) = f.calls[1] /\ 1 \in 1..m
      BY <1>3, <1>10, <2>2 DEF Recording
    <3>0. \A j \in DOMAIN f.calls :
            \E y \in DOMAIN f.parts : f.parts[y].kind = "call" /\ f.parts[y].item = f.calls[j]
      BY DEF Ordered, Named
    <3>2. PICK z \in 1..n : f.parts[z].kind = "call" /\ f.parts[z].item = Head(f.calls)
      BY <1>5, <1>11, <3>0, <3>1
    <3>3. CASE x = n + 1
      <4>1. z \in 1..(n + 1) /\ z <= x /\ g.parts[z].item = Head(g.calls)
        BY <1>5, <1>9, <3>1, <3>2, <3>3
      <4> QED BY <4>1
    <3>4. CASE x # n + 1
      <4>1. x \in 1..n /\ f.parts[x].kind = "call"
        BY <1>5, <1>9, <3>4
      <4>2. PICK y \in 1..n : y <= x /\ f.parts[y].item = Head(f.calls)
        BY <1>5, <4>1 DEF Ordered, FirstCallLeads
      <4>3. y \in 1..(n + 1) /\ g.parts[y].item = Head(g.calls)
        BY <1>5, <1>9, <3>1, <4>2
      <4> QED BY <4>2, <4>3
    <3> QED BY <3>3, <3>4
  <2> QED BY <2>1, <2>2
<1> QED BY <1>8, <1>19, <1>20 DEF Ordered

(* A text after the others.                                                *)
LEMMA TextAddedOrdered ==
  ASSUME NEW f, Recording(f), Ordered(f), NEW g, NEW part \in AnyPart, TextAdded(f, g, part)
  PROVE  Ordered(g)
<1> DEFINE count == f.textCount
           item == Message(count)
           p == TurnPart("text", item, NoId, part.body, part.sig)
<1>0. f.parts \in Seq(RecordPart) /\ f.textCount \in Nat
  BY DEF Recording
<1>1. PICK n \in Nat : n = Len(f.parts)
  BY <1>0
<1>2. /\ g.parts = Append(f.parts, p) /\ g.order = Recorded(f.order, item)
      /\ g.calls = f.calls /\ g.bridge = f.bridge
      /\ g.textCount = count + 1 /\ Unthought(f, g) /\ count \in Nat
  BY DEF TextAdded, Unnamed, Recording
<1>3. p \in RecordPart /\ p.kind = "text" /\ p.item = item
  <2>1. item \in TurnItems /\ part.body \in Seq(Nat) /\ part.sig \in Sigs \cup {NoSig}
    BY <1>2 DEF AnyPart, TurnItems
  <2> HIDE DEF item
  <2> QED BY <2>1, TextTyped, TextWith
<1> HIDE DEF p
<1>4. /\ f.parts \in Seq(RecordPart) /\ DOMAIN f.parts = 1..n /\ DOMAIN g.parts = 1..(n + 1)
      /\ g.parts[n + 1] = p /\ \A x \in 1..n : g.parts[x] = f.parts[x]
  BY <1>0, <1>1, <1>2, <1>3
<1>5. \A x \in 1..n : /\ f.parts[x].kind = "call" => f.parts[x].item = CallItem(x - 1, f.parts[x].id)
                      /\ f.parts[x].kind # "call" => \E k \in 0..(count - 1) : f.parts[x].item = Message(k)
  BY <1>4 DEF Ordered, Named
<1>6. \A x \in 1..n : f.parts[x].item # item
  <2> SUFFICES ASSUME NEW x \in 1..n, f.parts[x].item = item PROVE FALSE
    OBVIOUS
  <2>1. CASE f.parts[x].kind = "call"
    BY <1>5, <2>1, NamesDiffer
  <2>2. CASE f.parts[x].kind # "call"
    <3>1. PICK k \in 0..(count - 1) : Message(count) = Message(k)
      BY <1>5, <2>2
    <3>2. count = k
      BY <3>1, NamesDiffer
    <3> QED BY <1>2, <3>2
  <2> QED BY <2>1, <2>2
<1>7. /\ Lists(g.order, ItemsOf(g.parts))
      /\ g.thought # <<>> => Contains(g.order, Reasoning)
      /\ g.hasThought <=> Contains(g.order, Reasoning)
  <2>1. p.item # Reasoning
    BY <1>3, NamesDiffer
  <2>2. \A x \in DOMAIN f.parts : f.parts[x].item # p.item
    BY <1>3, <1>4, <1>6
  <2> QED BY <1>2, <1>3, <2>1, <2>2, AddedListed
<1>8. /\ \A i \in 1..(n + 1) : i \in 1..n \/ i = n + 1
      /\ \A i \in 1..n : i \in 1..(n + 1)
      /\ \A k \in 0..(count - 1) : k \in 0..((count + 1) - 1)
      /\ count \in 0..((count + 1) - 1)
  BY <1>2
<1>9. \A x \in DOMAIN g.parts :
        IF g.parts[x].kind = "call" THEN g.parts[x].item = CallItem(x - 1, g.parts[x].id)
        ELSE \E k \in 0..(g.textCount - 1) : g.parts[x].item = Message(k)
  <2> SUFFICES ASSUME NEW x \in 1..(n + 1)
               PROVE  IF g.parts[x].kind = "call" THEN g.parts[x].item = CallItem(x - 1, g.parts[x].id)
                      ELSE \E k \in 0..((count + 1) - 1) : g.parts[x].item = Message(k)
    BY <1>2, <1>4
  <2>1. CASE x = n + 1
    BY <1>3, <1>4, <1>8, <2>1
  <2>2. CASE x # n + 1
    <3>1. x \in 1..n /\ g.parts[x] = f.parts[x]
      BY <1>4, <1>8, <2>2
    <3> QED BY <1>5, <1>8, <3>1
  <2> QED BY <2>1, <2>2
<1>10. \A x \in 1..n : x \in DOMAIN g.parts /\ g.parts[x] = f.parts[x]
  BY <1>4, <1>8
<1>11. \A x \in DOMAIN g.parts : g.parts[x].kind = "call" => x \in 1..n
  BY <1>3, <1>4, <1>8
<1>12. Named(f)
  BY DEF Ordered
<1>16. FirstCallLeads(g)
  BY <1>2, <1>4, <1>10, <1>11 DEF FirstCallLeads, Ordered
<1> HIDE DEF item, count
<1>20. /\ \A i \in DOMAIN f.calls :
            \E x \in DOMAIN f.parts : f.parts[x].kind = "call" /\ f.parts[x].item = f.calls[i]
       /\ \A x \in DOMAIN f.parts : f.parts[x].kind = "call" => Contains(f.calls, f.parts[x].item)
       /\ \A k \in DOMAIN f.bridge :
            \E x \in DOMAIN f.parts : f.parts[x].kind = "call" /\ f.parts[x].id = k /\ f.parts[x].item = f.bridge[k]
       /\ \A x \in DOMAIN f.parts : f.parts[x].kind = "call" /\ f.parts[x].id # NoId =>
            f.parts[x].id \in DOMAIN f.bridge /\ f.bridge[f.parts[x].id] = f.parts[x].item
  BY <1>12 DEF Named
<1>13. /\ \A i \in DOMAIN g.calls :
            \E x \in DOMAIN g.parts : g.parts[x].kind = "call" /\ g.parts[x].item = g.calls[i]
       /\ \A x \in DOMAIN g.parts : g.parts[x].kind = "call" => Contains(g.calls, g.parts[x].item)
  BY <1>2, <1>4, <1>10, <1>11, <1>20
<1>14. /\ \A k \in DOMAIN g.bridge :
            \E x \in DOMAIN g.parts : g.parts[x].kind = "call" /\ g.parts[x].id = k /\ g.parts[x].item = g.bridge[k]
       /\ \A x \in DOMAIN g.parts : g.parts[x].kind = "call" /\ g.parts[x].id # NoId =>
            g.parts[x].id \in DOMAIN g.bridge /\ g.bridge[g.parts[x].id] = g.parts[x].item
  BY <1>2, <1>4, <1>10, <1>11, <1>20
<1>15. Named(g)
  BY <1>9, <1>13, <1>14 DEF Named
<1> QED BY <1>7, <1>15, <1>16 DEF Ordered

(* Any part.                                                               *)
Taken(f, g, part) ==
  \/ part.kind = "thought" /\ ThoughtTaken(f, g, part)
  \/ part.kind = "call" /\ (CallAdded(f, g, part) \/ CallUpdated(f, g, part))
  \/ part.kind = "text" /\ part.body = <<>> /\ part.sig # NoSig /\ SignatureTaken(f, g, part)
  \/ part.kind = "text" /\ part.body = <<>> /\ part.sig = NoSig /\ g = f
  \/ part.kind = "text" /\ part.body # <<>> /\ (TextExtended(f, g, part) \/ TextAdded(f, g, part))

(* ProcessPart does one of them to any part, and the record stays in order.*)
LEMMA PartIsTaken ==
  ASSUME NEW a, Recording(a), Ordered(FlushPendingText(a)), NEW part \in AnyPart
  PROVE  LET b == ProcessPart(a, part)
             f == FlushPendingText(a)
             g == FlushPendingText(b)
         IN Recording(b) /\ Taken(f, g, part) /\ Ordered(g)
<1> DEFINE b == ProcessPart(a, part)
           f == FlushPendingText(a)
           g == FlushPendingText(b)
<1>1. Recording(f) /\ Ordered(f) /\ Named(f)
  BY FlushView DEF Ordered
<1>2. part.kind \in {"thought", "call", "text"}
  BY DEF AnyPart
<1>3. CASE part.kind = "thought"
  BY <1>1, <1>3, ThoughtIsTaken, ThoughtOrdered DEF Taken
<1>4. CASE part.kind = "call"
  <2>1. Recording(b) /\ (CallAdded(f, g, part) \/ CallUpdated(f, g, part))
    BY <1>1, <1>4, CallIsTaken
  <2> HIDE DEF b, f, g
  <2>2. Ordered(g)
    BY <1>1, <1>4, <2>1, CallAddedOrdered, UpdateOrdered
  <2> QED BY <1>4, <2>1, <2>2 DEF Taken, b, f, g
<1>5. CASE part.kind = "text" /\ part.body = <<>> /\ part.sig # NoSig
  <2>1. Recording(b) /\ SignatureTaken(f, g, part)
    BY <1>5, SignatureIsTaken
  <2> HIDE DEF b, f, g
  <2>2. Ordered(g)
    BY <1>1, <2>1, UpdateOrdered
  <2> QED BY <1>5, <2>1, <2>2 DEF Taken, b, f, g
<1>6. CASE part.kind = "text" /\ part.body = <<>> /\ part.sig = NoSig
  <2>1. b = a
    BY <1>6 DEF ProcessPart
  <2> QED BY <1>1, <1>6, <2>1 DEF Taken
<1>7. CASE part.kind = "text" /\ part.body # <<>>
  <2>1. Recording(b) /\ (TextExtended(f, g, part) \/ TextAdded(f, g, part))
    BY <1>7, TextIsTaken
  <2> HIDE DEF b, f, g
  <2>2. Ordered(g)
    BY <1>1, <2>1, TextAddedOrdered, UpdateOrdered
  <2> QED BY <1>7, <2>1, <2>2 DEF Taken, b, f, g
<1> QED BY <1>2, <1>3, <1>4, <1>5, <1>6, <1>7

-----------------------------------------------------------------------------
(* What one part more adds.                                                *)
Fresh(s, part) ==
  /\ DOMAIN s = 1..Len(s) /\ Len(s) \in Nat
  /\ DOMAIN Append(s, part) = 1..(Len(s) + 1)
  /\ Append(s, part)[Len(s) + 1] = part
  /\ \A k \in 1..Len(s) : Append(s, part)[k] = s[k]

(* A part more is one position more.                                       *)
LEMMA PartIsFresh ==
  ASSUME NEW s \in Seq(AnyPart), NEW part \in AnyPart
  PROVE  Fresh(s, part)
BY DEF Fresh

Adds(S, c, k) == IF c THEN S \cup {k} ELSE S

(* The positions of the texts, the lone signatures and a call's parts.     *)
LEMMA PositionsGrow ==
  ASSUME NEW s \in Seq(AnyPart), NEW part \in AnyPart
  PROVE  LET t == Append(s, part)
             n == Len(s) + 1
         IN /\ TextPieces(t) = Adds(TextPieces(s), part.kind = "text" /\ part.body # <<>>, n)
            /\ LoneSigs(t) = Adds(LoneSigs(s), part.kind = "text" /\ part.body = <<>> /\ part.sig # NoSig, n)
            /\ \A id : CallsFor(t, id) = Adds(CallsFor(s, id), part.kind = "call" /\ part.id = id, n)
            /\ TextPieces(s) \subseteq 1..Len(s) /\ LoneSigs(s) \subseteq 1..Len(s)
            /\ \A id : CallsFor(s, id) \subseteq 1..Len(s)
<1>1. PICK n \in Nat : n = Len(s)
  OBVIOUS
<1> DEFINE t == Append(s, part)
<1>2. /\ DOMAIN s = 1..n /\ DOMAIN t = 1..(n + 1) /\ t[n + 1] = part /\ \A k \in 1..n : t[k] = s[k]
  BY <1>1, PartIsFresh DEF Fresh
<1> HIDE DEF t
<1>3. /\ \A k \in 1..(n + 1) : k \in 1..n \/ k = n + 1
      /\ \A k \in 1..n : k \in 1..(n + 1)
      /\ n + 1 \in 1..(n + 1)
  OBVIOUS
<1>4. TextPieces(t) = Adds(TextPieces(s), part.kind = "text" /\ part.body # <<>>, n + 1)
  BY <1>2, <1>3 DEF TextPieces, Adds
<1>5. LoneSigs(t) = Adds(LoneSigs(s), part.kind = "text" /\ part.body = <<>> /\ part.sig # NoSig, n + 1)
  BY <1>2, <1>3 DEF LoneSigs, Adds
<1>6. \A id : CallsFor(t, id) = Adds(CallsFor(s, id), part.kind = "call" /\ part.id = id, n + 1)
  BY <1>2, <1>3 DEF CallsFor, Adds
<1>7. TextPieces(s) \subseteq 1..n /\ LoneSigs(s) \subseteq 1..n /\ \A id : CallsFor(s, id) \subseteq 1..n
  BY <1>2 DEF TextPieces, LoneSigs, CallsFor
<1> QED BY <1>1, <1>4, <1>5, <1>6, <1>7 DEF t

(* The last of some positions stays the last, and its signature the same.  *)
LEMMA LastKept ==
  ASSUME NEW s \in Seq(AnyPart), NEW part \in AnyPart, NEW S, S \subseteq 1..Len(s)
  PROVE  /\ \A sig : SignedLast(s, S, sig) => SignedLast(Append(s, part), S, sig)
         /\ SignedLast(Append(s, part), S \cup {Len(s) + 1}, part.sig)
         /\ SentLast(s, S \cup {Len(s) + 1}, <<Len(s) + 1>>)
         /\ SentLast(Append(s, part), S \cup {Len(s) + 1}, <<Len(s) + 1>>)
         /\ \A body : SentLast(s, S, body) => SentLast(Append(s, part), S, body)
<1>1. PICK n \in Nat : n = Len(s)
  OBVIOUS
<1> DEFINE t == Append(s, part)
<1>2. /\ DOMAIN s = 1..n /\ DOMAIN t = 1..(n + 1) /\ t[n + 1] = part /\ \A k \in 1..n : t[k] = s[k]
  BY <1>1, PartIsFresh DEF Fresh
<1> HIDE DEF t
<1>3. \A k \in S : k \in 1..n /\ k < n + 1
  BY <1>1
<1>4. \A sig : SignedLast(s, S, sig) => SignedLast(t, S, sig)
  BY <1>2, <1>3 DEF SignedLast
<1>5. \A k : Latest(S \cup {n + 1}, k) => k = n + 1
  <2> TAKE k
  <2> HAVE Latest(S \cup {n + 1}, k)
  <2>1. k \in S \cup {n + 1} /\ n + 1 <= k
    BY DEF Latest
  <2>2. CASE k \in S
    <3>1. k \in 1..n
      BY <1>3, <2>2
    <3> QED BY <2>1, <3>1
  <2> QED BY <2>1, <2>2
<1>6. SignedLast(t, S \cup {n + 1}, part.sig)
  BY <1>2, <1>5 DEF SignedLast
<1>7. /\ SentLast(s, S \cup {n + 1}, <<n + 1>>) /\ SentLast(t, S \cup {n + 1}, <<n + 1>>)
      /\ \A body : SentLast(s, S, body) => SentLast(t, S, body)
  BY <1>5 DEF SentLast
<1> QED BY <1>1, <1>4, <1>6, <1>7 DEF t

(* A text that is not extended is signed again by a signature on its own,  *)
(* if it has the last word.                                                *)
LEMMA SigningGrows ==
  ASSUME NEW s \in Seq(AnyPart), NEW part \in AnyPart, NEW body, ToSet(body) \subseteq TextPieces(s)
  PROVE  /\ Signing(Append(s, part), body)
              = Adds(Signing(s, body),
                     /\ part.kind = "text" /\ part.body = <<>> /\ part.sig # NoSig
                     /\ \E m \in ToSet(body) : \A j \in TextPieces(s) : j <= m,
                     Len(s) + 1)
         /\ Signing(s, body) \subseteq 1..Len(s)
<1>1. PICK n \in Nat : n = Len(s)
  OBVIOUS
<1> DEFINE t == Append(s, part)
           B == ToSet(body)
           word == part.kind = "text" /\ part.body # <<>>
           lone == part.kind = "text" /\ part.body = <<>> /\ part.sig # NoSig
           ends == \E m \in B : \A j \in TextPieces(s) : j <= m
           old == Signing(s, body)
           new == Signing(t, body)
<1>2. \A k \in 1..n : t[k] = s[k]
  BY <1>1, PartIsFresh DEF Fresh
<1>3. /\ TextPieces(t) = Adds(TextPieces(s), word, n + 1) /\ LoneSigs(t) = Adds(LoneSigs(s), lone, n + 1)
      /\ TextPieces(s) \subseteq 1..n /\ LoneSigs(s) \subseteq 1..n
  BY <1>1, PositionsGrow
<1>4. /\ old = {k \in TextPieces(s) : k \in B /\ s[k].sig # NoSig}
                \cup {k \in LoneSigs(s) : \E m \in B : m < k /\ \A j \in TextPieces(s) : j < k => j <= m}
      /\ new = {k \in TextPieces(t) : k \in B /\ t[k].sig # NoSig}
                \cup {k \in LoneSigs(t) : \E m \in B : m < k /\ \A j \in TextPieces(t) : j < k => j <= m}
  BY DEF Signing
<1>5. /\ \A k \in 1..n : k < n + 1 /\ ~(n + 1 < k) /\ k # n + 1
      /\ ~(n + 1 < n + 1)
  OBVIOUS
<1>6. B \subseteq 1..n /\ B \subseteq TextPieces(s) /\ n + 1 \notin B
  BY <1>3, <1>5
<1> HIDE DEF t, B, word, lone, ends, old, new
<1>7. \A k : k \in TextPieces(t) /\ k \in B /\ t[k].sig # NoSig <=> k \in TextPieces(s) /\ k \in B /\ s[k].sig # NoSig
  BY <1>2, <1>3, <1>6 DEF Adds
<1>8. \A k \in LoneSigs(s) :
        (\E m \in B : m < k /\ \A j \in TextPieces(t) : j < k => j <= m)
          <=> (\E m \in B : m < k /\ \A j \in TextPieces(s) : j < k => j <= m)
  BY <1>3, <1>5 DEF Adds
<1>9. lone => TextPieces(t) = TextPieces(s) /\ \A m \in B : m < n + 1 /\ \A j \in TextPieces(s) : j < n + 1
  BY <1>3, <1>5, <1>6 DEF Adds, lone, word
<1>10. lone => ((\E m \in B : m < n + 1 /\ \A j \in TextPieces(t) : j < n + 1 => j <= m) <=> ends)
  BY <1>9 DEF ends
<1>11. \A k : k \in new <=> k \in old \/ (lone /\ ends /\ k = n + 1)
  <2> TAKE k
  <2>1. CASE k \in TextPieces(t) /\ k \in B /\ t[k].sig # NoSig
    <3>1. k \in new
      BY <1>4, <2>1
    <3>2. k \in old
      BY <1>4, <1>7, <2>1
    <3> QED BY <3>1, <3>2
  <2>2. CASE ~(k \in TextPieces(t) /\ k \in B /\ t[k].sig # NoSig)
    <3>1. k \in new <=> k \in LoneSigs(t) /\ \E m \in B : m < k /\ \A j \in TextPieces(t) : j < k => j <= m
      BY <1>4, <2>2
    <3>2. k \in old <=> k \in LoneSigs(s) /\ \E m \in B : m < k /\ \A j \in TextPieces(s) : j < k => j <= m
      BY <1>4, <1>7, <2>2
    <3>3. CASE k \in LoneSigs(s)
      <4>1. k \in LoneSigs(t) /\ k # n + 1
        BY <1>3, <1>5, <3>3 DEF Adds
      <4> QED BY <1>8, <3>1, <3>2, <3>3, <4>1
    <3>4. CASE k \notin LoneSigs(s)
      <4>1. k \in LoneSigs(t) <=> lone /\ k = n + 1
        BY <1>3, <3>4 DEF Adds
      <4> QED BY <1>10, <3>1, <3>2, <3>4, <4>1
    <3> QED BY <3>3, <3>4
  <2> QED BY <2>1, <2>2
<1>12. new = Adds(old, lone /\ ends, n + 1)
  BY <1>11 DEF Adds
<1>13. old \subseteq 1..n
  BY <1>3, <1>4
<1> QED BY <1>1, <1>12, <1>13 DEF t, B, lone, ends, old, new

(* A text that is extended is signed by the new piece, if that has a       *)
(* signature.                                                              *)
LEMMA SigningExtended ==
  ASSUME NEW s \in Seq(AnyPart), NEW part \in AnyPart, part.kind = "text", part.body # <<>>,
         NEW body, ToSet(body) \subseteq TextPieces(s), NEW more, ToSet(more) = ToSet(body) \cup {Len(s) + 1}
  PROVE  Signing(Append(s, part), more) = Adds(Signing(s, body), part.sig # NoSig, Len(s) + 1)
<1>1. PICK n \in Nat : n = Len(s)
  OBVIOUS
<1> DEFINE t == Append(s, part)
           B == ToSet(body)
           M == ToSet(more)
           old == Signing(s, body)
           new == Signing(t, more)
<1>2. t[n + 1] = part /\ \A k \in 1..n : t[k] = s[k]
  BY <1>1, PartIsFresh DEF Fresh
<1>3. /\ TextPieces(t) = TextPieces(s) \cup {n + 1} /\ LoneSigs(t) = LoneSigs(s)
      /\ TextPieces(s) \subseteq 1..n /\ LoneSigs(s) \subseteq 1..n
  BY <1>1, PositionsGrow DEF Adds
<1>4. /\ old = {k \in TextPieces(s) : k \in B /\ s[k].sig # NoSig}
                \cup {k \in LoneSigs(s) : \E m \in B : m < k /\ \A j \in TextPieces(s) : j < k => j <= m}
      /\ new = {k \in TextPieces(t) : k \in M /\ t[k].sig # NoSig}
                \cup {k \in LoneSigs(t) : \E m \in M : m < k /\ \A j \in TextPieces(t) : j < k => j <= m}
  BY DEF Signing
<1>5. /\ \A k \in 1..n : k < n + 1 /\ ~(n + 1 < k) /\ k # n + 1
  OBVIOUS
<1>6. M = B \cup {n + 1}
  BY <1>1
<1> HIDE DEF t, B, M, old, new
<1>7. \A k : k \in TextPieces(t) /\ k \in M /\ t[k].sig # NoSig
              <=> (k \in TextPieces(s) /\ k \in B /\ s[k].sig # NoSig) \/ (k = n + 1 /\ part.sig # NoSig)
  <2>1. \A k \in TextPieces(s) : k \in 1..n /\ k # n + 1 /\ t[k] = s[k]
    BY <1>2, <1>3, <1>5
  <2>2. B \subseteq TextPieces(s)
    BY DEF B
  <2> QED BY <1>2, <1>3, <1>6, <2>1, <2>2
<1>8. \A k \in LoneSigs(s) :
        (\E m \in M : m < k /\ \A j \in TextPieces(t) : j < k => j <= m)
          <=> (\E m \in B : m < k /\ \A j \in TextPieces(s) : j < k => j <= m)
  <2> TAKE k \in LoneSigs(s)
  <2>1. ~(n + 1 < k)
    BY <1>3, <1>5
  <2> QED BY <1>3, <1>6, <2>1
<1>9. \A k : k \in new <=> k \in old \/ (part.sig # NoSig /\ k = n + 1)
  <2> TAKE k
  <2>1. k \in LoneSigs(s) => k # n + 1
    BY <1>3, <1>5
  <2>2. k \in new <=> \/ k \in TextPieces(t) /\ k \in M /\ t[k].sig # NoSig
                      \/ k \in LoneSigs(s) /\ \E m \in M : m < k /\ \A j \in TextPieces(t) : j < k => j <= m
    BY <1>3, <1>4
  <2>3. k \in old <=> \/ k \in TextPieces(s) /\ k \in B /\ s[k].sig # NoSig
                      \/ k \in LoneSigs(s) /\ \E m \in B : m < k /\ \A j \in TextPieces(s) : j < k => j <= m
    BY <1>4
  <2> QED BY <1>7, <1>8, <2>2, <2>3
<1>10. new = Adds(old, part.sig # NoSig, n + 1)
  <2>1. CASE part.sig = NoSig
    <3>1. \A k : k \in new <=> k \in old
      BY <1>9, <2>1
    <3> QED BY <2>1, <3>1 DEF Adds
  <2>2. CASE part.sig # NoSig
    <3>1. \A k : k \in new <=> k \in old \cup {n + 1}
      BY <1>9, <2>2
    <3> QED BY <2>2, <3>1 DEF Adds
  <2> QED BY <2>1, <2>2
<1> QED BY <1>1, <1>10 DEF t, B, M, old, new

(* The same texts, and no part for them.                                   *)
SameTexts(p, q) ==
  /\ \A x \in DOMAIN p : p[x].kind = "text" =>
       x \in DOMAIN q /\ q[x].kind = "text" /\ q[x].body = p[x].body /\ q[x].sig = p[x].sig
  /\ \A x \in DOMAIN q : q[x].kind = "text" => x \in DOMAIN p /\ p[x].kind = "text"

(* They stay right with a part that is none for them.                      *)
LEMMA TextsKept ==
  ASSUME NEW s \in Seq(AnyPart), NEW part \in AnyPart,
         part.kind # "text" \/ (part.body = <<>> /\ part.sig = NoSig),
         NEW p, TextsRight(p, s), NEW q, SameTexts(p, q)
  PROVE  TextsRight(q, Append(s, part))
<1> DEFINE t == Append(s, part)
<1>1. TextPieces(t) = TextPieces(s)
  BY PositionsGrow DEF Adds
<1>2. /\ \A x \in DOMAIN p : p[x].kind = "text" =>
           /\ p[x].body # <<>> /\ Rising(p[x].body) /\ ToSet(p[x].body) \subseteq TextPieces(s)
           /\ SignedLast(s, Signing(s, p[x].body), p[x].sig)
      /\ \A k \in TextPieces(s) : \E x \in DOMAIN p : p[x].kind = "text" /\ k \in ToSet(p[x].body)
      /\ \A x, y \in DOMAIN p : p[x].kind = "text" /\ p[y].kind = "text" /\ x < y =>
           \A k \in ToSet(p[x].body), l \in ToSet(p[y].body) : k < l
  BY DEF TextsRight
<1>3. \A x \in DOMAIN p : p[x].kind = "text" => SignedLast(t, Signing(t, p[x].body), p[x].sig)
  <2> TAKE x \in DOMAIN p
  <2> HAVE p[x].kind = "text"
  <2>1. Signing(t, p[x].body) = Signing(s, p[x].body) /\ Signing(s, p[x].body) \subseteq 1..Len(s)
    BY <1>2, SigningGrows DEF Adds
  <2>2. SignedLast(s, Signing(s, p[x].body), p[x].sig)
    BY <1>2
  <2> QED BY <2>1, <2>2, LastKept
<1> HIDE DEF t
<1>4. /\ \A x \in DOMAIN q : q[x].kind = "text" =>
           x \in DOMAIN p /\ p[x].kind = "text" /\ q[x].body = p[x].body /\ q[x].sig = p[x].sig
      /\ \A x \in DOMAIN p : p[x].kind = "text" =>
           x \in DOMAIN q /\ q[x].kind = "text" /\ q[x].body = p[x].body
  BY DEF SameTexts
<1>5. \A x \in DOMAIN q : q[x].kind = "text" =>
        /\ q[x].body # <<>> /\ Rising(q[x].body) /\ ToSet(q[x].body) \subseteq TextPieces(t)
        /\ SignedLast(t, Signing(t, q[x].body), q[x].sig)
  BY <1>1, <1>2, <1>3, <1>4
<1>6. \A k \in TextPieces(t) : \E x \in DOMAIN q : q[x].kind = "text" /\ k \in ToSet(q[x].body)
  <2> TAKE k \in TextPieces(t)
  <2>1. PICK x \in DOMAIN p : p[x].kind = "text" /\ k \in ToSet(p[x].body)
    BY <1>1, <1>2
  <2> QED BY <1>4, <2>1
<1>7. \A x, y \in DOMAIN q : q[x].kind = "text" /\ q[y].kind = "text" /\ x < y =>
        \A k \in ToSet(q[x].body), l \in ToSet(q[y].body) : k < l
  BY <1>2, <1>4
<1> QED BY <1>5, <1>6, <1>7 DEF TextsRight, t

(* The last text has the last word, and no other has.                      *)
LEMMA LastWord ==
  ASSUME NEW s \in Seq(AnyPart), NEW p \in Seq(RecordPart), TextsRight(p, s),
         NEW x \in DOMAIN p, p[x].kind = "text"
  PROVE  x \in SignatureTarget(p) <=> \E m \in ToSet(p[x].body) : \A j \in TextPieces(s) : j <= m
<1>1. PICK n \in Nat : n = Len(s)
  OBVIOUS
<1>2. TextPieces(s) \subseteq 1..n
  BY <1>1, PositionsGrow, PartIsFresh DEF TextPieces
<1>3. /\ \A y \in DOMAIN p : p[y].kind = "text" => p[y].body # <<>> /\ ToSet(p[y].body) \subseteq TextPieces(s)
      /\ \A k \in TextPieces(s) : \E y \in DOMAIN p : p[y].kind = "text" /\ k \in ToSet(p[y].body)
      /\ \A y, z \in DOMAIN p : p[y].kind = "text" /\ p[z].kind = "text" /\ y < z =>
           \A k \in ToSet(p[y].body), l \in ToSet(p[z].body) : k < l
  BY DEF TextsRight
<1>4. \A y \in DOMAIN p : p[y].kind = "text" => \E k \in ToSet(p[y].body) : k \in TextPieces(s)
  <2> TAKE y \in DOMAIN p
  <2> HAVE p[y].kind = "text"
  <2>0. p[y] \in RecordPart
    OBVIOUS
  <2>1. p[y].body \in Seq(Nat) /\ p[y].body # <<>>
    BY <1>3, <2>0 DEF RecordPart
  <2> DEFINE b == p[y].body
  <2> HIDE DEF b
  <2>2. 1 \in DOMAIN b /\ b[1] \in ToSet(b)
    BY <2>1 DEF b, ToSet
  <2> QED BY <1>3, <2>2 DEF b
<1>5. DOMAIN p \subseteq Nat
  OBVIOUS
<1>6. ASSUME x \in SignatureTarget(p)
      PROVE  \E m \in ToSet(p[x].body) : \A j \in TextPieces(s) : j <= m
  <2>1. TextPieces(s) # {}
    BY <1>4
  <2>2. Max(TextPieces(s)) \in TextPieces(s) /\ \A j \in TextPieces(s) : j <= Max(TextPieces(s))
    BY <1>2, <2>1, MaxOfPositions
  <2>3. PICK m \in TextPieces(s) : \A j \in TextPieces(s) : j <= m
    BY <2>2
  <2>4. PICK y \in DOMAIN p : p[y].kind = "text" /\ m \in ToSet(p[y].body)
    BY <1>3, <2>3
  <2>5. ~(y > x)
    BY <1>6, <2>4 DEF SignatureTarget
  <2>6. ~(y < x)
    <3> SUFFICES ASSUME y < x PROVE FALSE
      OBVIOUS
    <3>1. PICK l \in ToSet(p[x].body) : l \in TextPieces(s)
      BY <1>4
    <3>2. m < l /\ l <= m
      BY <1>3, <2>3, <2>4, <3>1
    <3>3. l \in Nat /\ m \in Nat
      BY <1>2, <2>3, <3>1
    <3> QED BY <3>2, <3>3
  <2>7. y = x
    BY <1>5, <2>4, <2>5, <2>6
  <2> QED BY <2>3, <2>4, <2>7
<1>7. ASSUME NEW m \in ToSet(p[x].body), \A j \in TextPieces(s) : j <= m
      PROVE  x \in SignatureTarget(p)
  <2> SUFFICES ASSUME NEW y \in DOMAIN p, y > x, p[y].kind = "text" PROVE FALSE
    BY DEF SignatureTarget
  <2>1. PICK l \in ToSet(p[y].body) : l \in TextPieces(s)
    BY <1>4
  <2>2. x < y
    BY <1>5
  <2>3. m < l /\ l <= m
    BY <1>3, <1>7, <2>1, <2>2
  <2>4. m \in TextPieces(s)
    BY <1>3
  <2>5. \A k \in TextPieces(s) : k \in Nat
    BY <1>2
  <2>6. l \in Nat /\ m \in Nat
    BY <2>1, <2>4, <2>5
  <2> QED BY <2>3, <2>6
<1> QED BY <1>6, <1>7

(* A signature on its own goes to the text it is for.                      *)
LEMMA SignatureRight ==
  ASSUME NEW s \in Seq(AnyPart), NEW part \in AnyPart, part.kind = "text", part.body = <<>>,
         part.sig # NoSig, NEW f, Recording(f), TextsRight(f.parts, s), NEW g, SignatureTaken(f, g, part)
  PROVE  TextsRight(g.parts, Append(s, part))
<1> DEFINE t == Append(s, part)
           p == f.parts
           q == g.parts
           target == SignatureTarget(p)
           n == Len(s) + 1
<1>1. TextPieces(t) = TextPieces(s)
  BY PositionsGrow DEF Adds
<1>2. /\ \A x \in DOMAIN p : p[x].kind = "text" =>
           /\ p[x].body # <<>> /\ Rising(p[x].body) /\ ToSet(p[x].body) \subseteq TextPieces(s)
           /\ SignedLast(s, Signing(s, p[x].body), p[x].sig)
      /\ \A k \in TextPieces(s) : \E x \in DOMAIN p : p[x].kind = "text" /\ k \in ToSet(p[x].body)
      /\ \A x, y \in DOMAIN p : p[x].kind = "text" /\ p[y].kind = "text" /\ x < y =>
           \A k \in ToSet(p[x].body), l \in ToSet(p[y].body) : k < l
  BY DEF TextsRight
<1>3. p \in Seq(RecordPart) /\ \A x \in DOMAIN p : p[x] \in RecordPart
  BY DEF Recording
<1>4. q = [i \in DOMAIN p |-> IF i \in target THEN [p[i] EXCEPT !.sig = part.sig] ELSE p[i]]
  BY DEF SignatureTaken
<1> HIDE DEF t, p, q, target, n
<1>5. DOMAIN q = DOMAIN p
  BY <1>4
<1>6. \A x \in DOMAIN p : /\ q[x].kind = p[x].kind /\ q[x].body = p[x].body
                          /\ q[x].sig = IF x \in target THEN part.sig ELSE p[x].sig
  <2> TAKE x \in DOMAIN p
  <2> DEFINE a == p[x]
             b == [a EXCEPT !.sig = part.sig]
  <2>1. b.kind = a.kind /\ b.body = a.body /\ b.sig = part.sig
    BY <1>3, PartChanges
  <2>2. q[x] = IF x \in target THEN b ELSE a
    BY <1>4
  <2> HIDE DEF a, b
  <2>3. q[x].kind = a.kind /\ q[x].body = a.body /\ q[x].sig = IF x \in target THEN part.sig ELSE a.sig
    BY <2>1, <2>2
  <2> QED BY <2>3 DEF a
<1>7. \A x \in DOMAIN p : p[x].kind = "text" => SignedLast(t, Signing(t, q[x].body), q[x].sig)
  <2> TAKE x \in DOMAIN p
  <2> HAVE p[x].kind = "text"
  <2> DEFINE S == Signing(s, p[x].body)
             ends == \E m \in ToSet(p[x].body) : \A j \in TextPieces(s) : j <= m
  <2>1. Signing(t, p[x].body) = Adds(S, ends, n) /\ S \subseteq 1..Len(s)
    BY <1>2, SigningGrows DEF t, n
  <2>2. x \in target <=> ends
    BY <1>2, <1>3, LastWord DEF target, p
  <2>3. SignedLast(s, S, p[x].sig)
    BY <1>2
  <2> HIDE DEF S, ends
  <2>4. SignedLast(t, S, p[x].sig) /\ SignedLast(t, S \cup {n}, part.sig)
    BY <2>1, <2>3, LastKept DEF t, n
  <2> QED BY <1>6, <2>1, <2>2, <2>4 DEF Adds
<1>8. \A x \in DOMAIN q : q[x].kind = "text" =>
        /\ q[x].body # <<>> /\ Rising(q[x].body) /\ ToSet(q[x].body) \subseteq TextPieces(t)
        /\ SignedLast(t, Signing(t, q[x].body), q[x].sig)
  BY <1>1, <1>2, <1>5, <1>6, <1>7
<1>9. \A k \in TextPieces(t) : \E x \in DOMAIN q : q[x].kind = "text" /\ k \in ToSet(q[x].body)
  <2> TAKE k \in TextPieces(t)
  <2>1. PICK x \in DOMAIN p : p[x].kind = "text" /\ k \in ToSet(p[x].body)
    BY <1>1, <1>2
  <2> QED BY <1>5, <1>6, <2>1
<1>10. \A x, y \in DOMAIN q : q[x].kind = "text" /\ q[y].kind = "text" /\ x < y =>
         \A k \in ToSet(q[x].body), l \in ToSet(q[y].body) : k < l
  BY <1>2, <1>5, <1>6
<1> QED BY <1>8, <1>9, <1>10 DEF TextsRight, t, q

(* One piece more, behind those there are.                                 *)
LEMMA PieceBehind ==
  ASSUME NEW n \in Nat, NEW body \in Seq(Nat), ToSet(body) \subseteq 1..n, Rising(body)
  PROVE  /\ Rising(body \o <<n + 1>>) /\ ToSet(body \o <<n + 1>>) = ToSet(body) \cup {n + 1}
         /\ body \o <<n + 1>> # <<>>
<1>1. PICK m \in Nat : m = Len(body)
  OBVIOUS
<1> DEFINE b == body \o <<n + 1>>
<1>2. <<n + 1>> \in Seq(Nat) /\ Len(<<n + 1>>) = 1 /\ <<n + 1>>[1] = n + 1
  OBVIOUS
<1>3. /\ b \in Seq(Nat) /\ Len(b) = m + 1 /\ \A i \in 1..m : b[i] = body[i]
      /\ \A i \in (m + 1)..(m + 1) : b[i] = <<n + 1>>[i - m]
  BY <1>1, <1>2, ConcatProperties
<1>4. b[m + 1] = n + 1 /\ DOMAIN b = 1..(m + 1) /\ DOMAIN body = 1..m
  <2>1. m + 1 \in (m + 1)..(m + 1) /\ (m + 1) - m = 1
    OBVIOUS
  <2>2. b[m + 1] = <<n + 1>>[1]
    BY <1>3, <2>1
  <2> HIDE DEF b
  <2> QED BY <1>1, <1>2, <1>3, <2>2
<1> HIDE DEF b
<1>5. \A i \in 1..m : body[i] \in 1..n
  BY <1>4 DEF ToSet
<1>6. /\ \A i \in 1..(m + 1) : i \in 1..m \/ i = m + 1
      /\ \A i \in 1..m : i \in 1..(m + 1) /\ ~(m + 1 < i)
      /\ \A k \in 1..n : k < n + 1
      /\ m + 1 \in 1..(m + 1) /\ ~(m + 1 < m + 1)
  OBVIOUS
<1>7. Rising(b)
  <2> SUFFICES ASSUME NEW i \in 1..(m + 1), NEW j \in 1..(m + 1), i < j PROVE b[i] < b[j]
    BY <1>4 DEF Rising
  <2>1. i \in 1..m /\ b[i] = body[i]
    BY <1>3, <1>6
  <2>2. CASE j = m + 1
    BY <1>4, <1>5, <1>6, <2>1, <2>2
  <2>3. CASE j # m + 1
    <3>1. j \in 1..m /\ b[j] = body[j]
      BY <1>3, <1>6, <2>3
    <3> QED BY <1>4, <2>1, <3>1 DEF Rising
  <2> QED BY <2>2, <2>3
<1>8. \A k : k \in ToSet(b) <=> k \in ToSet(body) \/ k = n + 1
  <2> TAKE k
  <2>1. k \in ToSet(b) <=> \E i \in 1..(m + 1) : b[i] = k
    BY <1>4 DEF ToSet
  <2>2. k \in ToSet(body) <=> \E i \in 1..m : body[i] = k
    BY <1>4 DEF ToSet
  <2> QED BY <1>3, <1>4, <1>6, <2>1, <2>2
<1>9. b # <<>>
  BY <1>3
<1> QED BY <1>7, <1>8, <1>9 DEF b

(* A piece goes to the last text, old as long as it was.                   *)
LEMMA WordRight ==
  ASSUME NEW s \in Seq(AnyPart), NEW part \in AnyPart, part.kind = "text", part.body # <<>>,
         NEW p, TextsRight(p, s), DOMAIN p \subseteq Nat,
         NEW q, NEW last \in DOMAIN q, NEW old \in Seq(Nat),
         last \in Nat, q[last].kind = "text", q[last].body = old \o <<Len(s) + 1>>, q[last].sig = part.sig,
         \/ last \notin DOMAIN p /\ old = <<>>
         \/ last \in DOMAIN p /\ p[last].kind = "text" /\ p[last].body = old /\ p[last].sig = part.sig,
         \A x \in DOMAIN q : x # last => x \in DOMAIN p /\ x < last /\ q[x] = p[x],
         DOMAIN p \subseteq DOMAIN q
  PROVE  TextsRight(q, Append(s, part))
<1> DEFINE t == Append(s, part)
           new == Len(s) + 1
           more == old \o <<new>>
<1>1. PICK n \in Nat : n = Len(s)
  OBVIOUS
<1>2. /\ \A x \in DOMAIN p : p[x].kind = "text" =>
           /\ p[x].body # <<>> /\ Rising(p[x].body) /\ ToSet(p[x].body) \subseteq TextPieces(s)
           /\ SignedLast(s, Signing(s, p[x].body), p[x].sig)
      /\ \A k \in TextPieces(s) : \E x \in DOMAIN p : p[x].kind = "text" /\ k \in ToSet(p[x].body)
      /\ \A x, y \in DOMAIN p : p[x].kind = "text" /\ p[y].kind = "text" /\ x < y =>
           \A k \in ToSet(p[x].body), l \in ToSet(p[y].body) : k < l
  BY DEF TextsRight
<1>3. TextPieces(t) = TextPieces(s) \cup {new} /\ TextPieces(s) \subseteq 1..n /\ new = n + 1
  BY <1>1, PositionsGrow DEF Adds
<1>4. ToSet(old) \subseteq TextPieces(s) /\ Rising(old)
  <2>1. CASE old = <<>>
    BY <2>1 DEF ToSet, Rising
  <2>2. CASE old # <<>>
    BY <1>2, <2>2
  <2> QED BY <2>1, <2>2
<1>5. Rising(more) /\ ToSet(more) = ToSet(old) \cup {new} /\ more # <<>>
  <2>1. ToSet(old) \subseteq 1..n
    BY <1>3, <1>4
  <2> QED BY <1>1, <1>4, <2>1, PieceBehind
<1>6. Signing(t, more) = Adds(Signing(s, old), part.sig # NoSig, new) /\ Signing(s, old) \subseteq 1..Len(s)
  <2>1. ToSet(more) = ToSet(old) \cup {Len(s) + 1}
    BY <1>5
  <2> HIDE DEF more
  <2>2. Signing(t, more) = Adds(Signing(s, old), part.sig # NoSig, new)
    BY <1>4, <2>1, SigningExtended
  <2>3. Signing(s, old) \subseteq 1..Len(s)
    BY <1>4, SigningGrows
  <2> QED BY <2>2, <2>3
<1>7. part.sig = NoSig => SignedLast(s, Signing(s, old), NoSig)
  <2> HAVE part.sig = NoSig
  <2>1. CASE last \notin DOMAIN p
    <3>1. ToSet(old) = {}
      BY <2>1 DEF ToSet
    <3>2. Signing(s, old) = {}
      BY <3>1 DEF Signing
    <3> QED BY <3>2 DEF SignedLast
  <2>2. CASE last \in DOMAIN p
    BY <1>2, <2>2
  <2> QED BY <2>1, <2>2
<1>8. SignedLast(t, Signing(t, more), part.sig)
  <2>1. CASE part.sig = NoSig
    BY <1>6, <1>7, <2>1, LastKept DEF Adds
  <2>2. CASE part.sig # NoSig
    BY <1>6, <2>2, LastKept DEF Adds
  <2> QED BY <2>1, <2>2
<1>9. \A x \in DOMAIN p : p[x].kind = "text" => SignedLast(t, Signing(t, p[x].body), p[x].sig)
  <2> TAKE x \in DOMAIN p
  <2> HAVE p[x].kind = "text"
  <2>1. Signing(t, p[x].body) = Signing(s, p[x].body) /\ Signing(s, p[x].body) \subseteq 1..Len(s)
    BY <1>2, SigningGrows DEF Adds
  <2>2. SignedLast(s, Signing(s, p[x].body), p[x].sig)
    BY <1>2
  <2> QED BY <2>1, <2>2, LastKept
<1> DEFINE B == ToSet(old)
           M == ToSet(q[last].body)
<1>10. M = B \cup {new} /\ B \subseteq TextPieces(s)
  BY <1>4, <1>5
<1>11. /\ q[last].body # <<>> /\ Rising(q[last].body)
       /\ SignedLast(t, Signing(t, q[last].body), q[last].sig)
  BY <1>5, <1>8
<1> HIDE DEF t, new, more, B, M
<1>12. \A x \in DOMAIN q : q[x].kind = "text" =>
         /\ q[x].body # <<>> /\ Rising(q[x].body) /\ ToSet(q[x].body) \subseteq TextPieces(t)
         /\ SignedLast(t, Signing(t, q[x].body), q[x].sig)
  <2> TAKE x \in DOMAIN q
  <2> HAVE q[x].kind = "text"
  <2>1. CASE x = last
    <3>1. M \subseteq TextPieces(t)
      BY <1>3, <1>10
    <3> QED BY <1>11, <2>1, <3>1 DEF M
  <2>2. CASE x # last
    <3>1. x \in DOMAIN p /\ q[x] = p[x] /\ p[x].kind = "text"
      BY <2>2
    <3>2. ToSet(p[x].body) \subseteq TextPieces(t)
      BY <1>2, <1>3, <3>1
    <3> QED BY <1>2, <1>9, <3>1, <3>2
  <2> QED BY <2>1, <2>2
<1>13. \A k \in TextPieces(t) : \E x \in DOMAIN q : q[x].kind = "text" /\ k \in ToSet(q[x].body)
  <2> TAKE k \in TextPieces(t)
  <2>1. CASE k = new
    BY <1>10, <2>1 DEF M
  <2>2. CASE k # new
    <3>1. PICK x \in DOMAIN p : p[x].kind = "text" /\ k \in ToSet(p[x].body)
      BY <1>2, <1>3, <2>2
    <3>2. CASE x = last
      <4>1. k \in B
        BY <3>1, <3>2 DEF B
      <4> QED BY <1>10, <4>1 DEF M
    <3>3. CASE x # last
      <4>1. x \in DOMAIN q /\ q[x] = p[x]
        BY <3>3
      <4> QED BY <3>1, <4>1
    <3> QED BY <3>2, <3>3
  <2> QED BY <2>1, <2>2
<1>14. ASSUME NEW x \in DOMAIN q, NEW y \in DOMAIN q, q[x].kind = "text", q[y].kind = "text", x < y,
              NEW k \in ToSet(q[x].body), NEW l \in ToSet(q[y].body)
       PROVE  k < l
  <2>0. x \in Nat /\ y \in Nat /\ last \in Nat
    <3>1. last \in Nat \/ x = last \/ y = last
      BY <1>14
    <3>2. x # last => x \in DOMAIN p /\ x < last
      OBVIOUS
    <3>3. y # last => y \in DOMAIN p /\ y < last
      OBVIOUS
    <3>4. last \in Nat
      OBVIOUS
    <3> QED BY <3>2, <3>3, <3>4
  <2>1. x # last
    <3> SUFFICES ASSUME x = last PROVE FALSE
      OBVIOUS
    <3>1. y # last /\ y < last
      BY <1>14, <2>0
    <3> QED BY <1>14, <2>0, <3>1
  <2>2. x \in DOMAIN p /\ q[x] = p[x] /\ p[x].kind = "text" /\ k \in ToSet(p[x].body)
    BY <1>14, <2>1
  <2>3. CASE y # last
    <3>1. y \in DOMAIN p /\ q[y] = p[y]
      BY <2>3
    <3> QED BY <1>2, <1>14, <2>2, <3>1
  <2>4. CASE y = last /\ l \in B
    <3>1. last \in DOMAIN p /\ p[last].kind = "text" /\ p[last].body = old
      BY <2>4 DEF B, ToSet
    <3> QED BY <1>2, <1>14, <2>2, <2>4, <3>1 DEF B
  <2>5. CASE y = last /\ l = new
    <3>1. k \in 1..n
      BY <1>2, <1>3, <2>2
    <3> QED BY <1>3, <2>5, <3>1
  <2> QED BY <1>10, <1>14, <2>3, <2>4, <2>5 DEF M
<1> QED BY <1>12, <1>13, <1>14 DEF TextsRight, t

(* A text is right, extended or new.                                       *)
LEMMA TextRight ==
  ASSUME NEW s \in Seq(AnyPart), NEW part \in AnyPart, part.kind = "text", part.body = <<Len(s) + 1>>,
         NEW f, Recording(f), TextsRight(f.parts, s), NEW g,
         TextExtended(f, g, part) \/ TextAdded(f, g, part)
  PROVE  TextsRight(g.parts, Append(s, part))
<1> DEFINE p == f.parts
           q == g.parts
<1>1. PICK n \in Nat : n = Len(p)
  BY DEF Recording
<1>2. p \in Seq(RecordPart) /\ DOMAIN p = 1..n /\ \A x \in DOMAIN p : p[x] \in RecordPart
  BY <1>1 DEF Recording
<1>3. part.body # <<>> /\ part.sig \in Sigs \cup {NoSig} /\ part.body \in Seq(Nat)
  <2>1. part.body \in Seq(Nat) /\ part.sig \in Sigs \cup {NoSig}
    BY DEF AnyPart
  <2>2. Len(part.body) = 1
    OBVIOUS
  <2> QED BY <2>1, <2>2
<1>4. CASE TextExtended(f, g, part)
  <2> DEFINE a == p[n]
             old == a.body
             b == [a EXCEPT !.body = old \o part.body]
  <2>1. n > 0 /\ a.kind = "text" /\ a.sig = part.sig /\ n \in DOMAIN p
    BY <1>1, <1>2, <1>4 DEF TextExtended
  <2>2. q = [i \in DOMAIN p |-> IF i = n THEN [p[i] EXCEPT !.body = p[i].body \o part.body] ELSE p[i]]
    BY <1>1, <1>4 DEF TextExtended
  <2>3. a \in RecordPart /\ old \in Seq(Nat)
    <3>1. a \in RecordPart
      BY <1>2, <2>1
    <3> HIDE DEF a
    <3> QED BY <3>1 DEF RecordPart
  <2>4. q[n] = b /\ DOMAIN q = DOMAIN p /\ \A x \in DOMAIN p : x # n => q[x] = p[x]
    BY <2>1, <2>2
  <2> HIDE DEF p, q, a
  <2>5. b.kind = "text" /\ b.sig = part.sig /\ b.body = old \o part.body
    BY <2>1, <2>3, PartChanges
  <2> HIDE DEF b
  <2>6. q[n].kind = "text" /\ q[n].sig = part.sig /\ q[n].body = old \o <<Len(s) + 1>>
    BY <2>4, <2>5
  <2>7. \A x \in DOMAIN q : x # n => x \in DOMAIN p /\ x < n /\ q[x] = p[x]
    <3>1. \A x \in 1..n : x # n => x < n
      OBVIOUS
    <3> QED BY <1>2, <2>4, <3>1
  <2>8. TextsRight(p, s) /\ DOMAIN p \subseteq Nat
    BY <1>2 DEF p
  <2>9. p[n].kind = "text" /\ p[n].body = old /\ p[n].sig = part.sig
    BY <2>1 DEF a
  <2> HIDE DEF old
  <2>10. TextsRight(q, Append(s, part))
    BY <1>3, <2>1, <2>3, <2>4, <2>6, <2>7, <2>8, <2>9, WordRight
  <2> QED BY <2>10 DEF q
<1>5. CASE TextAdded(f, g, part)
  <2> DEFINE item == Message(f.textCount)
             a == TurnPart("text", item, NoId, part.body, part.sig)
  <2>1. q = Append(p, a)
    BY <1>5 DEF TextAdded
  <2>2. a \in RecordPart /\ a.kind = "text" /\ a.body = part.body /\ a.sig = part.sig
    <3>1. item \in TurnItems
      BY DEF Recording, TurnItems
    <3> HIDE DEF item
    <3>2. a \in RecordPart
      BY <1>3, <3>1, TextTyped
    <3>3. a.kind = "text" /\ a.body = part.body /\ a.sig = part.sig
      BY TextWith
    <3> QED BY <3>2, <3>3
  <2> HIDE DEF a, p, q
  <2>3. DOMAIN q = 1..(n + 1) /\ q[n + 1] = a /\ \A x \in 1..n : q[x] = p[x]
    BY <1>1, <1>2, <2>1, <2>2
  <2>4. part.body = <<>> \o <<Len(s) + 1>> /\ <<>> \in Seq(Nat)
    OBVIOUS
  <2>5. \A x \in DOMAIN q : x # n + 1 => x \in DOMAIN p /\ x < n + 1 /\ q[x] = p[x]
    <3>1. \A x \in 1..(n + 1) : x # n + 1 => x \in 1..n /\ x < n + 1
      OBVIOUS
    <3> QED BY <1>2, <2>3, <3>1
  <2>6. n + 1 \in DOMAIN q /\ n + 1 \notin DOMAIN p /\ n + 1 \in Nat /\ DOMAIN p \subseteq DOMAIN q /\ DOMAIN p \subseteq Nat
    BY <1>2, <2>3
  <2>7. TextsRight(p, s)
    BY DEF p
  <2>8. q[n + 1].kind = "text" /\ q[n + 1].sig = part.sig /\ q[n + 1].body = <<>> \o <<Len(s) + 1>>
    BY <2>2, <2>3, <2>4
  <2>9. TextsRight(q, Append(s, part))
    BY <1>3, <2>4, <2>5, <2>6, <2>7, <2>8, WordRight
  <2> QED BY <2>9 DEF q
<1> QED BY <1>4, <1>5

(* The parts that name a call, with a signature or with arguments.         *)
SigsSent(s, id) == {k \in CallsFor(s, id) : s[k].sig # NoSig}
ArgsSent(s, id) == {k \in CallsFor(s, id) : s[k].body # <<>>}

(* They grow with the parts that name the call.                            *)
LEMMA SentGrows ==
  ASSUME NEW s \in Seq(AnyPart), NEW part \in AnyPart, NEW id
  PROVE  LET t == Append(s, part)
             n == Len(s) + 1
             mine == part.kind = "call" /\ part.id = id
         IN /\ SigsSent(t, id) = Adds(SigsSent(s, id), mine /\ part.sig # NoSig, n)
            /\ ArgsSent(t, id) = Adds(ArgsSent(s, id), mine /\ part.body # <<>>, n)
            /\ SigsSent(s, id) \subseteq 1..Len(s) /\ ArgsSent(s, id) \subseteq 1..Len(s)
<1>1. PICK n \in Nat : n = Len(s)
  OBVIOUS
<1> DEFINE t == Append(s, part)
           mine == part.kind = "call" /\ part.id = id
<1>2. t[n + 1] = part /\ \A k \in 1..n : t[k] = s[k]
  BY <1>1, PartIsFresh DEF Fresh
<1>3. CallsFor(t, id) = Adds(CallsFor(s, id), mine, n + 1) /\ CallsFor(s, id) \subseteq 1..n
  BY <1>1, PositionsGrow
<1>4. \A k \in 1..n : k # n + 1
  OBVIOUS
<1> HIDE DEF t, mine
<1>5. SigsSent(t, id) = Adds(SigsSent(s, id), mine /\ part.sig # NoSig, n + 1)
  BY <1>2, <1>3, <1>4 DEF SigsSent, Adds
<1>6. ArgsSent(t, id) = Adds(ArgsSent(s, id), mine /\ part.body # <<>>, n + 1)
  BY <1>2, <1>3, <1>4 DEF ArgsSent, Adds
<1>7. SigsSent(s, id) \subseteq 1..n /\ ArgsSent(s, id) \subseteq 1..n
  BY <1>3 DEF SigsSent, ArgsSent
<1> QED BY <1>1, <1>5, <1>6, <1>7 DEF t, mine

(* One call, as its parts have it.                                         *)
CallRight(p, s) ==
  SignedLast(s, SigsSent(s, p.id), p.sig) /\ SentLast(s, ArgsSent(s, p.id), p.body)

(* The calls are right when each is.                                      *)
LEMMA CallsRightAgain ==
  ASSUME NEW t, NEW s
  PROVE  CallsRight(t, s) <=>
           /\ \A x \in DOMAIN t.parts : t.parts[x].kind = "call" /\ t.parts[x].id # NoId => CallRight(t.parts[x], s)
           /\ \A k \in DOMAIN s : s[k].kind = "call" /\ s[k].id # NoId => s[k].id \in DOMAIN t.bridge
BY DEF CallsRight, CallRight, SigsSent, ArgsSent

(* A part for another call, or for none.                                   *)
LEMMA CallUntouched ==
  ASSUME NEW s \in Seq(AnyPart), NEW part \in AnyPart, NEW p, CallRight(p, s),
         part.kind # "call" \/ part.id # p.id
  PROVE  CallRight(p, Append(s, part))
<1>1. /\ SigsSent(Append(s, part), p.id) = SigsSent(s, p.id) /\ SigsSent(s, p.id) \subseteq 1..Len(s)
      /\ ArgsSent(Append(s, part), p.id) = ArgsSent(s, p.id) /\ ArgsSent(s, p.id) \subseteq 1..Len(s)
  BY SentGrows DEF Adds
<1> QED BY <1>1, LastKept DEF CallRight

(* A part for this call.                                                   *)
LEMMA CallAgain ==
  ASSUME NEW s \in Seq(AnyPart), NEW part \in AnyPart, part.kind = "call", part.body \in {<<>>, <<Len(s) + 1>>},
         NEW p, NEW q, part.id = q.id, p.id = q.id,
         CallRight(p, s),
         q.body = IF part.body = <<>> THEN p.body ELSE part.body,
         q.sig = IF part.sig = NoSig THEN p.sig ELSE part.sig
  PROVE  CallRight(q, Append(s, part))
<1> DEFINE t == Append(s, part)
           n == Len(s) + 1
           S == SigsSent(s, q.id)
           A == ArgsSent(s, q.id)
<1>1. /\ SigsSent(t, q.id) = Adds(S, part.sig # NoSig, n) /\ S \subseteq 1..Len(s)
      /\ ArgsSent(t, q.id) = Adds(A, part.body # <<>>, n) /\ A \subseteq 1..Len(s)
  BY SentGrows
<1>2. SignedLast(s, S, p.sig) /\ SentLast(s, A, p.body)
  BY DEF CallRight
<1>3. SignedLast(t, S, p.sig) /\ SignedLast(t, S \cup {n}, part.sig)
  BY <1>1, <1>2, LastKept
<1>4. SentLast(t, A, p.body) /\ SentLast(t, A \cup {n}, <<n>>)
  BY <1>1, <1>2, LastKept
<1> HIDE DEF t, n, S, A
<1>5. SignedLast(t, SigsSent(t, q.id), q.sig)
  BY <1>1, <1>3 DEF Adds
<1>6. SentLast(t, ArgsSent(t, q.id), q.body)
  <2>1. CASE part.body = <<>>
    BY <1>1, <1>4, <2>1 DEF Adds
  <2>2. CASE part.body # <<>>
    <3>1. q.body = <<n>>
      BY <2>2 DEF n
    <3> QED BY <1>1, <1>4, <2>2, <3>1 DEF Adds
  <2> QED BY <2>1, <2>2
<1> QED BY <1>5, <1>6 DEF CallRight, t

(* The first part for a call.                                              *)
LEMMA CallFirst ==
  ASSUME NEW s \in Seq(AnyPart), NEW part \in AnyPart, part.kind = "call", part.body \in {<<>>, <<Len(s) + 1>>},
         CallsFor(s, part.id) = {}, NEW q, part.id = q.id, q.body = part.body, q.sig = part.sig
  PROVE  CallRight(q, Append(s, part))
<1> DEFINE p == [id |-> part.id, body |-> <<>>, sig |-> NoSig]
<1>1. SigsSent(s, part.id) = {} /\ ArgsSent(s, part.id) = {}
  BY DEF SigsSent, ArgsSent
<1>2. CallRight(p, s)
  BY <1>1 DEF CallRight, SignedLast, SentLast
<1>3. /\ q.body = IF part.body = <<>> THEN p.body ELSE part.body
      /\ q.sig = IF part.sig = NoSig THEN p.sig ELSE part.sig
      /\ p.id = q.id
  OBVIOUS
<1> HIDE DEF p
<1> QED BY <1>2, <1>3, CallAgain

(* The calls, when nothing is said of one.                                 *)
SameCalls(p, q) ==
  \A x \in DOMAIN q : q[x].kind = "call" =>
    x \in DOMAIN p /\ p[x].kind = "call" /\ q[x].id = p[x].id /\ q[x].body = p[x].body /\ q[x].sig = p[x].sig

(* They stay right with a part that is no call.                            *)
LEMMA CallsKept ==
  ASSUME NEW s \in Seq(AnyPart), NEW part \in AnyPart, part.kind # "call", NEW f, CallsRight(f, s),
         NEW g, SameCalls(f.parts, g.parts), g.bridge = f.bridge
  PROVE  CallsRight(g, Append(s, part))
<1> DEFINE t == Append(s, part)
<1>1. PICK n \in Nat : n = Len(s)
  OBVIOUS
<1>2. /\ DOMAIN s = 1..n /\ DOMAIN t = 1..(n + 1) /\ t[n + 1] = part /\ \A k \in 1..n : t[k] = s[k]
  BY <1>1, PartIsFresh DEF Fresh
<1>3. /\ \A x \in DOMAIN f.parts : f.parts[x].kind = "call" /\ f.parts[x].id # NoId => CallRight(f.parts[x], s)
      /\ \A k \in DOMAIN s : s[k].kind = "call" /\ s[k].id # NoId => s[k].id \in DOMAIN f.bridge
  BY CallsRightAgain
<1>4. ASSUME NEW x \in DOMAIN g.parts, g.parts[x].kind = "call", g.parts[x].id # NoId
      PROVE  CallRight(g.parts[x], t)
  <2> DEFINE p == f.parts[x]
             q == g.parts[x]
  <2>1. x \in DOMAIN f.parts /\ p.kind = "call" /\ q.id = p.id /\ q.body = p.body /\ q.sig = p.sig
    BY <1>4 DEF SameCalls
  <2>2. CallRight(p, s)
    BY <1>3, <1>4, <2>1
  <2> HIDE DEF p, q, t
  <2>3. CallRight(p, t)
    BY <2>2, CallUntouched DEF t
  <2>4. CallRight(q, t)
    BY <2>1, <2>3 DEF CallRight
  <2> QED BY <2>4 DEF q
<1>5. ASSUME NEW k \in DOMAIN t, t[k].kind = "call", t[k].id # NoId PROVE t[k].id \in DOMAIN g.bridge
  <2> HIDE DEF t
  <2>1. k \in 1..n \/ k = n + 1
    BY <1>2
  <2> QED BY <1>2, <1>3, <1>5, <2>1
<1> HIDE DEF t
<1>6. CallsRight(g, t)
  BY <1>4, <1>5, CallsRightAgain
<1> QED BY <1>6 DEF t

(* A known call hears of it, and no other does.                            *)
LEMMA CallsUpdated ==
  ASSUME NEW s \in Seq(AnyPart), NEW part \in AnyPart, part.kind = "call", part.body \in {<<>>, <<Len(s) + 1>>},
         NEW f, Recording(f), Named(f), CallsRight(f, s), NEW g, CallUpdated(f, g, part)
  PROVE  CallsRight(g, Append(s, part))
<1> DEFINE t == Append(s, part)
           item == f.bridge[part.id]
<1>1. PICK n \in Nat : n = Len(s)
  OBVIOUS
<1>2. /\ DOMAIN s = 1..n /\ DOMAIN t = 1..(n + 1) /\ t[n + 1] = part /\ \A k \in 1..n : t[k] = s[k]
  BY <1>1, PartIsFresh DEF Fresh
<1>3. /\ \A x \in DOMAIN f.parts : f.parts[x].kind = "call" /\ f.parts[x].id # NoId => CallRight(f.parts[x], s)
      /\ \A k \in DOMAIN s : s[k].kind = "call" /\ s[k].id # NoId => s[k].id \in DOMAIN f.bridge
  BY CallsRightAgain
<1>4. /\ part.id \in DOMAIN f.bridge /\ g.bridge = f.bridge
      /\ g.parts = [i \in DOMAIN f.parts |->
                      IF f.parts[i].item = item THEN Updated(f.parts[i], part) ELSE f.parts[i]]
  BY DEF CallUpdated
<1>5. /\ \A x \in DOMAIN f.parts : f.parts[x].kind = "call" => f.parts[x].item = CallItem(x - 1, f.parts[x].id)
      /\ \E y \in DOMAIN f.parts : f.parts[y].kind = "call" /\ f.parts[y].id = part.id /\ f.parts[y].item = item
      /\ \A x \in DOMAIN f.parts : f.parts[x].kind = "call" /\ f.parts[x].id # NoId =>
           f.parts[x].id \in DOMAIN f.bridge /\ f.bridge[f.parts[x].id] = f.parts[x].item
  BY <1>4 DEF Named
<1> HIDE DEF item, t
<1>6. \A x \in DOMAIN f.parts : f.parts[x] \in RecordPart
  BY DEF Recording
<1>7. ASSUME NEW x \in DOMAIN f.parts, g.parts[x].kind = "call", g.parts[x].id # NoId
      PROVE  CallRight(g.parts[x], t)
  <2> DEFINE p == f.parts[x]
             q == g.parts[x]
  <2>0. p \in RecordPart /\ q = IF p.item = item THEN Updated(p, part) ELSE p
    BY <1>4, <1>6
  <2> HIDE DEF p, q
  <2>1. CASE p.item = item
    <3>1. /\ q.id = p.id /\ q.kind = p.kind
          /\ q.body = IF part.body = <<>> THEN p.body ELSE part.body
          /\ q.sig = IF part.sig = NoSig THEN p.sig ELSE part.sig
      BY <2>0, <2>1, PartChanges
    <3>2. p.kind = "call" /\ p.id # NoId
      BY <1>7, <3>1 DEF q
    <3>3. CallRight(p, s)
      BY <1>3, <3>2 DEF p
    <3>4. PICK y \in DOMAIN f.parts : f.parts[y].kind = "call" /\ f.parts[y].id = part.id /\ f.parts[y].item = item
      BY <1>5
    <3>5. CallItem(x - 1, p.id) = CallItem(y - 1, part.id)
      BY <1>5, <2>1, <3>2, <3>4 DEF p
    <3>6. p.id = part.id
      BY <3>5, NamesDiffer
    <3>7. part.id = q.id /\ p.id = q.id
      BY <3>1, <3>6
    <3>8. CallRight(q, t)
      BY <3>1, <3>3, <3>7, CallAgain DEF t
    <3> QED BY <3>8 DEF q
  <2>2. CASE p.item # item
    <3>1. p.kind = "call" /\ p.id # NoId /\ q = p
      BY <1>7, <2>0, <2>2 DEF q
    <3>2. CallRight(p, s)
      BY <1>3, <3>1 DEF p
    <3>3. f.bridge[p.id] = p.item
      BY <1>5, <3>1 DEF p
    <3>4. part.id # p.id
      BY <2>2, <3>3 DEF item
    <3>5. CallRight(p, t)
      BY <3>2, <3>4, CallUntouched DEF t
    <3> QED BY <3>1, <3>5 DEF q
  <2> QED BY <2>1, <2>2
<1>8. DOMAIN g.parts = DOMAIN f.parts
  BY <1>4
<1>9. ASSUME NEW k \in DOMAIN t, t[k].kind = "call", t[k].id # NoId PROVE t[k].id \in DOMAIN g.bridge
  <2>1. k \in 1..n \/ k = n + 1
    BY <1>2
  <2> QED BY <1>2, <1>3, <1>4, <1>9, <2>1
<1>10. CallsRight(g, t)
  BY <1>7, <1>8, <1>9, CallsRightAgain
<1> QED BY <1>10 DEF t

(* A new call only has what this part says of it.                          *)
LEMMA CallsAdded ==
  ASSUME NEW s \in Seq(AnyPart), NEW part \in AnyPart, part.kind = "call", part.body \in {<<>>, <<Len(s) + 1>>},
         NEW f, Recording(f), Named(f), CallsRight(f, s), NEW g, CallAdded(f, g, part)
  PROVE  CallsRight(g, Append(s, part))
<1> DEFINE t == Append(s, part)
           item == CallItem(Len(f.parts), part.id)
           made == TurnPart("call", item, part.id, part.body, part.sig)
<1>1. PICK n \in Nat : n = Len(s)
  OBVIOUS
<1>2. /\ DOMAIN s = 1..n /\ DOMAIN t = 1..(n + 1) /\ t[n + 1] = part /\ \A k \in 1..n : t[k] = s[k]
  BY <1>1, PartIsFresh DEF Fresh
<1>3. /\ \A x \in DOMAIN f.parts : f.parts[x].kind = "call" /\ f.parts[x].id # NoId => CallRight(f.parts[x], s)
      /\ \A k \in DOMAIN s : s[k].kind = "call" /\ s[k].id # NoId => s[k].id \in DOMAIN f.bridge
  BY CallsRightAgain
<1>4. /\ part.id \notin DOMAIN f.bridge /\ g.bridge = Bound(f.bridge, part, item)
      /\ g.parts = Append(f.parts, made)
  BY DEF CallAdded
<1>5. \A x \in DOMAIN f.parts : f.parts[x].kind = "call" /\ f.parts[x].id # NoId => f.parts[x].id \in DOMAIN f.bridge
  BY DEF Named
<1>6. made.kind = "call" /\ made.id = part.id /\ made.body = part.body /\ made.sig = part.sig
  BY DEF TurnPart
<1>7. PICK m \in Nat : m = Len(f.parts)
  BY DEF Recording
<1> HIDE DEF made, item, t
<1>8. /\ DOMAIN f.parts = 1..m /\ DOMAIN g.parts = 1..(m + 1) /\ g.parts[m + 1] = made
      /\ \A x \in 1..m : g.parts[x] = f.parts[x]
  BY <1>4, <1>7 DEF Recording
<1>9. ASSUME NEW x \in DOMAIN g.parts, g.parts[x].kind = "call", g.parts[x].id # NoId
      PROVE  CallRight(g.parts[x], t)
  <2>1. CASE x = m + 1
    <3>1. part.id # NoId
      BY <1>6, <1>8, <1>9, <2>1
    <3>2. CallsFor(s, part.id) = {}
      BY <1>3, <1>4, <3>1 DEF CallsFor
    <3>3. CallRight(made, t)
      BY <1>6, <3>2, CallFirst DEF t
    <3> QED BY <1>8, <2>1, <3>3
  <2>2. CASE x # m + 1
    <3>1. x \in 1..m
      BY <1>8, <2>2
    <3> DEFINE p == f.parts[x]
    <3>2. p = g.parts[x] /\ x \in DOMAIN f.parts
      BY <1>8, <3>1
    <3>3. CallRight(p, s) /\ p.id \in DOMAIN f.bridge
      BY <1>3, <1>5, <1>9, <3>2
    <3>4. part.id # p.id
      BY <1>4, <3>3
    <3> HIDE DEF p
    <3>5. CallRight(p, t)
      BY <3>3, <3>4, CallUntouched DEF t
    <3> QED BY <3>2, <3>5
  <2> QED BY <2>1, <2>2
<1>10. DOMAIN f.bridge \subseteq DOMAIN g.bridge /\ (part.id # NoId => part.id \in DOMAIN g.bridge)
  BY <1>4 DEF Bound, Assigned
<1>11. ASSUME NEW k \in DOMAIN t, t[k].kind = "call", t[k].id # NoId PROVE t[k].id \in DOMAIN g.bridge
  <2>1. k \in 1..n \/ k = n + 1
    BY <1>2
  <2> QED BY <1>2, <1>3, <1>10, <1>11, <2>1
<1>12. CallsRight(g, t)
  BY <1>9, <1>11, CallsRightAgain
<1> QED BY <1>12 DEF t

(* A thought with words is thought behind those there are.                 *)
LEMMA ThoughtsStay ==
  ASSUME NEW s \in Seq(AnyPart), NEW part \in AnyPart, NEW thought, ThoughtsRight(thought, s),
         part.kind # "thought" \/ part.body = <<>>
  PROVE  ThoughtsRight(thought, Append(s, part))
<1> DEFINE t == Append(s, part)
<1>1. PICK n \in Nat : n = Len(s)
  OBVIOUS
<1>2. /\ DOMAIN s = 1..n /\ DOMAIN t = 1..(n + 1) /\ t[n + 1] = part /\ \A k \in 1..n : t[k] = s[k]
  BY <1>1, PartIsFresh DEF Fresh
<1> HIDE DEF t
<1>3. /\ \A k \in 1..(n + 1) : k \in 1..n \/ k = n + 1
      /\ \A k \in 1..n : k \in 1..(n + 1)
  OBVIOUS
<1>4. {k \in DOMAIN t : t[k].kind = "thought" /\ t[k].body # <<>>}
        = {k \in DOMAIN s : s[k].kind = "thought" /\ s[k].body # <<>>}
  BY <1>2, <1>3
<1> QED BY <1>4 DEF ThoughtsRight, t

(* A thought without words adds nothing.                                   *)
LEMMA ThoughtsGrow ==
  ASSUME NEW s \in Seq(AnyPart), NEW part \in AnyPart, NEW thought \in Seq(Nat), ThoughtsRight(thought, s),
         part.kind = "thought", part.body = <<Len(s) + 1>>
  PROVE  ThoughtsRight(thought \o part.body, Append(s, part))
<1> DEFINE t == Append(s, part)
<1>1. PICK n \in Nat : n = Len(s)
  OBVIOUS
<1>2. /\ DOMAIN s = 1..n /\ DOMAIN t = 1..(n + 1) /\ t[n + 1] = part /\ \A k \in 1..n : t[k] = s[k]
  BY <1>1, PartIsFresh DEF Fresh
<1> HIDE DEF t
<1>3. /\ \A k \in 1..(n + 1) : k \in 1..n \/ k = n + 1
      /\ \A k \in 1..n : k \in 1..(n + 1)
      /\ n + 1 \in 1..(n + 1)
  OBVIOUS
<1>4. part.body # <<>>
  <2>1. Len(part.body) = 1
    OBVIOUS
  <2> QED BY <2>1
<1>5. {k \in DOMAIN t : t[k].kind = "thought" /\ t[k].body # <<>>}
        = {k \in DOMAIN s : s[k].kind = "thought" /\ s[k].body # <<>>} \cup {n + 1}
  BY <1>2, <1>3, <1>4
<1>6. Rising(thought) /\ ToSet(thought) = {k \in DOMAIN s : s[k].kind = "thought" /\ s[k].body # <<>>}
  BY DEF ThoughtsRight
<1>7. ToSet(thought) \subseteq 1..n
  BY <1>2, <1>6
<1>8. Rising(thought \o <<n + 1>>) /\ ToSet(thought \o <<n + 1>>) = ToSet(thought) \cup {n + 1}
  BY <1>6, <1>7, PieceBehind
<1> QED BY <1>1, <1>5, <1>6, <1>8 DEF ThoughtsRight, t

(* A call part changes no text, a text part no call.                       *)
LEMMA AddedAlike ==
  ASSUME NEW p \in Seq(RecordPart), NEW made \in RecordPart
  PROVE  /\ made.kind = "call" => SameTexts(p, Append(p, made))
         /\ made.kind = "text" => SameCalls(p, Append(p, made))
<1> DEFINE q == Append(p, made)
<1>1. PICK n \in Nat : n = Len(p)
  OBVIOUS
<1>2. DOMAIN p = 1..n /\ DOMAIN q = 1..(n + 1) /\ q[n + 1] = made /\ \A x \in 1..n : q[x] = p[x]
  BY <1>1
<1> HIDE DEF q
<1>3. \A x \in 1..(n + 1) : x \in 1..n \/ x = n + 1
  OBVIOUS
<1>4. \A x \in 1..n : x \in 1..(n + 1)
  OBVIOUS
<1>5. made.kind = "call" => SameTexts(p, q)
  BY <1>2, <1>3, <1>4 DEF SameTexts
<1>6. made.kind = "text" => SameCalls(p, q)
  BY <1>2, <1>3, <1>4 DEF SameCalls
<1> QED BY <1>5, <1>6 DEF q

(* ProcessCall changes no text.                                            *)
LEMMA CallsAlike ==
  ASSUME NEW f, Recording(f), Named(f), NEW g, NEW part \in AnyPart,
         CallAdded(f, g, part) \/ CallUpdated(f, g, part)
  PROVE  SameTexts(f.parts, g.parts)
<1> DEFINE p == f.parts
           q == g.parts
<1>0. p \in Seq(RecordPart) /\ \A x \in DOMAIN p : p[x] \in RecordPart
  BY DEF Recording
<1>1. CASE CallAdded(f, g, part)
  <2> DEFINE item == CallItem(Len(p), part.id)
             made == TurnPart("call", item, part.id, part.body, part.sig)
  <2>1. q = Append(p, made)
    BY <1>1 DEF CallAdded
  <2>2. made \in RecordPart /\ made.kind = "call"
    <3>1. Len(p) \in Nat /\ part.id \in UpstreamIds \cup {NoId}
      BY <1>0 DEF AnyPart
    <3>2. item \in TurnItems
      <4> HIDE DEF p
      <4> QED BY <3>1 DEF TurnItems
    <3> HIDE DEF item
    <3> QED BY <3>2 DEF TurnPart, RecordPart, AnyPart
  <2> HIDE DEF made, p, q
  <2>3. SameTexts(p, q)
    BY <1>0, <2>1, <2>2, AddedAlike
  <2> QED BY <2>3 DEF p, q
<1>2. CASE CallUpdated(f, g, part)
  <2> DEFINE item == f.bridge[part.id]
  <2>1. /\ q = [i \in DOMAIN p |-> IF p[i].item = item THEN Updated(p[i], part) ELSE p[i]]
        /\ part.id \in DOMAIN f.bridge
    BY <1>2 DEF CallUpdated
  <2>2. /\ \E y \in DOMAIN p : p[y].kind = "call" /\ p[y].item = item
        /\ \A x \in DOMAIN p : IF p[x].kind = "call" THEN p[x].item = CallItem(x - 1, p[x].id)
                               ELSE \E k \in 0..(f.textCount - 1) : p[x].item = Message(k)
    BY <2>1 DEF Named
  <2> HIDE DEF item, p, q
  <2>3. ASSUME NEW x \in DOMAIN p
        PROVE  q[x].kind = p[x].kind /\ (p[x].kind = "text" => q[x] = p[x])
    <3>1. CASE p[x].item = item
      <4> DEFINE r == p[x]
                 v == Updated(r, part)
      <4>1. r \in RecordPart /\ q[x] = v
        BY <1>0, <2>1, <3>1
      <4> HIDE DEF r
      <4>2. v.kind = r.kind
        BY <4>1, PartChanges
      <4> HIDE DEF v
      <4>3. p[x].kind # "text"
        BY <2>2, <3>1, NamesDiffer
      <4> QED BY <4>1, <4>2, <4>3 DEF r
    <3>2. CASE p[x].item # item
      BY <2>1, <3>2
    <3> QED BY <3>1, <3>2
  <2>4. DOMAIN q = DOMAIN p
    BY <2>1
  <2>5. SameTexts(p, q)
    BY <2>3, <2>4 DEF SameTexts
  <2> QED BY <2>5 DEF p, q
<1> QED BY <1>1, <1>2

(* Neither a text nor a signature on its own changes a call.               *)
LEMMA TextsAlike ==
  ASSUME NEW f, Recording(f), NEW g, NEW part \in AnyPart,
         SignatureTaken(f, g, part) \/ TextExtended(f, g, part) \/ TextAdded(f, g, part)
  PROVE  SameCalls(f.parts, g.parts)
<1> DEFINE p == f.parts
           q == g.parts
<1>0. p \in Seq(RecordPart) /\ \A x \in DOMAIN p : p[x] \in RecordPart
  BY DEF Recording
<1>1. CASE SignatureTaken(f, g, part)
  <2> DEFINE target == SignatureTarget(p)
  <2>1. q = [i \in DOMAIN p |-> IF i \in target THEN [p[i] EXCEPT !.sig = part.sig] ELSE p[i]]
    BY <1>1 DEF SignatureTaken
  <2>2. \A x \in target : p[x].kind = "text"
    BY DEF SignatureTarget
  <2> HIDE DEF target, p, q
  <2>3. ASSUME NEW x \in DOMAIN p
        PROVE  q[x].kind = p[x].kind /\ (p[x].kind # "text" => q[x] = p[x])
    <3>1. CASE x \in target
      <4> DEFINE r == p[x]
                 v == [r EXCEPT !.sig = part.sig]
      <4>1. r \in RecordPart /\ q[x] = v
        BY <1>0, <2>1, <3>1
      <4> HIDE DEF r
      <4>2. v.kind = r.kind
        BY <4>1, PartChanges
      <4> HIDE DEF v
      <4> QED BY <2>2, <3>1, <4>1, <4>2 DEF r
    <3>2. CASE x \notin target
      BY <2>1, <3>2
    <3> QED BY <3>1, <3>2
  <2>4. DOMAIN q = DOMAIN p
    BY <2>1
  <2>5. SameCalls(p, q)
    BY <2>3, <2>4 DEF SameCalls
  <2> QED BY <2>5 DEF p, q
<1>2. CASE TextExtended(f, g, part)
  <2> DEFINE n == Len(p)
  <2>1. /\ q = [i \in DOMAIN p |-> IF i = n THEN [p[i] EXCEPT !.body = p[i].body \o part.body] ELSE p[i]]
        /\ p[n].kind = "text"
    BY <1>2 DEF TextExtended
  <2> HIDE DEF n, p, q
  <2>3. ASSUME NEW x \in DOMAIN p
        PROVE  q[x].kind = p[x].kind /\ (p[x].kind # "text" => q[x] = p[x])
    <3>1. CASE x = n
      <4> DEFINE r == p[x]
                 v == [r EXCEPT !.body = r.body \o part.body]
      <4>1. r \in RecordPart /\ q[x] = v
        BY <1>0, <2>1, <3>1
      <4> HIDE DEF r
      <4>2. v.kind = r.kind
        BY <4>1, PartChanges
      <4> HIDE DEF v
      <4> QED BY <2>1, <3>1, <4>1, <4>2 DEF r
    <3>2. CASE x # n
      BY <2>1, <3>2
    <3> QED BY <3>1, <3>2
  <2>4. DOMAIN q = DOMAIN p
    BY <2>1
  <2>5. SameCalls(p, q)
    BY <2>3, <2>4 DEF SameCalls
  <2> QED BY <2>5 DEF p, q
<1>3. CASE TextAdded(f, g, part)
  <2> DEFINE item == Message(f.textCount)
             made == TurnPart("text", item, NoId, part.body, part.sig)
  <2>1. q = Append(p, made)
    BY <1>3 DEF TextAdded
  <2>2. made \in RecordPart /\ made.kind = "text"
    <3>1. item \in TurnItems
      BY DEF Recording, TurnItems
    <3> HIDE DEF item
    <3>2. part.body \in Seq(Nat) /\ part.sig \in Sigs \cup {NoSig}
      BY DEF AnyPart
    <3> QED BY <3>1, <3>2, TextTyped, TextWith
  <2> HIDE DEF made, p, q
  <2>3. SameCalls(p, q)
    BY <1>0, <2>1, <2>2, AddedAlike
  <2> QED BY <2>3 DEF p, q
<1> QED BY <1>1, <1>2, <1>3

(* What is said of the parts taken stays right with one part more.         *)
LEMMA RightTaken ==
  ASSUME NEW s \in Seq(AnyPart), NEW part \in AnyPart, part.body \in {<<>>, <<Len(s) + 1>>},
         NEW f, Recording(f), Ordered(f), Right(f, s), NEW g, Taken(f, g, part)
  PROVE  Right(g, Append(s, part))
<1> DEFINE t == Append(s, part)
<1>1. TextsRight(f.parts, s) /\ CallsRight(f, s) /\ ThoughtsRight(f.thought, s) /\ Named(f)
  BY DEF Right, Ordered
<1>2. f.thought \in Seq(Nat) /\ f.parts \in Seq(RecordPart)
  BY DEF Recording
<1>3. SameTexts(f.parts, f.parts) /\ SameCalls(f.parts, f.parts)
  BY DEF SameTexts, SameCalls
<1>4. Unthought(f, g) /\ (part.kind # "thought" \/ part.body = <<>>) => ThoughtsRight(g.thought, t)
  BY <1>1, ThoughtsStay DEF Unthought
<1>5. CASE part.kind = "thought" /\ ThoughtTaken(f, g, part)
  <2>1. g.parts = f.parts /\ g.bridge = f.bridge /\ g.thought = f.thought \o part.body
    BY <1>5 DEF ThoughtTaken
  <2>2. TextsRight(g.parts, t)
    BY <1>1, <1>3, <1>5, <2>1, TextsKept
  <2>3. CallsRight(g, t)
    BY <1>1, <1>3, <1>5, <2>1, CallsKept
  <2>4. ThoughtsRight(g.thought, t)
    <3>1. CASE part.body = <<>>
      <4>1. g.thought = f.thought
        BY <1>2, <2>1, <3>1, ConcatEmptySeq
      <4> QED BY <1>1, <3>1, <4>1, ThoughtsStay
    <3>2. CASE part.body = <<Len(s) + 1>>
      BY <1>1, <1>2, <1>5, <2>1, <3>2, ThoughtsGrow
    <3> QED BY <3>1, <3>2
  <2> QED BY <2>2, <2>3, <2>4 DEF Right
<1>6. CASE part.kind = "call" /\ (CallAdded(f, g, part) \/ CallUpdated(f, g, part))
  <2>1. SameTexts(f.parts, g.parts)
    BY <1>1, <1>6, CallsAlike
  <2>2. TextsRight(g.parts, t)
    BY <1>1, <1>6, <2>1, TextsKept
  <2>3. CallsRight(g, t)
    BY <1>1, <1>6, CallsAdded, CallsUpdated
  <2>4. ThoughtsRight(g.thought, t)
    <3>1. Unthought(f, g)
      BY <1>6 DEF CallAdded, CallUpdated
    <3> QED BY <1>4, <1>6, <3>1
  <2> QED BY <2>2, <2>3, <2>4 DEF Right
<1>7. CASE part.kind = "text" /\ part.body = <<>> /\ part.sig # NoSig /\ SignatureTaken(f, g, part)
  <2>1. g.bridge = f.bridge /\ Unthought(f, g) /\ SameCalls(f.parts, g.parts)
    BY <1>7, TextsAlike DEF SignatureTaken, Unnamed
  <2>2. TextsRight(g.parts, t)
    BY <1>1, <1>7, SignatureRight
  <2>3. CallsRight(g, t)
    BY <1>1, <1>7, <2>1, CallsKept
  <2> QED BY <1>4, <1>7, <2>1, <2>2, <2>3 DEF Right
<1>8. CASE part.kind = "text" /\ part.body = <<>> /\ part.sig = NoSig /\ g = f
  <2>1. TextsRight(g.parts, t) /\ CallsRight(g, t) /\ Unthought(f, g)
    BY <1>1, <1>3, <1>8, TextsKept, CallsKept DEF Unthought
  <2> QED BY <1>4, <1>8, <2>1 DEF Right
<1>9. CASE part.kind = "text" /\ part.body # <<>> /\ (TextExtended(f, g, part) \/ TextAdded(f, g, part))
  <2>1. g.bridge = f.bridge /\ Unthought(f, g) /\ SameCalls(f.parts, g.parts)
    BY <1>9, TextsAlike DEF TextExtended, TextAdded, Unnamed
  <2>2. TextsRight(g.parts, t)
    BY <1>1, <1>9, TextRight
  <2>3. CallsRight(g, t)
    BY <1>1, <1>9, <2>1, CallsKept
  <2> QED BY <1>4, <1>9, <2>1, <2>2, <2>3 DEF Right
<1> QED BY <1>5, <1>6, <1>7, <1>8, <1>9 DEF Taken

(* Before the first part.                                                  *)
LEMMA NothingTaken ==
  LET a == NewAccumulator
  IN Recording(a) /\ FlushPendingText(a) = a /\ Ordered(a) /\ Right(a, <<>>)
<1> DEFINE a == NewAccumulator
<1>1. /\ a.parts = <<>> /\ a.order = <<>> /\ a.calls = <<>> /\ a.bridge = <<>> /\ a.thought = <<>>
      /\ a.text = <<>> /\ a.textSig = NoSig /\ a.textCount = 0 /\ a.hasThought = FALSE
      /\ DOMAIN a = DOMAIN NewAccumulator
  BY DEF NewAccumulator
<1> HIDE DEF a
<1>2. <<>> \in Seq(RecordPart) /\ <<>> \in Seq(TurnItems) /\ <<>> \in Seq(Nat) /\ DOMAIN <<>> = {}
  OBVIOUS
<1>3. Recording(a)
  BY <1>1, <1>2 DEF Recording
<1>4. FlushPendingText(a) = a
  BY <1>1, <1>3, FlushView
<1>5. Named(a) /\ FirstCallLeads(a)
  BY <1>1, <1>2 DEF Named, FirstCallLeads
<1>6. Lists(a.order, ItemsOf(a.parts))
  BY <1>1, <1>2 DEF Lists, ItemsOf
<1>7. ~Contains(a.order, Reasoning)
  BY <1>1, <1>2 DEF Contains
<1>8. Ordered(a)
  BY <1>1, <1>5, <1>6, <1>7 DEF Ordered
<1>9. TextsRight(a.parts, <<>>)
  BY <1>1, <1>2 DEF TextsRight, TextPieces
<1>10. CallsRight(a, <<>>)
  BY <1>1, <1>2 DEF CallsRight
<1>11. ThoughtsRight(a.thought, <<>>)
  BY <1>1, <1>2 DEF ThoughtsRight, Rising, ToSet
<1> QED BY <1>3, <1>4, <1>8, <1>9, <1>10, <1>11 DEF a, Right

(* Numbered parts are numbered up to each of them.                         *)
LEMMA NumberedBefore ==
  ASSUME NEW s \in Seq(AnyPart), NEW part \in AnyPart, Numbered(Append(s, part))
  PROVE  Numbered(s) /\ part.body \in {<<>>, <<Len(s) + 1>>}
<1> DEFINE t == Append(s, part)
<1>1. PICK n \in Nat : n = Len(s)
  OBVIOUS
<1>2. /\ DOMAIN s = 1..n /\ DOMAIN t = 1..(n + 1) /\ t[n + 1] = part /\ \A k \in 1..n : t[k] = s[k]
  BY <1>1, PartIsFresh DEF Fresh
<1> HIDE DEF t
<1>3. n + 1 \in 1..(n + 1) /\ \A k \in 1..n : k \in 1..(n + 1)
  OBVIOUS
<1>4. \A k \in 1..(n + 1) : t[k].body \in {<<>>, <<k>>}
  BY <1>2 DEF Numbered, t
<1> QED BY <1>1, <1>2, <1>3, <1>4 DEF Numbered

(* What the accumulator holds after any parts, and what its items say of   *)
(* numbered ones.                                                          *)
RightAfter(s) ==
  LET a == Accumulated(s)
      f == FlushPendingText(a)
  IN Recording(a) /\ Ordered(f) /\ (Numbered(s) => Right(f, s))

(* One part more.                                                          *)
LEMMA RightAgain ==
  ASSUME NEW s \in Seq(AnyPart), RightAfter(s), NEW part \in AnyPart
  PROVE  RightAfter(Append(s, part))
<1> DEFINE a == Accumulated(s)
           f == FlushPendingText(a)
           b == ProcessPart(a, part)
           g == FlushPendingText(b)
           t == Append(s, part)
<1>1. Recording(a) /\ Ordered(f) /\ (Numbered(s) => Right(f, s))
  BY DEF RightAfter
<1>2. Accumulated(t) = b
  BY AccumulatedAppend
<1>3. Recording(f)
  BY <1>1, FlushView
<1>4. Recording(b) /\ Taken(f, g, part) /\ Ordered(g)
  BY <1>1, PartIsTaken
<1> HIDE DEF a, b, f, g
<1>5. ASSUME Numbered(t) PROVE Right(g, t)
  <2>1. Numbered(s) /\ part.body \in {<<>>, <<Len(s) + 1>>}
    BY <1>5, NumberedBefore
  <2> QED BY <1>1, <1>3, <1>4, <2>1, RightTaken
<1> QED BY <1>2, <1>4, <1>5 DEF RightAfter, g

(* Whatever numbered parts it took: of the prefixes it would not be right  *)
(* after, there is no shortest.                                            *)
LEMMA AlwaysRight ==
  ASSUME NEW s \in Seq(AnyPart)
  PROVE  RightAfter(s)
<1> DEFINE T == {n \in Nat : \E r \in Seq(AnyPart) : Len(r) = n /\ ~RightAfter(r)}
<1>1. T = {}
  <2> SUFFICES ASSUME T # {} PROVE FALSE
    OBVIOUS
  <2>1. PICK m \in T : \A n \in T : m <= n
    BY LeastElement
  <2>2. PICK r \in Seq(AnyPart) : Len(r) = m /\ ~RightAfter(r)
    BY <2>1
  <2>3. m \in Nat
    BY <2>1
  <2>4. m # 0
    <3> SUFFICES ASSUME m = 0 PROVE FALSE
      OBVIOUS
    <3>1. r = <<>>
      BY <2>2, EmptySeq
    <3>2. RightAfter(<<>>)
      BY NothingTaken, AccumulatedNone DEF RightAfter
    <3> QED BY <2>2, <3>1, <3>2
  <2> DEFINE q == [i \in 1..(m - 1) |-> r[i]]
  <2>5. /\ q \in Seq(AnyPart) /\ Len(q) = m - 1 /\ m - 1 \in Nat
        /\ r = Append(q, r[m]) /\ r[m] \in AnyPart
    BY <2>2, <2>3, <2>4
  <2> HIDE DEF q
  <2>6. RightAfter(q)
    <3>1. m - 1 \notin T
      <4>1. ~ (m <= m - 1)
        BY <2>3
      <4> HIDE DEF T
      <4> QED BY <2>1, <4>1
    <3> QED BY <2>5, <3>1
  <2>7. RightAfter(Append(q, r[m]))
    BY <2>5, <2>6, RightAgain
  <2> QED BY <2>2, <2>5, <2>7
<1> QED BY <1>1
-----------------------------------------------------------------------------
(* The output of a turn.                                                   *)

(* Its items are those of the turn.                                        *)
LEMMA OutputIsNamed ==
  ASSUME NEW turn, NEW S, turn.order \in Seq(S), NEW T, turn.parts \in Seq(T)
  PROVE  \E ids \in Seq(ItemIds(turn)) :
           ToOutputItems(turn) = [i \in DOMAIN ids |-> ItemNamed(turn, ids[i])]
<1> DEFINE all == ItemIds(turn)
           listed == Selected(turn.order, all)
           items == [i \in DOMAIN turn.parts |-> turn.parts[i].item]
           unlisted == Selected(items, all \ ToSet(listed))
           ids == IF NeedsReasoningItem(turn) /\ ~Contains(listed, Reasoning)
                  THEN IF turn.thought # <<>> THEN <<Reasoning>> \o listed ELSE Append(listed, Reasoning)
                  ELSE listed
<1>1. listed \in Seq(all)
  <2> HIDE DEF all
  <2> QED BY SelectedElements
<1>2. unlisted \in Seq(all)
  <2>1. items \in Seq(all)
    <3>1. DOMAIN turn.parts = 1..Len(turn.parts) /\ Len(turn.parts) \in Nat
      OBVIOUS
    <3>2. \A i \in 1..Len(turn.parts) : items[i] \in all
      BY <3>1 DEF ItemIds
    <3>3. items = [i \in 1..Len(turn.parts) |-> items[i]]
      BY <3>1
    <3> HIDE DEF items, all
    <3>4. [i \in 1..Len(turn.parts) |-> items[i]] \in Seq(all)
      BY <3>1, <3>2, IsASeq
    <3> QED BY <3>3, <3>4
  <2> HIDE DEF items, listed
  <2>2. unlisted \in Seq(all \ ToSet(listed))
    <3> HIDE DEF all
    <3> QED BY <2>1, SelectedElements
  <2> HIDE DEF unlisted, all
  <2> QED BY <2>2
<1>3. NeedsReasoningItem(turn) => Reasoning \in all
  BY DEF ItemIds
<1>4. ToOutputItems(turn) = [i \in DOMAIN (ids \o unlisted) |-> ItemNamed(turn, (ids \o unlisted)[i])]
  BY DEF ToOutputItems
<1> HIDE DEF all, unlisted, listed
<1>5. ids \in Seq(all)
  <2>1. CASE NeedsReasoningItem(turn)
    <3>1. Reasoning \in all
      BY <1>3, <2>1
    <3> DEFINE r == Reasoning
    <3>2. r \in all
      BY <3>1
    <3> HIDE DEF r
    <3>3. <<r>> \in Seq(all)
      BY <3>2
    <3>4. <<r>> \o listed \in Seq(all) /\ Append(listed, r) \in Seq(all)
      BY <1>1, <3>2, <3>3, ConcatProperties
    <3> QED BY <1>1, <3>4 DEF r
  <2>2. CASE ~NeedsReasoningItem(turn)
    BY <1>1, <2>2
  <2> QED BY <2>1, <2>2
<1> HIDE DEF ids
<1>6. ids \o unlisted \in Seq(all)
  BY <1>2, <1>5, ConcatProperties
<1> QED BY <1>4, <1>6 DEF all

(* One element more to select from.                                        *)
LEMMA SelectedAppend ==
  ASSUME NEW T, NEW s \in Seq(T), NEW x \in T, NEW S
  PROVE  Selected(Append(s, x), S) = Selected(s, S) \o (IF x \in S THEN <<x>> ELSE <<>>)
<1>1. PICK n \in Nat : n = Len(s)
  OBVIOUS
<1> DEFINE t == Append(s, x)
           p == [i \in DOMAIN s |-> IF s[i] \in S THEN <<s[i]>> ELSE <<>>]
           q == [i \in DOMAIN t |-> IF t[i] \in S THEN <<t[i]>> ELSE <<>>]
           y == IF x \in S THEN <<x>> ELSE <<>>
<1>2. DOMAIN s = 1..n /\ DOMAIN t = 1..(n + 1) /\ t[n + 1] = x /\ \A i \in 1..n : t[i] = s[i]
  BY <1>1
<1> HIDE DEF t
<1>3. /\ \A i \in 1..n : i \in 1..(n + 1) /\ i # n + 1
      /\ \A i \in 1..(n + 1) : i \in 1..n \/ i = n + 1
      /\ n + 1 \in 1..(n + 1)
  OBVIOUS
<1>4. \A z \in S : <<z>> \in Seq(S)
  OBVIOUS
<1>5. <<>> \in Seq(S)
  OBVIOUS
<1>6. y \in Seq(S) /\ \A i \in 1..n : p[i] \in Seq(S)
  BY <1>2, <1>4, <1>5
<1>7. p = [i \in 1..n |-> p[i]] /\ q = [i \in 1..(n + 1) |-> q[i]]
  BY <1>2
<1>8. q[n + 1] = y /\ \A i \in 1..n : q[i] = p[i]
  BY <1>2, <1>3
<1> HIDE DEF p, q, y
<1>9. p \in Seq(Seq(S)) /\ Len(p) = n
  <2>1. [i \in 1..n |-> p[i]] \in Seq(Seq(S))
    BY <1>6, IsASeq
  <2>2. p \in Seq(Seq(S)) /\ DOMAIN p = 1..n
    BY <1>7, <2>1
  <2> QED BY <2>2
<1>10. q = Append(p, y)
  <2> DEFINE r == Append(p, y)
  <2>1. r \in Seq(Seq(S)) /\ Len(r) = n + 1 /\ r[n + 1] = y /\ \A i \in 1..n : r[i] = p[i]
    BY <1>6, <1>9
  <2> HIDE DEF r
  <2>2. r = [i \in 1..(n + 1) |-> r[i]]
    BY <2>1
  <2>3. \A i \in 1..(n + 1) : q[i] = r[i]
    BY <1>3, <1>8, <2>1
  <2>4. q = r
    BY <1>7, <2>2, <2>3
  <2> QED BY <2>4 DEF r
<1>11. FlattenSeq(q) = FlattenSeq(p) \o y
  BY <1>6, <1>9, <1>10, FlattenAppend
<1>12. Selected(t, S) = FlattenSeq(q) /\ Selected(s, S) = FlattenSeq(p)
  BY DEF Selected, p, q
<1> QED BY <1>11, <1>12 DEF t, y

(* Nothing to select from.                                                 *)
LEMMA SelectedNone ==
  ASSUME NEW S
  PROVE  Selected(<<>>, S) = <<>>
<1>1. [i \in DOMAIN <<>> |-> IF <<>>[i] \in S THEN <<<<>>[i]>> ELSE <<>>] = <<>>
  OBVIOUS
<1> QED BY <1>1, FlattenNone DEF Selected

(* What is selected is what of the sequence is in the set, in its order.   *)
Distinct(s) == \A k, l \in DOMAIN s : s[k] = s[l] => k = l

Kept(s, S, r) ==
  /\ r \in Seq(S)
  /\ \A x : x \in ToSet(r) <=> x \in ToSet(s) /\ x \in S
  /\ \A i, j \in DOMAIN r : \A k, l \in DOMAIN s : r[i] = s[k] /\ r[j] = s[l] /\ i < j => k < l
  /\ ToSet(s) \subseteq S => r = s

(* An element more, in the set or not.                                     *)
LEMMA KeptAppend ==
  ASSUME NEW T, NEW s \in Seq(T), NEW x \in T, Distinct(Append(s, x)), NEW S, NEW r, Kept(s, S, r)
  PROVE  Kept(Append(s, x), S, r \o (IF x \in S THEN <<x>> ELSE <<>>))
<1>1. PICK n \in Nat : n = Len(s)
  OBVIOUS
<1> DEFINE t == Append(s, x)
<1>2. /\ DOMAIN s = 1..n /\ DOMAIN t = 1..(n + 1) /\ t[n + 1] = x /\ \A i \in 1..n : t[i] = s[i]
  BY <1>1
<1>3. /\ \A i \in 1..n : i \in 1..(n + 1) /\ i # n + 1 /\ i < n + 1
      /\ \A i \in 1..(n + 1) : i \in 1..n \/ i = n + 1
      /\ n + 1 \in 1..(n + 1)
  OBVIOUS
<1>4. /\ r \in Seq(S)
      /\ \A z : z \in ToSet(r) <=> z \in ToSet(s) /\ z \in S
      /\ \A i, j \in DOMAIN r : \A k, l \in DOMAIN s : r[i] = s[k] /\ r[j] = s[l] /\ i < j => k < l
      /\ ToSet(s) \subseteq S => r = s
  BY DEF Kept
<1>5. PICK m \in Nat : m = Len(r) /\ DOMAIN r = 1..m
  BY <1>4
<1>6. Distinct(t)
  OBVIOUS
<1> HIDE DEF t
<1>7. \A z : z \in ToSet(t) <=> z \in ToSet(s) \/ z = x
  BY <1>2, <1>3 DEF ToSet
<1>8. x \notin ToSet(s)
  BY <1>2, <1>3, <1>6 DEF ToSet, Distinct
<1>9. \A i \in DOMAIN r : r[i] # x /\ \A k \in DOMAIN t : r[i] = t[k] => k \in DOMAIN s /\ r[i] = s[k]
  <2> TAKE i \in DOMAIN r
  <2>1. r[i] \in ToSet(s)
    BY <1>4 DEF ToSet
  <2> QED BY <1>2, <1>3, <1>8, <2>1
<1>10. \A i, j \in DOMAIN r : \A k, l \in DOMAIN t : r[i] = t[k] /\ r[j] = t[l] /\ i < j => k < l
  BY <1>4, <1>9
<1>11. CASE x \notin S
  <2>1. r \o (IF x \in S THEN <<x>> ELSE <<>>) = r
    BY <1>4, <1>11, ConcatEmptySeq
  <2>2. \A z : z \in ToSet(r) <=> z \in ToSet(t) /\ z \in S
    BY <1>4, <1>7, <1>11
  <2>3. ~(ToSet(t) \subseteq S)
    BY <1>7, <1>11
  <2> QED BY <1>4, <1>10, <2>1, <2>2, <2>3 DEF Kept, t
<1>12. CASE x \in S
  <2> DEFINE q == Append(r, x)
  <2>1. r \o (IF x \in S THEN <<x>> ELSE <<>>) = q
    <3>1. r \o <<x>> = Append(r, x)
      BY <1>4, <1>12, AppendIsConcat
    <3> QED BY <1>12, <3>1
  <2>2. /\ q \in Seq(S) /\ Len(q) = m + 1 /\ DOMAIN q = 1..(m + 1) /\ q[m + 1] = x
        /\ \A i \in 1..m : q[i] = r[i]
    BY <1>4, <1>5, <1>12
  <2>3. ToSet(t) \subseteq S => q = t
    BY <1>4, <1>7 DEF t
  <2> HIDE DEF q
  <2>4. /\ \A i \in 1..m : i \in 1..(m + 1) /\ i # m + 1 /\ ~(m + 1 < i)
        /\ \A i \in 1..(m + 1) : i \in 1..m \/ i = m + 1
        /\ m + 1 \in 1..(m + 1) /\ ~(m + 1 < m + 1)
    BY <1>5
  <2>5. \A z : z \in ToSet(q) <=> z \in ToSet(r) \/ z = x
    BY <1>5, <2>2, <2>4 DEF ToSet
  <2>6. \A z : z \in ToSet(q) <=> z \in ToSet(t) /\ z \in S
    BY <1>4, <1>7, <1>12, <2>5
  <2>7. ASSUME NEW i \in DOMAIN q, NEW j \in DOMAIN q, NEW k \in DOMAIN t, NEW l \in DOMAIN t,
               q[i] = t[k], q[j] = t[l], i < j
        PROVE  k < l
    <3>1. i \in 1..m /\ q[i] = r[i]
      BY <2>2, <2>4, <2>7
    <3>2. k \in 1..n
      BY <1>2, <1>5, <1>9, <2>7, <3>1
    <3>3. CASE j \in 1..m
      BY <1>5, <1>10, <2>2, <2>7, <3>1, <3>3
    <3>4. CASE j = m + 1
      <4>1. t[l] = t[n + 1]
        BY <1>2, <2>2, <2>7, <3>4
      <4>2. l = n + 1
        BY <1>2, <1>3, <1>6, <4>1 DEF Distinct
      <4> QED BY <1>3, <3>2, <4>2
    <3> QED BY <2>2, <2>4, <3>3, <3>4
  <2>8. Kept(t, S, q)
    BY <2>2, <2>3, <2>6, <2>7 DEF Kept
  <2> QED BY <2>1, <2>8 DEF t
<1> QED BY <1>11, <1>12

(* SelectSeq selects what of the sequence is in the set, in its order.     *)
LEMMA SelectedKept ==
  ASSUME NEW T, NEW s \in Seq(T), Distinct(s), NEW S
  PROVE  Kept(s, S, Selected(s, S))
<1> DEFINE U == {n \in Nat : \E r \in Seq(T) : Len(r) = n /\ Distinct(r) /\ ~Kept(r, S, Selected(r, S))}
<1>1. U = {}
  <2> SUFFICES ASSUME U # {} PROVE FALSE
    OBVIOUS
  <2>1. PICK m \in U : \A n \in U : m <= n
    BY LeastElement
  <2>2. PICK r \in Seq(T) : Len(r) = m /\ Distinct(r) /\ ~Kept(r, S, Selected(r, S))
    BY <2>1
  <2>3. m \in Nat
    BY <2>1
  <2>4. m # 0
    <3> SUFFICES ASSUME m = 0 PROVE FALSE
      OBVIOUS
    <3>1. r = <<>>
      BY <2>2, EmptySeq
    <3>2. <<>> \in Seq(S) /\ DOMAIN <<>> = {}
      OBVIOUS
    <3>3. Kept(<<>>, S, <<>>)
      BY <3>2 DEF Kept, ToSet
    <3> QED BY <2>2, <3>1, <3>3, SelectedNone
  <2> DEFINE q == [i \in 1..(m - 1) |-> r[i]]
  <2>5. /\ q \in Seq(T) /\ Len(q) = m - 1 /\ m - 1 \in Nat
        /\ r = Append(q, r[m]) /\ r[m] \in T
        /\ \A i \in 1..(m - 1) : q[i] = r[i] /\ i \in 1..m
        /\ DOMAIN q = 1..(m - 1) /\ DOMAIN r = 1..m
    BY <2>2, <2>3, <2>4
  <2> HIDE DEF q
  <2>6. Distinct(q)
    BY <2>2, <2>5 DEF Distinct
  <2>7. Kept(q, S, Selected(q, S))
    <3>1. m - 1 \notin U
      <4>1. ~ (m <= m - 1)
        BY <2>3
      <4> HIDE DEF U
      <4> QED BY <2>1, <4>1
    <3> QED BY <2>5, <2>6, <3>1
  <2> DEFINE x == r[m]
  <2>8. r = Append(q, x) /\ x \in T
    BY <2>5
  <2> HIDE DEF x
  <2>9. Selected(r, S) = Selected(q, S) \o (IF x \in S THEN <<x>> ELSE <<>>)
    BY <2>5, <2>8, SelectedAppend
  <2>10. Kept(Append(q, x), S, Selected(q, S) \o (IF x \in S THEN <<x>> ELSE <<>>))
    BY <2>2, <2>5, <2>7, <2>8, KeptAppend
  <2> QED BY <2>2, <2>8, <2>9, <2>10
<1> QED BY <1>1

(* Rising pieces, one above the other, are a rising whole.                 *)
LEMMA RisingConcat ==
  ASSUME NEW a \in Seq(Nat), NEW b \in Seq(Nat), Rising(a), Rising(b),
         \A k \in ToSet(a), l \in ToSet(b) : k < l
  PROVE  Rising(a \o b) /\ ToSet(a \o b) = ToSet(a) \cup ToSet(b)
<1>1. PICK m \in Nat, n \in Nat : m = Len(a) /\ n = Len(b)
  OBVIOUS
<1> DEFINE c == a \o b
<1>2. /\ c \in Seq(Nat) /\ Len(c) = m + n
      /\ \A i \in 1..(m + n) : c[i] = IF i <= m THEN a[i] ELSE b[i - m]
  BY <1>1, ConcatProperties
<1>3. DOMAIN a = 1..m /\ DOMAIN b = 1..n /\ DOMAIN c = 1..(m + n)
  BY <1>1, <1>2
<1> HIDE DEF c
<1>4. /\ \A i \in 1..m : i \in 1..(m + n) /\ i <= m
      /\ \A i \in 1..(m + n) : i <= m => i \in 1..m
      /\ \A i \in 1..(m + n) : ~(i <= m) => i - m \in 1..n
      /\ \A i \in 1..n : m + i \in 1..(m + n) /\ ~(m + i <= m) /\ (m + i) - m = i
      /\ \A i, j \in 1..(m + n) : i < j /\ j <= m => i <= m
      /\ \A i, j \in 1..(m + n) : i < j => i - m < j - m
  BY <1>1
<1>5. /\ \A i \in 1..m : c[i] = a[i]
      /\ \A i \in 1..n : c[m + i] = b[i]
  BY <1>2, <1>4
<1>6. ASSUME NEW i \in DOMAIN c, NEW j \in DOMAIN c, i < j
      PROVE  c[i] < c[j]
  <2>1. CASE j <= m
    <3>1. i \in 1..m /\ j \in 1..m
      BY <1>3, <1>4, <1>6, <2>1
    <3> QED BY <1>3, <1>5, <1>6, <3>1 DEF Rising
  <2>2. CASE ~(j <= m) /\ i <= m
    <3>1. i \in 1..m /\ j - m \in 1..n /\ c[j] = b[j - m]
      BY <1>2, <1>3, <1>4, <2>2
    <3>2. a[i] \in ToSet(a) /\ b[j - m] \in ToSet(b)
      BY <1>3, <3>1 DEF ToSet
    <3> QED BY <1>5, <3>1, <3>2
  <2>3. CASE ~(j <= m) /\ ~(i <= m)
    <3>1. /\ i - m \in 1..n /\ j - m \in 1..n /\ i - m < j - m
          /\ c[i] = b[i - m] /\ c[j] = b[j - m]
      BY <1>2, <1>3, <1>4, <1>6, <2>3
    <3> QED BY <1>3, <3>1 DEF Rising
  <2> QED BY <2>1, <2>2, <2>3
<1>7. \A k : k \in ToSet(c) <=> k \in ToSet(a) \/ k \in ToSet(b)
  <2> TAKE k
  <2>1. ASSUME k \in ToSet(c) PROVE k \in ToSet(a) \/ k \in ToSet(b)
    <3>1. PICK i \in 1..(m + n) : c[i] = k
      BY <1>3, <2>1 DEF ToSet
    <3>2. CASE i <= m
      BY <1>2, <1>3, <1>4, <3>1, <3>2 DEF ToSet
    <3>3. CASE ~(i <= m)
      <4>1. b[i - m] = k /\ i - m \in 1..n
        BY <1>2, <1>4, <3>1, <3>3
      <4> QED BY <1>3, <4>1 DEF ToSet
    <3> QED BY <3>2, <3>3
  <2>2. ASSUME k \in ToSet(a) PROVE k \in ToSet(c)
    <3>1. PICK i \in 1..m : a[i] = k
      BY <1>3, <2>2 DEF ToSet
    <3> QED BY <1>3, <1>4, <1>5, <3>1 DEF ToSet
  <2>3. ASSUME k \in ToSet(b) PROVE k \in ToSet(c)
    <3>1. PICK i \in 1..n : b[i] = k
      BY <1>3, <2>3 DEF ToSet
    <3>2. m + i \in 1..(m + n) /\ c[m + i] = k
      BY <1>4, <1>5, <3>1
    <3> QED BY <1>3, <3>2 DEF ToSet
  <2> QED BY <2>1, <2>2, <2>3
<1> QED BY <1>6, <1>7 DEF Rising, c

Stacked(s) ==
  /\ \A i \in DOMAIN s : Rising(s[i])
  /\ \A i, j \in DOMAIN s : i < j => \A k \in ToSet(s[i]), l \in ToSet(s[j]) : k < l

Piled(s, r) == Rising(r) /\ \A k : k \in ToSet(r) <=> \E i \in DOMAIN s : k \in ToSet(s[i])

(* A stack of rising pieces, flattened, is a rising whole of all of them.  *)
LEMMA FlattenPiled ==
  ASSUME NEW s \in Seq(Seq(Nat)), Stacked(s)
  PROVE  Piled(s, FlattenSeq(s))
<1> DEFINE U == {n \in Nat : \E r \in Seq(Seq(Nat)) : Len(r) = n /\ Stacked(r) /\ ~Piled(r, FlattenSeq(r))}
<1>1. U = {}
  <2> SUFFICES ASSUME U # {} PROVE FALSE
    OBVIOUS
  <2>1. PICK m \in U : \A n \in U : m <= n
    BY LeastElement
  <2>2. PICK r \in Seq(Seq(Nat)) : Len(r) = m /\ Stacked(r) /\ ~Piled(r, FlattenSeq(r))
    BY <2>1
  <2>3. m \in Nat
    BY <2>1
  <2>4. m # 0
    <3> SUFFICES ASSUME m = 0 PROVE FALSE
      OBVIOUS
    <3>1. r = <<>>
      BY <2>2, EmptySeq
    <3>2. DOMAIN <<>> = {}
      OBVIOUS
    <3>3. Piled(<<>>, <<>>)
      BY <3>2 DEF Piled, Rising, ToSet
    <3> QED BY <2>2, <3>1, <3>3, FlattenNone
  <2> DEFINE q == [i \in 1..(m - 1) |-> r[i]]
             x == r[m]
  <2>5. /\ q \in Seq(Seq(Nat)) /\ Len(q) = m - 1 /\ m - 1 \in Nat
        /\ r = Append(q, x) /\ x \in Seq(Nat)
        /\ \A i \in 1..(m - 1) : q[i] = r[i] /\ i \in 1..m /\ i < m
        /\ DOMAIN q = 1..(m - 1) /\ DOMAIN r = 1..m
        /\ m \in 1..m /\ \A i \in 1..m : i \in 1..(m - 1) \/ i = m
    BY <2>2, <2>3, <2>4
  <2> HIDE DEF q
  <2>6. /\ \A i \in DOMAIN r : Rising(r[i])
        /\ \A i, j \in DOMAIN r : i < j => \A k \in ToSet(r[i]), l \in ToSet(r[j]) : k < l
    BY <2>2 DEF Stacked
  <2>7. Stacked(q)
    BY <2>5, <2>6 DEF Stacked
  <2> DEFINE p == FlattenSeq(q)
  <2>8. Piled(q, p)
    <3>1. m - 1 \notin U
      <4>1. ~ (m <= m - 1)
        BY <2>3
      <4> HIDE DEF U
      <4> QED BY <2>1, <4>1
    <3> QED BY <2>5, <2>7, <3>1
  <2>9. p \in Seq(Nat)
    BY <2>5, FlattenElements
  <2>10. FlattenSeq(r) = p \o x
    <3> HIDE DEF x
    <3> QED BY <2>5, FlattenAppend
  <2>11. Rising(x) /\ \A i \in DOMAIN q : \A k \in ToSet(q[i]), l \in ToSet(x) : k < l
    BY <2>5, <2>6
  <2> HIDE DEF p
  <2>12. Rising(p) /\ \A k : k \in ToSet(p) <=> \E i \in DOMAIN q : k \in ToSet(q[i])
    BY <2>8 DEF Piled
  <2>13. \A k \in ToSet(p), l \in ToSet(x) : k < l
    BY <2>11, <2>12
  <2> HIDE DEF x
  <2>14. Rising(p \o x) /\ ToSet(p \o x) = ToSet(p) \cup ToSet(x)
    BY <2>5, <2>9, <2>11, <2>12, <2>13, RisingConcat
  <2>15. r[m] = x
    BY DEF x
  <2>16. \A k : k \in ToSet(p \o x) <=> \E i \in DOMAIN r : k \in ToSet(r[i])
    BY <2>5, <2>12, <2>14, <2>15
  <2>17. Piled(r, p \o x)
    BY <2>14, <2>16 DEF Piled
  <2> QED BY <2>2, <2>10, <2>17
<1> QED BY <1>1

(* Selecting with the items keeps their order, and leaves none out.        *)
LEMMA SelectedLists ==
  ASSUME NEW order \in Seq(TurnItems), NEW items \in Seq(TurnItems), Lists(order, items),
         NEW S, \A x \in DOMAIN items : items[x] \in S
  PROVE  LET r == Selected(order, S)
         IN /\ r \in Seq(TurnItems) /\ Lists(r, items)
            /\ Contains(r, Reasoning) <=> Contains(order, Reasoning) /\ Reasoning \in S
            /\ Selected(items, S \ ToSet(r)) = <<>>
            /\ ToSet(order) \subseteq S => r = order
<1> DEFINE r == Selected(order, S)
           rest == Selected(items, S \ ToSet(r))
           D == DOMAIN items
           O == DOMAIN order
<1>1. /\ \A x \in D : items[x] # Reasoning /\ \E i \in O : order[i] = items[x]
      /\ \A x, y \in D : items[x] = items[y] => x = y
      /\ \A i \in O : order[i] = Reasoning \/ \E x \in D : order[i] = items[x]
      /\ \A i, j \in O : order[i] = order[j] => i = j
      /\ \A i, j \in O : \A x, y \in D : order[i] = items[x] /\ order[j] = items[y] /\ i < j => x < y
  BY DEF Lists
<1>2. Distinct(order) /\ Distinct(items)
  BY <1>1 DEF Distinct
<1>3. Kept(order, S, r)
  BY <1>2, SelectedKept
<1>4. Kept(items, S \ ToSet(r), rest)
  <2> HIDE DEF r
  <2> QED BY <1>2, SelectedKept
<1> HIDE DEF r, rest
<1>5. /\ r \in Seq(S)
      /\ \A z : z \in ToSet(r) <=> z \in ToSet(order) /\ z \in S
      /\ \A i, j \in DOMAIN r : \A k, l \in O : r[i] = order[k] /\ r[j] = order[l] /\ i < j => k < l
      /\ ToSet(order) \subseteq S => r = order
  BY <1>3 DEF Kept
<1>6. /\ rest \in Seq(S \ ToSet(r))
      /\ \A z : z \in ToSet(rest) <=> z \in ToSet(items) /\ z \in S \ ToSet(r)
  BY <1>4 DEF Kept
<1>7. PICK m \in Nat : m = Len(r) /\ DOMAIN r = 1..m
  BY <1>5
<1>8. \A i \in 1..m : \E k \in O : r[i] = order[k]
  <2> TAKE i \in 1..m
  <2>1. r[i] \in ToSet(r)
    BY <1>7 DEF ToSet
  <2>2. r[i] \in ToSet(order)
    BY <1>5, <2>1
  <2> QED BY <2>2 DEF ToSet
<1>9. \A x \in D : \E i \in 1..m : r[i] = items[x]
  <2> TAKE x \in D
  <2>1. PICK k \in O : order[k] = items[x]
    BY <1>1
  <2>2. items[x] \in ToSet(order)
    BY <2>1 DEF ToSet
  <2>3. items[x] \in ToSet(r)
    BY <1>5, <2>2
  <2> QED BY <1>7, <2>3 DEF ToSet
<1>10. r \in Seq(TurnItems)
  <2>1. \A i \in 1..m : r[i] \in TurnItems
    <3> TAKE i \in 1..m
    <3>1. PICK k \in O : r[i] = order[k]
      BY <1>8
    <3> QED BY <3>1
  <2>2. r = [i \in 1..m |-> r[i]]
    BY <1>5, <1>7
  <2>3. [i \in 1..m |-> r[i]] \in Seq(TurnItems)
    BY <1>7, <2>1, IsASeq
  <2> QED BY <2>2, <2>3
<1>11. Lists(r, items)
  <2>1. \A i \in DOMAIN r : r[i] = Reasoning \/ \E x \in D : r[i] = items[x]
    <3> TAKE i \in DOMAIN r
    <3>1. PICK k \in O : r[i] = order[k]
      BY <1>7, <1>8
    <3> QED BY <1>1, <3>1
  <2>2. ASSUME NEW i \in DOMAIN r, NEW j \in DOMAIN r, r[i] = r[j], i < j PROVE FALSE
    <3>1. PICK k \in O : r[i] = order[k]
      BY <1>7, <1>8
    <3>2. k < k
      BY <1>5, <2>2, <3>1
    <3>3. k \in Nat
      OBVIOUS
    <3> QED BY <3>2, <3>3
  <2>3. \A i, j \in DOMAIN r : r[i] = r[j] => i = j
    <3> SUFFICES ASSUME NEW i \in DOMAIN r, NEW j \in DOMAIN r, r[i] = r[j] PROVE i = j
      OBVIOUS
    <3>1. i \in Nat /\ j \in Nat
      BY <1>7
    <3>2. ~(i < j) /\ ~(j < i)
      BY <2>2
    <3> QED BY <3>1, <3>2
  <2>4. ASSUME NEW i \in DOMAIN r, NEW j \in DOMAIN r, NEW x \in D, NEW y \in D,
               r[i] = items[x], r[j] = items[y], i < j
        PROVE  x < y
    <3>1. PICK k \in O, l \in O : r[i] = order[k] /\ r[j] = order[l]
      BY <1>7, <1>8
    <3>2. k < l
      BY <1>5, <2>4, <3>1
    <3>3. order[k] = items[x] /\ order[l] = items[y]
      BY <2>4, <3>1
    <3>4. \A g, h \in O : \A v, w \in D : order[g] = items[v] /\ order[h] = items[w] /\ g < h => v < w
      BY <1>1
    <3> HIDE DEF O, D
    <3> QED BY <3>2, <3>3, <3>4
  <2> QED BY <1>1, <1>7, <1>9, <2>1, <2>3, <2>4 DEF Lists
<1>12. Contains(r, Reasoning) <=> Contains(order, Reasoning) /\ Reasoning \in S
  BY <1>5 DEF Contains, ToSet
<1>13. rest = <<>>
  <2>1. ToSet(rest) = {}
    <3> SUFFICES ASSUME NEW z \in ToSet(rest) PROVE FALSE
      OBVIOUS
    <3>1. z \in ToSet(items) /\ z \notin ToSet(r)
      BY <1>6
    <3>2. PICK x \in D : items[x] = z
      BY <3>1 DEF ToSet
    <3>3. z \in ToSet(r)
      BY <1>7, <1>9, <3>2 DEF ToSet
    <3> QED BY <3>1, <3>3
  <2>2. Len(rest) \in Nat /\ DOMAIN rest = 1..Len(rest)
    BY <1>6
  <2>3. Len(rest) = 0
    <3> SUFFICES ASSUME Len(rest) # 0 PROVE FALSE
      OBVIOUS
    <3>1. 1 \in DOMAIN rest
      BY <2>2
    <3> QED BY <2>1, <3>1 DEF ToSet
  <2> QED BY <1>6, <2>3, EmptySeq
<1> QED BY <1>5, <1>10, <1>11, <1>12, <1>13 DEF r, rest

(* The output lists the items of the turn; the reasoning item has the      *)
(* place it was recorded at, or the last.                                  *)
OutputListed(t, ids) ==
  /\ ids \in Seq(TurnItems)
  /\ ToOutputItems(t) = [i \in DOMAIN ids |-> ItemNamed(t, ids[i])]
  /\ Lists(ids, ItemsOf(t.parts))
  /\ (t.hasThought => NeedsReasoningItem(t)) =>
       ids = IF NeedsReasoningItem(t) THEN Recorded(t.order, Reasoning) ELSE t.order

(* ToOutputItems has them in that order.                                   *)
LEMMA OutputInOrder ==
  ASSUME NEW t, Recording(t), Ordered(t)
  PROVE  \E ids : OutputListed(t, ids)
<1> DEFINE all == ItemIds(t)
           items == ItemsOf(t.parts)
           listed == Selected(t.order, all)
           unlisted == Selected(items, all \ ToSet(listed))
           ids == IF NeedsReasoningItem(t) /\ ~Contains(listed, Reasoning)
                  THEN IF t.thought # <<>> THEN <<Reasoning>> \o listed ELSE Append(listed, Reasoning)
                  ELSE listed
           out == ids \o unlisted
<1>1. /\ t.order \in Seq(TurnItems) /\ items \in Seq(TurnItems) /\ Lists(t.order, items)
      /\ t.thought # <<>> => Contains(t.order, Reasoning)
      /\ t.hasThought <=> Contains(t.order, Reasoning)
  BY ItemsTyped DEF Recording, Ordered
<1>2. /\ \A x \in DOMAIN items : items[x] \in all
      /\ NeedsReasoningItem(t) <=> Reasoning \in all
  <2>1. \A x \in DOMAIN items : items[x] \in all /\ items[x] # Reasoning
    BY <1>1 DEF ItemsOf, ItemIds, Lists
  <2>2. \A x \in DOMAIN t.parts : t.parts[x].item # Reasoning
    BY <2>1 DEF ItemsOf
  <2> QED BY <2>1, <2>2 DEF ItemIds
<1>3. ToOutputItems(t) = [i \in DOMAIN out |-> ItemNamed(t, out[i])]
  BY DEF ToOutputItems, ItemsOf
<1>4. /\ listed \in Seq(TurnItems) /\ Lists(listed, items)
      /\ Contains(listed, Reasoning) <=> Contains(t.order, Reasoning) /\ Reasoning \in all
      /\ unlisted = <<>>
      /\ ToSet(t.order) \subseteq all => listed = t.order
  <2> HIDE DEF all, items
  <2> QED BY <1>1, <1>2, SelectedLists
<1>5. (t.hasThought => NeedsReasoningItem(t)) => listed = t.order
  <2> SUFFICES ASSUME t.hasThought => NeedsReasoningItem(t), NEW z \in ToSet(t.order) PROVE z \in all
    BY <1>4
  <2>1. PICK i \in DOMAIN t.order : t.order[i] = z
    BY DEF ToSet
  <2>2. CASE z = Reasoning
    BY <1>1, <1>2, <2>1, <2>2 DEF Contains
  <2>3. CASE z # Reasoning
    <3>1. \E x \in DOMAIN items : t.order[i] = items[x]
      BY <1>1, <2>1, <2>3 DEF Lists
    <3> QED BY <1>2, <2>1, <3>1
  <2> QED BY <2>2, <2>3
<1> HIDE DEF all, listed, unlisted, items
<1>6. ids = IF NeedsReasoningItem(t) THEN Recorded(listed, Reasoning) ELSE listed
  BY <1>1, <1>2, <1>4 DEF Recorded
<1> HIDE DEF ids
<1>7. ids \in Seq(TurnItems) /\ Lists(ids, items)
  <2>1. Reasoning \in TurnItems
    BY DEF TurnItems
  <2> QED BY <1>1, <1>4, <1>6, <2>1, ListsReasoning, RecordedItem
<1>8. out = ids
  BY <1>4, <1>7, ConcatEmptySeq
<1>9. OutputListed(t, ids)
  BY <1>3, <1>5, <1>6, <1>7, <1>8 DEF OutputListed, items
<1> QED BY <1>9
=============================================================================

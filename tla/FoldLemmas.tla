------------------------------ MODULE FoldLemmas ------------------------------
(***************************************************************************)
(* What the proofs need of numbers and of the folds of the community       *)
(* modules: induction over a range, the largest of a finite set, and that  *)
(* a fold is the function its recursion describes.                         *)
(*                                                                         *)
(* FoldLeft(op, base, seq) is iter[DOMAIN seq], for an iter chosen with    *)
(* iter[s] = op(iter[s \ {Max(s)}], seq[Max(s)]).  The lemmas give the op  *)
(* as a function G of the position and the value, so that they can be      *)
(* cited for every op.                                                     *)
(***************************************************************************)
EXTENDS Selections, FiniteSetTheorems, WellFoundedInduction, TLAPS

\* A set of natural numbers that is not empty has a least one.
LEMMA LeastNumber ==
  ASSUME NEW T \in SUBSET Nat, T # {}
  PROVE  \E x \in T : \A y \in T : x <= y
<1>1. \E x \in T : \A y \in T : ~(<<y, x>> \in OpToRel(<, Nat))
  BY NatLessThanWellFounded, WFMin, Zenon
<1>2. PICK x \in T : \A y \in T : ~(<<y, x>> \in OpToRel(<, Nat))
  BY <1>1
<1>3. \A y \in T : y \in Nat
  OBVIOUS
<1>4. \A y \in T : ~(y < x)
  BY <1>2, <1>3 DEF OpToRel
<1> QED
  BY <1>3, <1>4

\* Induction: what holds of 0 and of each next number holds up to n.  It is
\* given as the set of the numbers of which it holds.
LEMMA RangeInduction ==
  ASSUME NEW n \in Nat, NEW A,
         0 \in A, \A k \in 1..n : k - 1 \in A => k \in A
  PROVE  \A k \in 0..n : k \in A
<1> DEFINE bad == {k \in 0..n : k \notin A}
<1> SUFFICES ASSUME bad # {} PROVE FALSE
  OBVIOUS
<1>1. PICK k \in bad : \A j \in bad : k <= j
  <2>1. bad \in SUBSET Nat
    OBVIOUS
  <2> HIDE DEF bad
  <2> QED BY <2>1, LeastNumber
<1>2. k \in 1..n
  BY <1>1
<1>3. k - 1 \in 0..n /\ k - 1 \notin bad
  BY <1>1, <1>2
<1> QED BY <1>1, <1>2, <1>3

\* The largest of a bounded set is in it.
LEMMA MaxIs ==
  ASSUME NEW n \in Nat, NEW S \in SUBSET (0..n), S # {}
  PROVE  Max(S) \in S /\ \A y \in S : y <= Max(S)
<1> DEFINE back == {n - y : y \in S}
<1>1. back \in SUBSET Nat /\ back # {}
  <2>1. \A y \in S : n - y \in Nat
    OBVIOUS
  <2> QED BY <2>1
<1>2. PICK m \in back : \A k \in back : m <= k
  <2> HIDE DEF back
  <2> QED BY <1>1, LeastNumber
<1>3. PICK x \in S : m = n - x
  BY <1>2
<1>4. \A y \in S : x >= y
  BY <1>2, <1>3
<1>5. Max(S) \in S /\ \A y \in S : Max(S) >= y
  BY <1>4 DEF Max
<1> QED BY <1>5

LEMMA MaxOfPrefix ==
  ASSUME NEW k \in Nat \ {0}
  PROVE  Max(1..k) = k /\ (1..k) \ {Max(1..k)} = 1..(k - 1) /\ 1..k # {}
<1>1. 1..k \in SUBSET (0..k) /\ k \in 1..k
  OBVIOUS
<1>2. Max(1..k) \in 1..k /\ \A y \in 1..k : y <= Max(1..k)
  BY <1>1, MaxIs
<1>3. Max(1..k) = k
  BY <1>1, <1>2
<1> QED BY <1>1, <1>3

LEMMA ListTyped ==
  ASSUME NEW T, NEW n \in Nat, NEW list \in [1..n -> T]
  PROVE  list \in Seq(T) /\ Len(list) = n
  OBVIOUS

\* One element is taken out.
LEMMA RemoveAtIs ==
  ASSUME NEW T, NEW seq \in Seq(T), NEW i \in 1..Len(seq)
  PROVE  /\ RemoveAt(seq, i) \in Seq(T) /\ Len(RemoveAt(seq, i)) = Len(seq) - 1
         /\ \A j \in 1..(Len(seq) - 1) : RemoveAt(seq, i)[j] = IF j < i THEN seq[j] ELSE seq[j + 1]
<1> DEFINE n == Len(seq)
           front == SubSeq(seq, 1, i - 1)
           back == SubSeq(seq, i + 1, n)
<1>1. n \in Nat /\ i \in Nat /\ 1 <= i /\ i <= n
  OBVIOUS
<1>2. front \in Seq(T) /\ Len(front) = i - 1 /\ \A j \in 1..(i - 1) : front[j] = seq[j]
  BY <1>1
<1>3. back \in Seq(T) /\ Len(back) = n - i /\ \A j \in 1..(n - i) : back[j] = seq[j + i]
  BY <1>1
<1> HIDE DEF front, back
<1>4. front \o back \in Seq(T) /\ Len(front \o back) = n - 1
  <2>1. front \in Seq(T) /\ back \in Seq(T)
    BY <1>2, <1>3
  <2>2. front \o back \in Seq(T) /\ Len(front \o back) = Len(front) + Len(back)
    BY <2>1
  <2>3. Len(front) + Len(back) = n - 1
    BY <1>1, <1>2, <1>3
  <2> QED BY <2>2, <2>3
<1>5. ASSUME NEW j \in 1..(n - 1) PROVE (front \o back)[j] = IF j < i THEN seq[j] ELSE seq[j + 1]
  <2>1. CASE j < i
    BY <2>1, <1>1, <1>2, <1>3
  <2>2. CASE ~(j < i)
    <3>1. (front \o back)[j] = back[j - (i - 1)]
      BY <2>2, <1>1, <1>2, <1>3
    <3>2. j - (i - 1) \in 1..(n - i) /\ j - (i - 1) + i = j + 1
      BY <2>2, <1>1
    <3> QED BY <2>2, <3>1, <3>2, <1>3
  <2> QED BY <2>1, <2>2
<1> QED BY <1>4, <1>5 DEF RemoveAt, front, back

\* The recursion of a fold over S.
FoldRule(S, base, G, iter) ==
  \A s \in SUBSET S : iter[s] = IF s = {} THEN base ELSE G[Max(s)][iter[s \ {Max(s)}]]

\* There is a function that satisfies it.
LEMMA FoldExists ==
  ASSUME NEW n \in Nat, NEW S \in SUBSET (0..n), NEW T, NEW base \in T,
         NEW G \in [S -> [T -> T]]
  PROVE  \E iter \in [SUBSET S -> T] : FoldRule(S, base, G, iter)
<1> DEFINE Low(m) == {i \in S : i < m}
           Next(iter, s) == IF s = {} THEN base ELSE G[Max(s)][iter[s \ {Max(s)}]]
           Good(m) == \E iter \in [SUBSET Low(m) -> T] : \A s \in SUBSET Low(m) : iter[s] = Next(iter, s)
           A == {m \in 0..(n + 1) : Good(m)}
<1>1. Good(0)
  <2> DEFINE iter == [s \in {{}} |-> base]
  <2>0. Low(0) = {}
    <3>1. \A i \in S : ~(i < 0)
      OBVIOUS
    <3> QED BY <3>1
  <2>1. SUBSET Low(0) = {{}}
    <3> HIDE DEF Low
    <3> QED BY <2>0
  <2>2. iter \in [SUBSET Low(0) -> T] /\ \A s \in SUBSET Low(0) : iter[s] = Next(iter, s)
    BY <2>1
  <2> QED BY <2>2
<1>2. ASSUME NEW m \in 1..(n + 1), Good(m - 1) PROVE Good(m)
  <2> PICK old \in [SUBSET Low(m - 1) -> T] : \A s \in SUBSET Low(m - 1) : old[s] = Next(old, s)
    BY <1>2
  <2> DEFINE new == [s \in SUBSET Low(m) |-> IF m - 1 \in s THEN G[m - 1][old[s \ {m - 1}]] ELSE old[s]]
  <2>1. \A s \in SUBSET Low(m) : /\ m - 1 \notin s => s \in SUBSET Low(m - 1)
                                 /\ s \ {m - 1} \in SUBSET Low(m - 1)
                                 /\ m - 1 \in s => m - 1 \in S
    OBVIOUS
  <2>2. new \in [SUBSET Low(m) -> T]
    <3> SUFFICES ASSUME NEW s \in SUBSET Low(m)
                 PROVE  (IF m - 1 \in s THEN G[m - 1][old[s \ {m - 1}]] ELSE old[s]) \in T
      OBVIOUS
    <3>1. CASE m - 1 \in s
      <4>1. old[s \ {m - 1}] \in T /\ G[m - 1] \in [T -> T]
        BY <2>1, <3>1
      <4> QED BY <3>1, <4>1
    <3>2. CASE m - 1 \notin s
      BY <2>1, <3>2
    <3> QED BY <3>1, <3>2
  <2>3. \A s \in SUBSET Low(m - 1) : new[s] = old[s]
    <3> SUFFICES ASSUME NEW s \in SUBSET Low(m - 1) PROVE new[s] = old[s]
      OBVIOUS
    <3>1. s \in SUBSET Low(m) /\ m - 1 \notin s
      OBVIOUS
    <3> QED BY <3>1
  <2>4. ASSUME NEW s \in SUBSET Low(m) PROVE new[s] = Next(new, s)
    <3>1. CASE m - 1 \in s
      <4>1. s \in SUBSET (0..n) /\ s # {}
        BY <3>1
      <4>2. Max(s) = m - 1
        <5>1. Max(s) \in s /\ \A y \in s : y <= Max(s)
          BY <4>1, MaxIs
        <5>2. \A y \in s : y \in Nat /\ y <= m - 1
          OBVIOUS
        <5> HIDE DEF Low
        <5> QED BY <3>1, <5>1, <5>2
      <4>3. new[s \ {m - 1}] = old[s \ {m - 1}]
        BY <2>1, <2>3
      <4>4. new[s] = G[m - 1][old[s \ {m - 1}]]
        BY <3>1
      <4> HIDE DEF new
      <4> QED BY <3>1, <4>2, <4>3, <4>4
    <3>2. CASE m - 1 \notin s
      <4>1. s \in SUBSET Low(m - 1) /\ new[s] = old[s]
        BY <2>1, <2>3, <3>2
      <4>2. s \ {Max(s)} \in SUBSET Low(m - 1)
        BY <4>1
      <4>3. new[s \ {Max(s)}] = old[s \ {Max(s)}]
        BY <4>2, <2>3
      <4>4. old[s] = Next(old, s)
        BY <4>1
      <4> HIDE DEF new
      <4> QED BY <4>1, <4>3, <4>4
    <3> QED BY <3>1, <3>2
  <2> HIDE DEF new
  <2> QED BY <2>2, <2>4
<1>3. \A m \in 0..(n + 1) : m \in A
  <2>1. 0 \in A
    <3> HIDE DEF Good
    <3> QED BY <1>1
  <2>2. \A m \in 1..(n + 1) : m - 1 \in A => m \in A
    <3> SUFFICES ASSUME NEW m \in 1..(n + 1), m - 1 \in A PROVE Good(m) /\ m \in 0..(n + 1)
      OBVIOUS
    <3> HIDE DEF Good
    <3> QED BY <1>2
  <2> HIDE DEF A
  <2> QED BY <2>1, <2>2, RangeInduction
<1>4. Good(n + 1)
  <2>1. n + 1 \in 0..(n + 1)
    OBVIOUS
  <2> HIDE DEF Good
  <2> QED BY <1>3, <2>1
<1>5. Low(n + 1) = S
  <2>1. \A i \in S : i < n + 1
    OBVIOUS
  <2> QED BY <2>1
<1> HIDE DEF Low
<1> QED BY <1>4, <1>5 DEF FoldRule

\* The values of a fold, one position after the other.
Walks(h, n, base, G) == h[0] = base /\ \A k \in 1..n : h[k] = G[k][h[k - 1]]

\* A function with the recursion of a fold, where the value before is a T.
Folds(f, n, T, base, G) ==
  /\ f[{}] = base
  /\ \A s \in SUBSET (1..n) : s # {} /\ f[s \ {Max(s)}] \in T => f[s] = G[Max(s)][f[s \ {Max(s)}]]

\* The fold over all positions is the last value of such a walk.
Walked(f, n, T, base, G) == \E h \in [0..n -> T] : Walks(h, n, base, G) /\ h[n] = f[1..n]

LEMMA FoldWalk ==
  ASSUME NEW n \in Nat, NEW T, NEW base \in T, NEW G \in [1..n -> [T -> T]], NEW f, Folds(f, n, T, base, G)
  PROVE  Walked(f, n, T, base, G)
<1>1. 1..0 = {} /\ f[{}] = base
  BY DEF Folds
<1>2. \A k \in 1..n : f[1..(k - 1)] \in T => f[1..k] = G[k][f[1..(k - 1)]]
  <2> SUFFICES ASSUME NEW k \in 1..n, f[1..(k - 1)] \in T PROVE f[1..k] = G[k][f[1..(k - 1)]]
    OBVIOUS
  <2>1. k \in Nat \ {0} /\ 1..k \in SUBSET (1..n)
    OBVIOUS
  <2>2. Max(1..k) = k /\ (1..k) \ {Max(1..k)} = 1..(k - 1) /\ 1..k # {}
    BY <2>1, MaxOfPrefix
  <2> QED BY <2>1, <2>2 DEF Folds
<1> DEFINE h == [k \in 0..n |-> f[1..k]]
           A == {k \in 0..n : f[1..k] \in T}
<1>3. \A k \in 0..n : k \in A
  <2>1. 0 \in A
    BY <1>1
  <2>2. ASSUME NEW k \in 1..n, k - 1 \in A PROVE k \in A
    <3>1. f[1..(k - 1)] \in T /\ k \in 0..n
      BY <2>2
    <3>2. f[1..k] = G[k][f[1..(k - 1)]]
      BY <1>2, <3>1
    <3>3. f[1..k] \in T
      BY <3>1, <3>2
    <3> QED BY <3>1, <3>3
  <2> HIDE DEF A
  <2> QED BY <2>1, <2>2, RangeInduction
<1>4. h \in [0..n -> T]
  BY <1>3
<1>5. h[0] = base /\ h[n] = f[1..n]
  BY <1>1
<1>6. \A k \in 1..n : h[k] = G[k][h[k - 1]]
  <2> SUFFICES ASSUME NEW k \in 1..n PROVE h[k] = G[k][h[k - 1]]
    OBVIOUS
  <2>1. k \in 0..n /\ k - 1 \in 0..n
    OBVIOUS
  <2>2. f[1..(k - 1)] \in T
    BY <1>3, <2>1
  <2> QED BY <1>2, <2>1, <2>2
<1> QED BY <1>4, <1>5, <1>6 DEF Walks, Walked

-----------------------------------------------------------------------------
(* The selections                                                          *)

\* Only, one element after the other.
OnlyRule(h, seq, set) ==
  /\ h[0] = <<>> /\ Only(seq, set) = h[Len(seq)]
  /\ \A k \in 1..Len(seq) :
       h[k] = IF seq[k] \in set THEN Append(h[k - 1], seq[k]) ELSE h[k - 1]

LEMMA OnlySteps ==
  ASSUME NEW E, NEW seq \in Seq(E), NEW set
  PROVE  \E h \in [0..Len(seq) -> Seq(E)] : OnlyRule(h, seq, set)
<1> DEFINE n == Len(seq)
           T == Seq(E)
           G == [k \in 1..n |-> [t \in T |-> IF seq[k] \in set THEN Append(t, seq[k]) ELSE t]]
           P(iter) == iter = [s \in SUBSET (1..n) |->
                                IF s = {} THEN <<>>
                                ELSE IF seq[Max(s)] \in set THEN Append(iter[s \ {Max(s)}], seq[Max(s)])
                                ELSE iter[s \ {Max(s)}]]
           f == CHOOSE iter : P(iter)
<1>1. n \in Nat /\ 1..n \in SUBSET (0..n) /\ DOMAIN seq = 1..n /\ <<>> \in T
  OBVIOUS
<1>2. Only(seq, set) = f[1..n]
  BY <1>1, Zenon DEF Only, FoldLeft, MapThenFoldSet
<1>3. G \in [1..n -> [T -> T]]
  OBVIOUS
<1>4. \E iter : P(iter)
  <2>1. PICK iter \in [SUBSET (1..n) -> T] : FoldRule(1..n, <<>>, G, iter)
    <3> HIDE DEF G, T, n
    <3> QED BY <1>1, <1>3, FoldExists, Zenon
  <2>2. ASSUME NEW s \in SUBSET (1..n), s # {}
        PROVE  G[Max(s)][iter[s \ {Max(s)}]]
                 = IF seq[Max(s)] \in set THEN Append(iter[s \ {Max(s)}], seq[Max(s)])
                   ELSE iter[s \ {Max(s)}]
    <3>1. Max(s) \in 1..n
      BY <1>1, <2>2, MaxIs
    <3>2. iter[s \ {Max(s)}] \in T
      OBVIOUS
    <3> HIDE DEF T
    <3> QED BY <3>1, <3>2
  <2>3. P(iter)
    <3> HIDE DEF G, T
    <3> QED BY <2>1, <2>2 DEF FoldRule
  <2> QED BY <2>3
<1>5. P(f)
  BY <1>4, Zenon
<1> HIDE DEF f
<1>6. f[{}] = <<>> /\ 1..0 = {}
  BY <1>5
<1>7. \A k \in 1..n : f[1..k] = IF seq[k] \in set THEN Append(f[1..(k - 1)], seq[k]) ELSE f[1..(k - 1)]
  <2> SUFFICES ASSUME NEW k \in 1..n
               PROVE  f[1..k] = IF seq[k] \in set THEN Append(f[1..(k - 1)], seq[k]) ELSE f[1..(k - 1)]
    OBVIOUS
  <2>1. Max(1..k) = k /\ (1..k) \ {Max(1..k)} = 1..(k - 1) /\ 1..k # {}
    BY MaxOfPrefix
  <2>2. 1..k \in SUBSET (1..n)
    OBVIOUS
  <2> QED BY <1>5, <2>1, <2>2
<1> DEFINE h == [k \in 0..n |-> f[1..k]]
           A == {k \in 0..n : f[1..k] \in T}
<1>8. \A k \in 0..n : k \in A
  <2>1. 0 \in A
    <3>1. f[1..0] \in T /\ 0 \in 0..n
      <4> HIDE DEF T
      <4> QED BY <1>1, <1>6
    <3> QED BY <3>1
  <2>2. ASSUME NEW k \in 1..n, k - 1 \in A PROVE k \in A
    <3>1. f[1..(k - 1)] \in T
      BY <2>2
    <3>2. seq[k] \in E /\ Append(f[1..(k - 1)], seq[k]) \in T
      BY <3>1
    <3>3. f[1..k] \in T /\ k \in 0..n
      <4> HIDE DEF T
      <4> QED BY <1>7, <3>1, <3>2
    <3> QED BY <3>3
  <2> HIDE DEF A
  <2> QED BY <1>1, <2>1, <2>2, RangeInduction
<1>9. h \in [0..n -> T]
  BY <1>8
<1>10. h[0] = <<>> /\ h[n] = f[1..n] /\ \A k \in 1..n : h[k] = f[1..k] /\ h[k - 1] = f[1..(k - 1)]
  BY <1>1, <1>6
<1> HIDE DEF h
<1>11. OnlyRule(h, seq, set)
  BY <1>2, <1>7, <1>10 DEF OnlyRule
<1> QED BY <1>9, <1>11

\* out is what set picks of the first n of seq: pos says where each comes from.
Picks(out, seq, set, n, pos) ==
  /\ pos \in [1..Len(out) -> 1..n]
  /\ \A i \in 1..Len(out) : out[i] = seq[pos[i]] /\ seq[pos[i]] \in set
  /\ \A i, j \in 1..Len(out) : i < j => pos[i] < pos[j]
  /\ \A k \in 1..n : seq[k] \in set => \E i \in 1..Len(out) : pos[i] = k

LEMMA OnlyIs ==
  ASSUME NEW E, NEW seq \in Seq(E), NEW set
  PROVE  /\ Only(seq, set) \in Seq(E)
         /\ \E pos : Picks(Only(seq, set), seq, set, Len(seq), pos)
<1> DEFINE n == Len(seq)
<1>0. PICK h \in [0..n -> Seq(E)] : OnlyRule(h, seq, set)
  BY OnlySteps, Zenon
<1> /\ h[0] = <<>> /\ Only(seq, set) = h[n]
    /\ \A k \in 1..n :
         h[k] = IF seq[k] \in set THEN Append(h[k - 1], seq[k]) ELSE h[k - 1]
  BY <1>0 DEF OnlyRule
<1>1. n \in Nat /\ \A k \in 1..n : seq[k] \in E
  OBVIOUS
<1> HIDE DEF n
<1> DEFINE A == {k \in 0..n : \E pos : Picks(h[k], seq, set, k, pos)}
<1>2. 0 \in A
  <2> DEFINE pos == [i \in 1..0 |-> 0]
  <2>1. Len(h[0]) = 0 /\ 1..0 = {}
    OBVIOUS
  <2>2. Picks(h[0], seq, set, 0, pos)
    BY <2>1 DEF Picks
  <2> QED BY <2>2, <1>1
<1>3. ASSUME NEW k \in 1..n, k - 1 \in A PROVE k \in A
  <2> PICK pos : Picks(h[k - 1], seq, set, k - 1, pos)
    BY <1>3
  <2>0. h[k - 1] \in Seq(E) /\ Len(h[k - 1]) \in Nat /\ k \in Nat \ {0} /\ k \in 0..n
    BY <1>1
  <2>1. CASE seq[k] \in set
    <3> DEFINE l == Len(h[k - 1])
               new == [i \in 1..(l + 1) |-> IF i = l + 1 THEN k ELSE pos[i]]
    <3>1. h[k] = Append(h[k - 1], seq[k])
      BY <2>1
    <3>2. Len(h[k]) = l + 1 /\ h[k][l + 1] = seq[k] /\ \A i \in 1..l : h[k][i] = h[k - 1][i]
      BY <2>0, <3>1, <1>1
    <3>3. 1..(l + 1) = 1..l \cup {l + 1} /\ l + 1 \notin 1..l /\ 1..k = 1..(k - 1) \cup {k}
      BY <2>0
    <3>4. pos \in [1..l -> 1..(k - 1)]
      BY DEF Picks
    <3>5. new[l + 1] = k /\ \A i \in 1..l : new[i] = pos[i]
      BY <3>3
    <3>6. new \in [1..(l + 1) -> 1..k]
      BY <3>4, <2>0
    <3> HIDE DEF new, l
    <3>7. \A i \in 1..(l + 1) : h[k][i] = seq[new[i]] /\ seq[new[i]] \in set
      BY <2>1, <3>2, <3>3, <3>5 DEF Picks, l
    <3>8. \A i, j \in 1..(l + 1) : i < j => new[i] < new[j]
      <4> SUFFICES ASSUME NEW i \in 1..(l + 1), NEW j \in 1..(l + 1), i < j PROVE new[i] < new[j]
        OBVIOUS
      <4>1. i \in 1..l /\ l \in Nat
        BY <2>0 DEF l
      <4>2. CASE j = l + 1
        <5>1. new[i] = pos[i] /\ new[j] = k /\ pos[i] \in 1..(k - 1)
          BY <4>1, <4>2, <3>4, <3>5
        <5> QED BY <5>1, <2>0
      <4>3. CASE j # l + 1
        BY <4>1, <4>3, <3>5, <3>3 DEF Picks, l
      <4> QED BY <4>2, <4>3
    <3>9. \A m \in 1..k : seq[m] \in set => \E i \in 1..(l + 1) : new[i] = m
      <4> SUFFICES ASSUME NEW m \in 1..k, seq[m] \in set PROVE \E i \in 1..(l + 1) : new[i] = m
        OBVIOUS
      <4>1. CASE m = k
        BY <4>1, <3>3, <3>5
      <4>2. CASE m # k
        <5>1. \E i \in 1..l : pos[i] = m
          BY <4>2, <3>3 DEF Picks, l
        <5> QED BY <5>1, <3>3, <3>5
      <4> QED BY <4>1, <4>2
    <3>10. Picks(h[k], seq, set, k, new)
      BY <3>2, <3>6, <3>7, <3>8, <3>9 DEF Picks
    <3> QED BY <3>10, <2>0
  <2>2. CASE seq[k] \notin set
    <3>1. h[k] = h[k - 1] /\ 1..k = 1..(k - 1) \cup {k}
      BY <2>2, <2>0
    <3>2. Picks(h[k], seq, set, k, pos)
      BY <2>2, <3>1, <2>0 DEF Picks
    <3> QED BY <3>2, <2>0
  <2> QED BY <2>1, <2>2
<1>4. \A k \in 0..n : k \in A
  <2> HIDE DEF A
  <2> QED BY <1>1, <1>2, <1>3, RangeInduction
<1>5. n \in A
  BY <1>1, <1>4
<1> QED BY <1>5, <1>1 DEF n

\* As sets.
LEMMA OnlySet ==
  ASSUME NEW E, NEW seq \in Seq(E), NEW set
  PROVE  Only(seq, set) \in Seq(E) /\ ToSet(Only(seq, set)) = ToSet(seq) \cap set
<1>1. PICK out : out = Only(seq, set)
  OBVIOUS
<1>2. out \in Seq(E)
  BY <1>1, OnlyIs
<1>3. PICK pos : Picks(out, seq, set, Len(seq), pos)
  BY <1>1, OnlyIs
<1>4. DOMAIN out = 1..Len(out) /\ DOMAIN seq = 1..Len(seq)
  BY <1>2
<1>5. \A i \in 1..Len(out) : pos[i] \in 1..Len(seq) /\ out[i] = seq[pos[i]] /\ seq[pos[i]] \in set
  BY <1>3 DEF Picks
<1>6. \A k \in 1..Len(seq) : seq[k] \in set => \E i \in 1..Len(out) : pos[i] = k
  BY <1>3 DEF Picks
<1>7. ToSet(out) \subseteq ToSet(seq) \cap set
  BY <1>4, <1>5 DEF ToSet
<1>8. ASSUME NEW k \in 1..Len(seq), seq[k] \in set PROVE seq[k] \in ToSet(out)
  <2>1. PICK i \in 1..Len(out) : pos[i] = k
    BY <1>6, <1>8
  <2> QED BY <1>4, <1>5, <2>1 DEF ToSet
<1>9. ToSet(seq) \cap set \subseteq ToSet(out)
  BY <1>4, <1>8 DEF ToSet
<1> QED BY <1>1, <1>2, <1>7, <1>9

\* out lists the set, least first.
InOrder(out, set) ==
  /\ out \in Seq(set)
  /\ \A x \in set : \E i \in 1..Len(out) : out[i] = x
  /\ \A i, j \in 1..Len(out) : i < j => out[i] < out[j]

LEMMA AscendingIs ==
  ASSUME NEW n \in Nat, NEW S \in SUBSET (0..n)
  PROVE  InOrder(Ascending(S), S)
<1> DEFINE T == Seq(S)
           G == [x \in S |-> [t \in T |-> Append(t, x)]]
           P(iter) == iter = [s \in SUBSET S |-> IF s = {} THEN <<>>
                                                 ELSE Append(iter[s \ {Max(s)}], Max(s))]
           f == CHOOSE iter : P(iter)
<1>1. Ascending(S) = f[S]
  BY Zenon DEF Ascending, MapThenFoldSet
<1>2. G \in [S -> [T -> T]] /\ <<>> \in T
  OBVIOUS
<1>3. \E iter : P(iter)
  <2>1. PICK iter \in [SUBSET S -> T] : FoldRule(S, <<>>, G, iter)
    <3> HIDE DEF G, T
    <3> QED BY <1>2, FoldExists, Zenon
  <2>2. ASSUME NEW s \in SUBSET S, s # {}
        PROVE  G[Max(s)][iter[s \ {Max(s)}]] = Append(iter[s \ {Max(s)}], Max(s))
    <3>1. Max(s) \in S
      BY <2>2, MaxIs
    <3>2. iter[s \ {Max(s)}] \in T
      OBVIOUS
    <3> HIDE DEF T
    <3> QED BY <3>1, <3>2
  <2>3. P(iter)
    <3> HIDE DEF G, T
    <3> QED BY <2>1, <2>2 DEF FoldRule
  <2> QED BY <2>3
<1>4. P(f)
  BY <1>3, Zenon
<1> HIDE DEF f
<1>5. f[{}] = <<>> /\ \A s \in SUBSET S : s # {} => f[s] = Append(f[s \ {Max(s)}], Max(s))
  BY <1>4
<1> DEFINE A == {m \in 0..(n + 1) : \A s \in SUBSET S : (\A x \in s : x < m) => InOrder(f[s], s)}
<1>6. 0 \in A
  <2>0. 0 \in 0..(n + 1)
    OBVIOUS
  <2> SUFFICES ASSUME NEW s \in SUBSET S, \A x \in s : x < 0 PROVE InOrder(f[s], s)
    BY <2>0, Zenon
  <2>1. s = {}
    <3>1. \A x \in s : x \in Nat /\ ~(x < 0)
      OBVIOUS
    <3> QED BY <3>1
  <2>2. f[s] = <<>> /\ Len(<<>>) = 0 /\ 1..0 = {} /\ <<>> \in Seq(s)
    BY <1>5, <2>1
  <2> QED BY <2>1, <2>2 DEF InOrder
<1>7. ASSUME NEW m \in 1..(n + 1), m - 1 \in A PROVE m \in A
  <2> SUFFICES ASSUME NEW s \in SUBSET S, \A x \in s : x < m PROVE InOrder(f[s], s)
    OBVIOUS
  <2>1. CASE m - 1 \in s
    <3> DEFINE r == s \ {m - 1}
               old == f[r]
    <3>1. Max(s) = m - 1
      <4>1. Max(s) \in s /\ \A y \in s : y <= Max(s)
        BY <2>1, MaxIs
      <4>2. \A y \in s : y \in Nat /\ y <= m - 1
        OBVIOUS
      <4>3. Max(s) <= m - 1 /\ m - 1 <= Max(s) /\ Max(s) \in Nat
        BY <2>1, <4>1, <4>2
      <4> QED BY <4>3
    <3>2. f[s] = Append(old, m - 1)
      BY <1>5, <2>1, <3>1
    <3>3. InOrder(old, r) /\ \A x \in r : x < m - 1
      BY <1>7
    <3>4. Len(old) \in Nat /\ old \in Seq(r) /\ old \in Seq(s)
      BY <3>3 DEF InOrder
    <3> HIDE DEF old, r
    <3> DEFINE l == Len(old)
    <3>5. /\ Len(f[s]) = l + 1 /\ f[s][l + 1] = m - 1 /\ f[s] \in Seq(s)
          /\ \A i \in 1..l : f[s][i] = old[i] /\ old[i] \in r
      BY <2>1, <3>2, <3>4
    <3>6. 1..(l + 1) = 1..l \cup {l + 1} /\ s = r \cup {m - 1}
      BY <2>1, <3>4 DEF r
    <3>7. \A x \in s : \E i \in 1..(l + 1) : f[s][i] = x
      BY <3>3, <3>5, <3>6 DEF InOrder
    <3>8. ASSUME NEW i \in 1..(l + 1), NEW j \in 1..(l + 1), i < j PROVE f[s][i] < f[s][j]
      <4>1. i \in 1..l
        BY <3>8, <3>4
      <4>2. CASE j = l + 1
        BY <4>1, <4>2, <3>3, <3>5
      <4>3. CASE j # l + 1
        <5>1. j \in 1..l
          BY <4>3, <3>6
        <5>2. old[i] < old[j]
          BY <4>1, <5>1, <3>8, <3>3 DEF InOrder
        <5> QED BY <4>1, <5>1, <5>2, <3>5
      <4> QED BY <4>2, <4>3
    <3> QED BY <3>5, <3>7, <3>8 DEF InOrder
  <2>2. CASE m - 1 \notin s
    <3>1. \A x \in s : x \in Nat /\ x < m /\ x # m - 1
      BY <2>2
    <3>2. \A x \in s : x < m - 1
      BY <3>1
    <3> QED BY <3>2, <1>7
  <2> QED BY <2>1, <2>2
<1>8. \A m \in 0..(n + 1) : m \in A
  <2> HIDE DEF A
  <2> QED BY <1>6, <1>7, RangeInduction
<1>9. n + 1 \in A /\ \A x \in S : x < n + 1
  BY <1>8
<1> QED BY <1>1, <1>9
=============================================================================

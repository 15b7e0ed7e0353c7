---------------------------- MODULE Context_proofs ----------------------------
(***************************************************************************)
(* Proofs about what is read.                                              *)
(***************************************************************************)
EXTENDS MCContext, FoldLemmas

-----------------------------------------------------------------------------
(* Recall: the folds of the admission                                      *)

Items == [claim : Claims, row : Row]

\* Cost, one item after the other.
CostRule(h, items) ==
  /\ h[0] = 0 /\ Cost(items) = h[Len(items)]
  /\ \A k \in 1..Len(items) : h[k] = h[k - 1] + BodySize[items[k].row.text]

LEMMA CostSteps ==
  ASSUME NEW items \in Seq(Items)
  PROVE  \E h \in [0..Len(items) -> Nat] : CostRule(h, items)
<1> DEFINE n == Len(items)
           G == [k \in 1..n |-> [t \in Nat |-> t + BodySize[items[k].row.text]]]
           P(iter) == iter = [s \in SUBSET (1..n) |->
                                IF s = {} THEN 0
                                ELSE iter[s \ {Max(s)}] + BodySize[items[Max(s)].row.text]]
           f == CHOOSE iter : P(iter)
<1>1. n \in Nat /\ 1..n \in SUBSET (0..n) /\ DOMAIN items = 1..n
  OBVIOUS
<1>2. Cost(items) = f[1..n]
  BY <1>1, Zenon DEF Cost, FoldLeft, MapThenFoldSet
<1>3. \A k \in 1..n : BodySize[items[k].row.text] \in Nat
  <2> SUFFICES ASSUME NEW k \in 1..n PROVE BodySize[items[k].row.text] \in Nat
    OBVIOUS
  <2>1. items[k] \in Items
    BY <1>1
  <2>2. items[k].row.text \in Bodies
    BY <2>1 DEF Items, Row
  <2> QED BY <2>2, RecallAssumption
<1>4. G \in [1..n -> [Nat -> Nat]]
  BY <1>3
<1>5. \E iter : P(iter)
  <2>1. PICK iter \in [SUBSET (1..n) -> Nat] : FoldRule(1..n, 0, G, iter)
    <3> HIDE DEF G, n
    <3> QED BY <1>1, <1>4, FoldExists, Zenon
  <2>2. ASSUME NEW s \in SUBSET (1..n), s # {}
        PROVE  G[Max(s)][iter[s \ {Max(s)}]] = iter[s \ {Max(s)}] + BodySize[items[Max(s)].row.text]
    <3>1. Max(s) \in 1..n
      BY <1>1, <2>2, MaxIs
    <3>2. iter[s \ {Max(s)}] \in Nat
      OBVIOUS
    <3> QED BY <3>1, <3>2
  <2>3. P(iter)
    <3> HIDE DEF G
    <3> QED BY <2>1, <2>2 DEF FoldRule
  <2> QED BY <2>3
<1>6. P(f)
  BY <1>5, Zenon
<1> HIDE DEF f
<1>7. f[{}] = 0 /\ 1..0 = {}
  BY <1>6
<1>8. \A k \in 1..n : f[1..k] = f[1..(k - 1)] + BodySize[items[k].row.text]
  <2> SUFFICES ASSUME NEW k \in 1..n PROVE f[1..k] = f[1..(k - 1)] + BodySize[items[k].row.text]
    OBVIOUS
  <2>1. Max(1..k) = k /\ (1..k) \ {Max(1..k)} = 1..(k - 1) /\ 1..k # {}
    <3>1. k \in Nat \ {0}
      BY <1>1
    <3> QED BY <3>1, MaxOfPrefix, Zenon
  <2>2. 1..k \in SUBSET (1..n)
    OBVIOUS
  <2> QED BY <1>6, <2>1, <2>2
<1> DEFINE h == [k \in 0..n |-> f[1..k]]
           A == {k \in 0..n : f[1..k] \in Nat}
<1>9. \A k \in 0..n : k \in A
  <2>1. 0 \in A
    BY <1>7, <1>1
  <2>2. ASSUME NEW k \in 1..n, k - 1 \in A PROVE k \in A
    BY <1>3, <1>8, <2>2
  <2> HIDE DEF A
  <2> QED BY <1>1, <2>1, <2>2, RangeInduction
<1>10. h \in [0..n -> Nat]
  BY <1>9
<1>11. h[0] = 0 /\ h[n] = f[1..n] /\ \A k \in 1..n : h[k] = f[1..k] /\ h[k - 1] = f[1..(k - 1)]
  BY <1>1, <1>7
<1> HIDE DEF h
<1>12. CostRule(h, items)
  BY <1>2, <1>8, <1>11 DEF CostRule
<1> QED BY <1>10, <1>12

LEMMA SizeNat == \A i \in Items : BodySize[i.row.text] \in Nat
<1>1. \A i \in Items : i.row.text \in Bodies
  BY DEF Items, Row
<1> QED BY <1>1, RecallAssumption

LEMMA CostEmpty == Cost(<<>>) = 0
<1>1. <<>> \in Seq(Items) /\ Len(<<>>) = 0
  OBVIOUS
<1>2. PICK e \in [0..Len(<<>>) -> Nat] : CostRule(e, <<>>)
  BY <1>1, CostSteps
<1> QED BY <1>1, <1>2 DEF CostRule

\* What is added costs what it costs.
LEMMA CostAdds ==
  ASSUME NEW out \in Seq(Items), NEW i \in Items
  PROVE  /\ Cost(out) \in Nat
         /\ Cost(Append(out, i)) = Cost(out) + BodySize[i.row.text]
<1> DEFINE n == Len(out)
           more == Append(out, i)
<1>1. n \in Nat /\ more \in Seq(Items) /\ Len(more) = n + 1
  OBVIOUS
<1>2. PICK h \in [0..n -> Nat] : CostRule(h, out)
  BY CostSteps
<1>3. PICK g \in [0..Len(more) -> Nat] : CostRule(g, more)
  BY <1>1, CostSteps
<1>5. \A k \in 1..n : more[k] = out[k]
  OBVIOUS
<1>6. more[n + 1] = i
  OBVIOUS
<1> HIDE DEF more
<1> DEFINE A == {k \in 0..n : g[k] = h[k]}
<1>7. \A k \in 0..n : k \in A
  <2>1. 0 \in A
    BY <1>1, <1>2, <1>3 DEF CostRule
  <2>2. ASSUME NEW k \in 1..n, k - 1 \in A PROVE k \in A
    <3>1. g[k - 1] = h[k - 1] /\ k \in 1..Len(more) /\ k \in 0..n
      BY <1>1, <2>2
    <3>2. h[k] = h[k - 1] + BodySize[out[k].row.text]
      BY <1>2 DEF CostRule
    <3>3. g[k] = g[k - 1] + BodySize[more[k].row.text]
      BY <1>3, <3>1 DEF CostRule
    <3> QED BY <3>1, <3>2, <3>3, <1>5
  <2> HIDE DEF A
  <2> QED BY <1>1, <2>1, <2>2, RangeInduction
<1>8. g[n] = h[n] /\ n + 1 \in 1..Len(more) /\ h[n] \in Nat
  BY <1>1, <1>7, <1>2
<1>9. Cost(more) = g[n] + BodySize[i.row.text] /\ Cost(out) = h[n]
  BY <1>1, <1>2, <1>3, <1>6, <1>8 DEF CostRule
<1> QED BY <1>8, <1>9 DEF more

\* Fresh, one item after the other.
HasText(out, i) == \E k \in DOMAIN out : out[k].row.text = i.row.text

FreshRule(h, items) ==
  /\ h[0] = <<>> /\ Fresh(items) = h[Len(items)]
  /\ \A k \in 1..Len(items) :
       h[k] = IF HasText(h[k - 1], items[k]) THEN h[k - 1] ELSE Append(h[k - 1], items[k])

LEMMA FreshSteps ==
  ASSUME NEW items \in Seq(Items)
  PROVE  \E h \in [0..Len(items) -> Seq(Items)] : FreshRule(h, items)
<1> DEFINE n == Len(items)
           T == Seq(Items)
           G == [k \in 1..n |-> [t \in T |-> IF HasText(t, items[k]) THEN t ELSE Append(t, items[k])]]
           P(iter) == iter = [s \in SUBSET (1..n) |->
                                IF s = {} THEN <<>>
                                ELSE IF HasText(iter[s \ {Max(s)}], items[Max(s)]) THEN iter[s \ {Max(s)}]
                                ELSE Append(iter[s \ {Max(s)}], items[Max(s)])]
           f == CHOOSE iter : P(iter)
<1>1. n \in Nat /\ 1..n \in SUBSET (0..n) /\ DOMAIN items = 1..n /\ <<>> \in T
  OBVIOUS
<1>2. Fresh(items) = f[1..n]
  BY <1>1, Zenon DEF Fresh, FoldLeft, MapThenFoldSet, HasText
<1>3. \A k \in 1..n : items[k] \in Items
  BY <1>1
<1>4. G \in [1..n -> [T -> T]]
  BY <1>3
<1>5. \E iter : P(iter)
  <2>1. PICK iter \in [SUBSET (1..n) -> T] : FoldRule(1..n, <<>>, G, iter)
    <3> HIDE DEF G, n, T
    <3> QED BY <1>1, <1>4, FoldExists, Zenon
  <2>2. ASSUME NEW s \in SUBSET (1..n), s # {}
        PROVE  G[Max(s)][iter[s \ {Max(s)}]]
                 = IF HasText(iter[s \ {Max(s)}], items[Max(s)]) THEN iter[s \ {Max(s)}]
                   ELSE Append(iter[s \ {Max(s)}], items[Max(s)])
    <3>1. Max(s) \in 1..n
      BY <1>1, <2>2, MaxIs
    <3>2. iter[s \ {Max(s)}] \in T
      OBVIOUS
    <3> HIDE DEF T
    <3> QED BY <3>1, <3>2
  <2>3. P(iter)
    <3> HIDE DEF G, T
    <3> QED BY <2>1, <2>2 DEF FoldRule
  <2> QED BY <2>3
<1>6. P(f)
  BY <1>5, Zenon
<1> HIDE DEF f
<1>7. f[{}] = <<>> /\ 1..0 = {}
  BY <1>6
<1>8. \A k \in 1..n : f[1..k] = IF HasText(f[1..(k - 1)], items[k]) THEN f[1..(k - 1)]
                                ELSE Append(f[1..(k - 1)], items[k])
  <2> SUFFICES ASSUME NEW k \in 1..n
               PROVE  f[1..k] = IF HasText(f[1..(k - 1)], items[k]) THEN f[1..(k - 1)]
                                ELSE Append(f[1..(k - 1)], items[k])
    OBVIOUS
  <2>1. Max(1..k) = k /\ (1..k) \ {Max(1..k)} = 1..(k - 1) /\ 1..k # {}
    <3>1. k \in Nat \ {0}
      BY <1>1
    <3> QED BY <3>1, MaxOfPrefix, Zenon
  <2>2. 1..k \in SUBSET (1..n)
    OBVIOUS
  <2> QED BY <1>6, <2>1, <2>2
<1> DEFINE h == [k \in 0..n |-> f[1..k]]
           A == {k \in 0..n : f[1..k] \in T}
<1>9. \A k \in 0..n : k \in A
  <2>1. 0 \in A
    <3>1. f[1..0] \in T /\ 0 \in 0..n
      <4> HIDE DEF T
      <4> QED BY <1>1, <1>7
    <3> QED BY <3>1
  <2>2. ASSUME NEW k \in 1..n, k - 1 \in A PROVE k \in A
    <3>1. f[1..(k - 1)] \in T
      BY <2>2
    <3>2. Append(f[1..(k - 1)], items[k]) \in T
      BY <3>1, <1>3
    <3>3. f[1..k] \in T /\ k \in 0..n
      <4> HIDE DEF T
      <4> QED BY <1>8, <3>1, <3>2
    <3> QED BY <3>3
  <2> HIDE DEF A
  <2> QED BY <1>1, <2>1, <2>2, RangeInduction
<1>10. h \in [0..n -> T]
  BY <1>9
<1>11. h[0] = <<>> /\ h[n] = f[1..n] /\ \A k \in 1..n : h[k] = f[1..k] /\ h[k - 1] = f[1..(k - 1)]
  BY <1>1, <1>7
<1> HIDE DEF h
<1>12. FreshRule(h, items)
  BY <1>2, <1>8, <1>11 DEF FreshRule
<1> QED BY <1>10, <1>12

\* The elements of out are among the first n of items, with texts of their own.
Distinct(out) == \A i, j \in 1..Len(out) : out[i].row.text = out[j].row.text => i = j
AmongFirst(out, items, n) == \A i \in 1..Len(out) : \E k \in 1..n : out[i] = items[k]

LEMMA AppendDistinct ==
  ASSUME NEW out \in Seq(Items), NEW i \in Items, Distinct(out), ~HasText(out, i)
  PROVE  Distinct(Append(out, i))
<1> DEFINE new == Append(out, i)
           l == Len(out)
<1>1. Len(new) = l + 1 /\ l \in Nat /\ new[l + 1] = i /\ DOMAIN out = 1..l
  OBVIOUS
<1>2. \A j \in 1..l : new[j] = out[j] /\ new[j].row.text # i.row.text
  BY <1>1 DEF HasText
<1> HIDE DEF new, l
<1>3. 1..(l + 1) = 1..l \cup {l + 1}
  BY <1>1
<1>4. ASSUME NEW j \in 1..(l + 1), NEW k \in 1..(l + 1), new[j].row.text = new[k].row.text
      PROVE  j = k
  <2>1. CASE j \in 1..l /\ k \in 1..l
    BY <2>1, <1>2, <1>4 DEF Distinct, l
  <2>2. CASE ~(j \in 1..l /\ k \in 1..l)
    BY <2>2, <1>1, <1>2, <1>3, <1>4
  <2> QED BY <2>1, <2>2
<1> QED BY <1>1, <1>4 DEF Distinct, new

LEMMA AppendAmong ==
  ASSUME NEW out \in Seq(Items), NEW items, NEW n \in Nat \ {0}, AmongFirst(out, items, n - 1)
  PROVE  AmongFirst(out, items, n) /\ AmongFirst(Append(out, items[n]), items, n)
<1> DEFINE new == Append(out, items[n])
           l == Len(out)
<1>1. l \in Nat /\ Len(new) = l + 1 /\ new[l + 1] = items[n] /\ \A j \in 1..l : new[j] = out[j]
  <2>1. out \in Seq(Items \cup {items[n]})
    OBVIOUS
  <2> QED BY <2>1
<1>2. 1..n = 1..(n - 1) \cup {n} /\ 1..(l + 1) = 1..l \cup {l + 1}
  BY <1>1
<1> QED BY <1>1, <1>2 DEF AmongFirst

\* Of the items Fresh keeps one for each text.
LEMMA FreshIs ==
  ASSUME NEW items \in Seq(Items)
  PROVE  /\ Fresh(items) \in Seq(Items)
         /\ AmongFirst(Fresh(items), items, Len(items))
         /\ Distinct(Fresh(items))
         /\ \A k \in 1..Len(items) : HasText(Fresh(items), items[k])
<1> DEFINE n == Len(items)
<1>0. PICK h \in [0..n -> Seq(Items)] : FreshRule(h, items)
  BY FreshSteps, Zenon
<1>1. n \in Nat /\ \A k \in 1..n : items[k] \in Items
  OBVIOUS
<1> DEFINE Good(k) == /\ AmongFirst(h[k], items, k) /\ Distinct(h[k])
                      /\ \A i \in 1..k : HasText(h[k], items[i])
           A == {k \in 0..n : Good(k)}
<1> HIDE DEF n
<1>2. 0 \in A
  <2>1. h[0] = <<>> /\ Len(<<>>) = 0 /\ 1..0 = {}
    BY <1>0 DEF FreshRule
  <2> QED BY <1>1, <2>1 DEF AmongFirst, Distinct
<1>3. ASSUME NEW k \in 1..n, k - 1 \in A PROVE k \in A
  <2> DEFINE out == h[k - 1]
  <2>1. /\ out \in Seq(Items) /\ Good(k - 1) /\ k \in Nat \ {0} /\ items[k] \in Items
        /\ k \in 0..n /\ 1..k = 1..(k - 1) \cup {k}
    BY <1>1, <1>3
  <2>2. h[k] = IF HasText(out, items[k]) THEN out ELSE Append(out, items[k])
    BY <1>0 DEF FreshRule, n
  <2> HIDE DEF out
  <2>3. AmongFirst(h[k], items, k)
    BY <2>1, <2>2, AppendAmong DEF out
  <2>4. Distinct(h[k])
    BY <2>1, <2>2, AppendDistinct DEF out
  <2>5. \A i \in 1..k : HasText(h[k], items[i])
    <3>1. CASE HasText(out, items[k])
      BY <3>1, <2>1, <2>2 DEF out
    <3>2. CASE ~HasText(out, items[k])
      <4>1. /\ DOMAIN Append(out, items[k]) = DOMAIN out \cup {Len(out) + 1}
            /\ \A i \in DOMAIN out : Append(out, items[k])[i] = out[i]
            /\ Append(out, items[k])[Len(out) + 1] = items[k]
        BY <2>1
      <4>2. HasText(Append(out, items[k]), items[k])
        BY <4>1 DEF HasText
      <4>3. \A i \in 1..(k - 1) : HasText(Append(out, items[k]), items[i])
        BY <4>1, <2>1 DEF HasText, out
      <4> QED BY <3>2, <4>2, <4>3, <2>1, <2>2
    <3> QED BY <3>1, <3>2
  <2> QED BY <2>1, <2>3, <2>4, <2>5
<1>4. \A k \in 0..n : k \in A
  <2> HIDE DEF A
  <2> QED BY <1>1, <1>2, <1>3, RangeInduction
<1>5. n \in A /\ n \in 0..n /\ Fresh(items) = h[n]
  BY <1>0, <1>1, <1>4 DEF FreshRule, n
<1> QED BY <1>5 DEF n

\* The numbers of a sequence have a bound.
LEMMA ClaimsBounded ==
  ASSUME NEW items \in Seq(Items)
  PROVE  \E b \in Nat : {items[k].claim : k \in DOMAIN items} \in SUBSET (0..b)
<1> DEFINE n == Len(items)
           A == {k \in 0..n : \E b \in Nat : \A i \in 1..k : items[i].claim <= b}
<1>1. n \in Nat /\ DOMAIN items = 1..n /\ \A k \in 1..n : items[k].claim \in Nat
  <2>1. n \in Nat /\ DOMAIN items = 1..n /\ \A k \in 1..n : items[k] \in Items
    OBVIOUS
  <2>2. \A i \in Items : i.claim \in Nat
    BY RecallAssumption DEF Items
  <2> QED BY <2>1, <2>2
<1> HIDE DEF n
<1>2. 0 \in A
  BY <1>1
<1>3. ASSUME NEW k \in 1..n, k - 1 \in A PROVE k \in A
  <2>1. PICK b \in Nat : \A i \in 1..(k - 1) : items[i].claim <= b
    BY <1>3
  <2>2. \A i \in 1..k : items[i].claim <= b + items[k].claim
    BY <1>1, <2>1
  <2>3. b + items[k].claim \in Nat /\ k \in 0..n
    BY <1>1
  <2> QED BY <2>2, <2>3
<1>4. \A k \in 0..n : k \in A
  <2> HIDE DEF A
  <2> QED BY <1>1, <1>2, <1>3, RangeInduction
<1>5. PICK b \in Nat : \A i \in 1..n : items[i].claim <= b
  <2>1. n \in 0..n
    BY <1>1
  <2>2. n \in A
    <3> HIDE DEF A
    <3> QED BY <2>1, <1>4
  <2> QED BY <2>2
<1>6. \A i \in 1..n : items[i].claim \in 0..b
  BY <1>1, <1>5
<1> QED BY <1>1, <1>6

\* ByKey has one item of each claim.
LEMMA ByKeyIs ==
  ASSUME NEW items \in Seq(Items)
  PROVE  /\ ByKey(items) \in Seq(Items)
         /\ \A n \in 1..Len(ByKey(items)) : \E k \in 1..Len(items) : ByKey(items)[n] = items[k]
         /\ \A k \in 1..Len(items) : \E n \in 1..Len(ByKey(items)) : ByKey(items)[n].claim = items[k].claim
         /\ \A m, n \in 1..Len(ByKey(items)) : ByKey(items)[m].claim = ByKey(items)[n].claim => m = n
<1> DEFINE S == {items[k].claim : k \in DOMAIN items}
           keys == Ascending(S)
           Of(n) == CHOOSE k \in DOMAIN items : items[k].claim = keys[n]
           r == [n \in DOMAIN keys |-> items[Of(n)]]
<1>1. InOrder(keys, S)
  <2>1. PICK b \in Nat : S \in SUBSET (0..b)
    BY ClaimsBounded
  <2> HIDE DEF S
  <2> QED BY <2>1, AscendingIs
<1>2. S \subseteq Nat
  <2>1. \A i \in Items : i.claim \in Nat
    BY RecallAssumption DEF Items
  <2>2. \A k \in DOMAIN items : items[k] \in Items
    OBVIOUS
  <2> QED BY <2>1, <2>2
<1> HIDE DEF keys
<1>3. Len(keys) \in Nat /\ DOMAIN keys = 1..Len(keys) /\ \A n \in 1..Len(keys) : keys[n] \in S
  <2> HIDE DEF S
  <2> QED BY <1>1 DEF InOrder
<1>4. \A n \in 1..Len(keys) : Of(n) \in DOMAIN items /\ items[Of(n)].claim = keys[n]
  BY <1>3
<1> HIDE DEF Of
<1>5. \A n \in 1..Len(keys) : r[n] = items[Of(n)] /\ r[n] \in Items /\ r[n].claim = keys[n]
  BY <1>3, <1>4
<1>6. r \in Seq(Items) /\ Len(r) = Len(keys)
  BY <1>3, <1>5
<1>7. ByKey(items) = r
  BY DEF ByKey, keys, Of
<1> HIDE DEF r
<1>8. \A n \in 1..Len(r) : \E k \in 1..Len(items) : r[n] = items[k]
  <2> SUFFICES ASSUME NEW n \in 1..Len(keys) PROVE \E k \in 1..Len(items) : r[n] = items[k]
    BY <1>6
  <2>1. Of(n) \in 1..Len(items)
    BY <1>4
  <2>2. r[n] = items[Of(n)]
    BY <1>5
  <2> QED BY <2>1, <2>2, Zenon
<1>9. \A k \in 1..Len(items) : \E n \in 1..Len(r) : r[n].claim = items[k].claim
  <2> SUFFICES ASSUME NEW k \in 1..Len(items) PROVE \E n \in 1..Len(r) : r[n].claim = items[k].claim
    OBVIOUS
  <2>1. items[k].claim \in S
    OBVIOUS
  <2>2. PICK n \in 1..Len(keys) : keys[n] = items[k].claim
    <3> HIDE DEF S
    <3> QED BY <1>1, <2>1 DEF InOrder
  <2> QED BY <2>2, <1>5, <1>6
<1>10. ASSUME NEW m \in 1..Len(r), NEW n \in 1..Len(r), r[m].claim = r[n].claim PROVE m = n
  <2>1. keys[m] = keys[n] /\ m \in 1..Len(keys) /\ n \in 1..Len(keys) /\ keys[m] \in Nat
    BY <1>2, <1>3, <1>5, <1>6, <1>10
  <2>2. \A i, j \in 1..Len(keys) : i < j => keys[i] < keys[j]
    <3> HIDE DEF S
    <3> QED BY <1>1, Zenon DEF InOrder
  <2>3. ~(m < n) /\ ~(n < m)
    BY <2>1, <2>2
  <2> QED BY <2>1, <2>3, <1>3
<1> QED BY <1>6, <1>7, <1>8, <1>9, <1>10

\* WithinBudget, one item after the other.
TooMuch(out, i) == Cost(out) + BodySize[i.row.text] > LayerBudget

BudgetRule(h, items) ==
  /\ h[0] = <<>> /\ WithinBudget(items) = h[Len(ByKey(items))]
  /\ \A k \in 1..Len(ByKey(items)) :
       h[k] = IF TooMuch(h[k - 1], ByKey(items)[k]) THEN h[k - 1] ELSE Append(h[k - 1], ByKey(items)[k])

LEMMA BudgetSteps ==
  ASSUME NEW items, ByKey(items) \in Seq(Items)
  PROVE  \E h \in [0..Len(ByKey(items)) -> Seq(Items)] : BudgetRule(h, items)
<1> DEFINE b == ByKey(items)
           n == Len(b)
           T == Seq(Items)
           G == [k \in 1..n |-> [t \in T |-> IF TooMuch(t, b[k]) THEN t ELSE Append(t, b[k])]]
           P(iter) == iter = [s \in SUBSET (1..n) |->
                                IF s = {} THEN <<>>
                                ELSE IF TooMuch(iter[s \ {Max(s)}], b[Max(s)]) THEN iter[s \ {Max(s)}]
                                ELSE Append(iter[s \ {Max(s)}], b[Max(s)])]
           f == CHOOSE iter : P(iter)
<1>1. n \in Nat /\ 1..n \in SUBSET (0..n) /\ DOMAIN b = 1..n /\ <<>> \in T
  OBVIOUS
<1>2. WithinBudget(items) = f[1..n]
  BY <1>1, Zenon DEF WithinBudget, FoldLeft, MapThenFoldSet, TooMuch
<1>3. \A k \in 1..n : b[k] \in Items
  BY <1>1
<1> HIDE DEF b
<1>4. G \in [1..n -> [T -> T]]
  BY <1>3
<1>5. \E iter : P(iter)
  <2>1. PICK iter \in [SUBSET (1..n) -> T] : FoldRule(1..n, <<>>, G, iter)
    <3> HIDE DEF G, n, T
    <3> QED BY <1>1, <1>4, FoldExists, Zenon
  <2>2. ASSUME NEW s \in SUBSET (1..n), s # {}
        PROVE  G[Max(s)][iter[s \ {Max(s)}]]
                 = IF TooMuch(iter[s \ {Max(s)}], b[Max(s)]) THEN iter[s \ {Max(s)}]
                   ELSE Append(iter[s \ {Max(s)}], b[Max(s)])
    <3>1. Max(s) \in 1..n
      BY <1>1, <2>2, MaxIs
    <3>2. iter[s \ {Max(s)}] \in T
      OBVIOUS
    <3> HIDE DEF T
    <3> QED BY <3>1, <3>2
  <2>3. P(iter)
    <3> HIDE DEF G, T
    <3> QED BY <2>1, <2>2 DEF FoldRule
  <2> QED BY <2>3
<1>6. P(f)
  BY <1>5, Zenon
<1> HIDE DEF f
<1>7. f[{}] = <<>> /\ 1..0 = {}
  BY <1>6
<1>8. \A k \in 1..n : f[1..k] = IF TooMuch(f[1..(k - 1)], b[k]) THEN f[1..(k - 1)]
                                ELSE Append(f[1..(k - 1)], b[k])
  <2> SUFFICES ASSUME NEW k \in 1..n
               PROVE  f[1..k] = IF TooMuch(f[1..(k - 1)], b[k]) THEN f[1..(k - 1)]
                                ELSE Append(f[1..(k - 1)], b[k])
    OBVIOUS
  <2>1. Max(1..k) = k /\ (1..k) \ {Max(1..k)} = 1..(k - 1) /\ 1..k # {}
    <3>1. k \in Nat \ {0}
      BY <1>1
    <3> QED BY <3>1, MaxOfPrefix, Zenon
  <2>2. 1..k \in SUBSET (1..n)
    OBVIOUS
  <2> QED BY <1>6, <2>1, <2>2
<1> DEFINE h == [k \in 0..n |-> f[1..k]]
           A == {k \in 0..n : f[1..k] \in T}
<1>9. \A k \in 0..n : k \in A
  <2>1. 0 \in A
    <3>1. f[1..0] \in T /\ 0 \in 0..n
      <4> HIDE DEF T
      <4> QED BY <1>1, <1>7
    <3> QED BY <3>1
  <2>2. ASSUME NEW k \in 1..n, k - 1 \in A PROVE k \in A
    <3>1. f[1..(k - 1)] \in T
      BY <2>2
    <3>2. Append(f[1..(k - 1)], b[k]) \in T
      BY <3>1, <1>3
    <3>3. f[1..k] \in T /\ k \in 0..n
      <4> HIDE DEF T
      <4> QED BY <1>8, <3>1, <3>2
    <3> QED BY <3>3
  <2> HIDE DEF A
  <2> QED BY <1>1, <2>1, <2>2, RangeInduction
<1>10. h \in [0..n -> T]
  BY <1>9
<1>11. h[0] = <<>> /\ h[n] = f[1..n] /\ \A k \in 1..n : h[k] = f[1..k] /\ h[k - 1] = f[1..(k - 1)]
  BY <1>1, <1>7
<1> HIDE DEF h
<1>12. BudgetRule(h, items)
  BY <1>2, <1>8, <1>11 DEF BudgetRule, b
<1> QED BY <1>10, <1>12 DEF b

\* Of items with one text and one claim each, WithinBudget takes what fits.
OneOfEach(items) == \A j, k \in 1..Len(items) : items[j].claim = items[k].claim => items[j] = items[k]

LEMMA BudgetIs ==
  ASSUME NEW items \in Seq(Items), Distinct(items), OneOfEach(items)
  PROVE  /\ WithinBudget(items) \in Seq(Items)
         /\ AmongFirst(WithinBudget(items), items, Len(items))
         /\ Distinct(WithinBudget(items))
         /\ Cost(WithinBudget(items)) <= LayerBudget
         /\ \A k \in 1..Len(items) :
              HasText(WithinBudget(items), items[k]) \/ TooMuch(WithinBudget(items), items[k])
<1> DEFINE b == ByKey(items)
           n == Len(b)
<1>1. /\ b \in Seq(Items) /\ n \in Nat
      /\ \A m \in 1..n : \E k \in 1..Len(items) : b[m] = items[k]
      /\ \A k \in 1..Len(items) : \E m \in 1..n : b[m].claim = items[k].claim
      /\ \A m, l \in 1..n : b[m].claim = b[l].claim => m = l
  <2>1. /\ b \in Seq(Items)
        /\ \A m \in 1..n : \E k \in 1..Len(items) : b[m] = items[k]
        /\ \A k \in 1..Len(items) : \E m \in 1..n : b[m].claim = items[k].claim
        /\ \A m, l \in 1..n : b[m].claim = b[l].claim => m = l
    BY ByKeyIs, Zenon
  <2> HIDE DEF b
  <2>2. Len(b) \in Nat
    BY <2>1
  <2> QED BY <2>1, <2>2, Zenon
<1>2. PICK h \in [0..n -> Seq(Items)] : BudgetRule(h, items)
  <2> HIDE DEF n
  <2> QED BY <1>1, BudgetSteps, Zenon DEF n, b
<1> HIDE DEF n, b
<1>3. \A m \in 1..n : b[m] \in Items
  BY <1>1 DEF n
<1>4. \A m, l \in 1..n : b[m].row.text = b[l].row.text => m = l
  <2> SUFFICES ASSUME NEW m \in 1..n, NEW l \in 1..n, b[m].row.text = b[l].row.text PROVE m = l
    OBVIOUS
  <2>1. PICK j \in 1..Len(items) : b[m] = items[j]
    BY <1>1
  <2>2. PICK k \in 1..Len(items) : b[l] = items[k]
    BY <1>1
  <2>3. j = k
    BY <2>1, <2>2 DEF Distinct
  <2> QED BY <1>1, <2>1, <2>2, <2>3
<1> DEFINE Good(k) == /\ AmongFirst(h[k], b, k) /\ Distinct(h[k]) /\ Cost(h[k]) <= LayerBudget
                      /\ \A i \in 1..k : HasText(h[k], b[i]) \/ TooMuch(h[k], b[i])
           A == {k \in 0..n : Good(k)}
<1>5. 0 \in A
  <2>1. h[0] = <<>> /\ Len(<<>>) = 0 /\ 1..0 = {}
    BY <1>2 DEF BudgetRule
  <2>2. LayerBudget \in Nat /\ 0 \in 0..n
    BY <1>1, RecallAssumption
  <2>3. Cost(h[0]) <= LayerBudget
    BY <2>1, <2>2, CostEmpty
  <2>4. AmongFirst(h[0], b, 0) /\ Distinct(h[0])
    BY <2>1 DEF AmongFirst, Distinct
  <2> QED BY <2>1, <2>2, <2>3, <2>4
<1>6. ASSUME NEW k \in 1..n, k - 1 \in A PROVE k \in A
  <2> DEFINE out == h[k - 1]
             i == b[k]
  <2>1. /\ out \in Seq(Items) /\ Good(k - 1) /\ k \in Nat \ {0} /\ i \in Items
        /\ k \in 0..n /\ 1..k = 1..(k - 1) \cup {k}
    <3>1. Good(k - 1)
      BY <1>6
    <3>2. out \in Seq(Items) /\ k \in Nat \ {0} /\ k \in 0..n /\ 1..k = 1..(k - 1) \cup {k}
      <4>1. k \in Nat \ {0} /\ k \in 0..n /\ k - 1 \in 0..n
        BY <1>1
      <4>2. 1..k = 1..(k - 1) \cup {k}
        BY <4>1
      <4>3. out \in Seq(Items)
        BY <4>1
      <4> QED BY <4>1, <4>2, <4>3
    <3> HIDE DEF Good
    <3> QED BY <3>1, <3>2, <1>3
  <2>2. h[k] = IF TooMuch(out, i) THEN out ELSE Append(out, i)
    BY <1>2 DEF BudgetRule, n, b
  <2>3. AmongFirst(h[k], b, k)
    <3> HIDE DEF out
    <3> QED BY <2>1, <2>2, AppendAmong DEF out
  <2>4. ~HasText(out, i)
    <3> SUFFICES ASSUME NEW j \in DOMAIN out, out[j].row.text = i.row.text PROVE FALSE
      BY DEF HasText
    <3>0. AmongFirst(out, b, k - 1) /\ j \in 1..Len(out)
      BY <2>1
    <3>1. PICK m \in 1..(k - 1) : out[j] = b[m]
      BY <3>0, Zenon DEF AmongFirst
    <3>2. m \in 1..n /\ k \in 1..n /\ m # k
      BY <1>1
    <3>3. b[m].row.text = b[k].row.text
      BY <3>1
    <3> HIDE DEF Good
    <3> QED BY <3>2, <3>3, <1>4
  <2>5. Distinct(h[k])
    <3> HIDE DEF out, i
    <3> QED BY <2>1, <2>2, <2>4, AppendDistinct DEF out
  <2>6. /\ Cost(out) \in Nat /\ BodySize[i.row.text] \in Nat
        /\ Cost(Append(out, i)) = Cost(out) + BodySize[i.row.text]
    BY <2>1, CostAdds, SizeNat
  <2>7. LayerBudget \in Nat
    BY RecallAssumption
  <2>8. Cost(h[k]) <= LayerBudget
    BY <2>1, <2>2, <2>6, <2>7 DEF TooMuch
  <2>9. ASSUME NEW m \in 1..k PROVE HasText(h[k], b[m]) \/ TooMuch(h[k], b[m])
    <3>1. CASE TooMuch(out, i)
      BY <3>1, <2>1, <2>2
    <3>2. CASE ~TooMuch(out, i)
      <4>1. /\ DOMAIN Append(out, i) = DOMAIN out \cup {Len(out) + 1}
            /\ \A j \in DOMAIN out : Append(out, i)[j] = out[j]
            /\ Append(out, i)[Len(out) + 1] = i
        BY <2>1
      <4>2. CASE m = k
        BY <3>2, <4>1, <4>2, <2>2 DEF HasText
      <4>3. CASE m # k
        <5>1. m \in 1..(k - 1)
          BY <4>3, <2>1
        <5>2. CASE HasText(out, b[m])
          BY <3>2, <4>1, <5>2, <2>2 DEF HasText
        <5>3. CASE TooMuch(out, b[m])
          <6>0. m \in 1..n
            <7> HIDE DEF Good, out, i, A
            <7> QED BY <1>1, <5>1
          <6>1. BodySize[b[m].row.text] \in Nat
            <7>1. b[m] \in Items
              <8> HIDE DEF Good, out, i, A
              <8> QED BY <6>0, <1>3
            <7> HIDE DEF Good, out, i, A
            <7> QED BY <7>1, SizeNat
          <6>2. TooMuch(Append(out, i), b[m])
            BY <5>3, <6>1, <2>6, <2>7 DEF TooMuch
          <6> QED BY <3>2, <6>2, <2>2
        <5> QED BY <5>1, <5>2, <5>3, <2>1
      <4> QED BY <4>2, <4>3
    <3> QED BY <3>1, <3>2
  <2> HIDE DEF out, i
  <2> QED BY <2>1, <2>3, <2>5, <2>8, <2>9
<1>7. \A k \in 0..n : k \in A
  <2> HIDE DEF A
  <2> QED BY <1>1, <1>5, <1>6, RangeInduction
<1>8. n \in 0..n /\ Good(n) /\ WithinBudget(items) = h[n] /\ h[n] \in Seq(Items)
  <2>1. n \in 0..n
    BY <1>1
  <2>2. Good(n) /\ h[n] \in Seq(Items)
    <3> HIDE DEF Good
    <3> QED BY <1>7, <2>1
  <2>3. WithinBudget(items) = h[n]
    BY <1>2, Zenon DEF BudgetRule, n, b
  <2> QED BY <2>1, <2>2, <2>3
<1> DEFINE p == WithinBudget(items)
<1>9. AmongFirst(p, items, Len(items))
  BY <1>1, <1>8 DEF AmongFirst
<1>10. ASSUME NEW k \in 1..Len(items) PROVE HasText(p, items[k]) \/ TooMuch(p, items[k])
  <2>1. PICK m \in 1..n : b[m].claim = items[k].claim
    BY <1>1
  <2>0. PICK j \in 1..Len(items) : b[m] = items[j]
    BY <1>1
  <2>2. b[m] = items[k]
    BY <2>0, <2>1, Zenon DEF OneOfEach
  <2> QED BY <2>2, <1>8
<1> QED BY <1>8, <1>9, <1>10

-----------------------------------------------------------------------------
(* Recall: the invariant                                                   *)

Rows == Row \cup {NoRow}

Outcomes == {"none", "ok", "abstained", "unavailable", "opened", "captured"}

Reasons == {"none", "no_answer", "authority_reopen_failed", "policy_filtered", "authority_not_found",
            "memory_type_not_injectable", "authority_receipt_changed", "injection_policy_filtered",
            "injection_budget_filtered", "authority_store_unavailable"}

Recalls == [phase : {"idle", "found", "told"}, mode : Modes \cup {"none"}, read : SUBSET Claims,
            items : Seq(Items), status : Outcomes, reason : Reasons, prompt : Seq(Items)]

RecallTyped ==
  /\ kind \in [Claims -> Kinds]
  /\ authority \in [Claims -> Rows]
  /\ index \in [Claims -> Rows]
  /\ changes \in 0..MaxChanges
  /\ recall \in Recalls

\* What the search has found was in force when it was read, and has changed
\* its state since then only under another governance id.
ItemHolds(i) ==
  /\ i.row.state = "active" /\ i.row.source = "live" /\ i.row.gid <= changes
  /\ kind[i.claim] # "restricted"
  /\ kind[i.claim] = "private" => recall.mode \in {"daily", "sex"}
  /\ authority[i.claim].gid = i.row.gid => authority[i.claim].state = i.row.state

FoundHolds ==
  recall.phase = "found" =>
    /\ recall.prompt = <<>> /\ recall.status = "none"
    /\ \A k \in 1..Len(recall.items) : ItemHolds(recall.items[k])
    /\ OneOfEach(recall.items)

GidsAreOld == \A c \in Claims : authority[c].gid <= changes

RecallInv == RecallTyped /\ GidsAreOld /\ FoundHolds /\ PromptIsFitted

LEMMA RowFields ==
  \A row \in Rows : /\ row.version \in Nat /\ row.gid \in Nat
                    /\ row = [version |-> row.version, gid |-> row.gid, state |-> row.state,
                              text |-> row.text, source |-> row.source]
                    /\ row # NoRow => row \in Row
                    /\ row.state = "active" => row \in Row
  BY DEF Rows, Row, NoRow

\* The empty prompt is fitted.
LEMMA EmptyFits ==
  ASSUME recall.prompt = <<>>, recall.status # "captured"
  PROVE  PromptIsFitted
<1>1. Cost(<<>>) = 0 /\ LayerBudget \in Nat
  BY CostEmpty, RecallAssumption
<1> QED BY <1>1 DEF PromptIsFitted

LEMMA IdleTyped == Idle \in Recalls /\ Idle.prompt = <<>> /\ Idle.status = "none" /\ Idle.phase = "idle"
<1>1. <<>> \in Seq(Items)
  OBVIOUS
<1> QED BY <1>1 DEF Idle, Recalls, Outcomes, Reasons

LEMMA RecallStart == ContextInit => RecallInv
<1> SUFFICES ASSUME ContextInit PROVE RecallInv
  OBVIOUS
<1>1. /\ kind \in [Claims -> Kinds] /\ authority = [c \in Claims |-> NoRow] /\ index = authority
      /\ changes = 0 /\ recall = Idle
  BY DEF ContextInit, RecallInit
<1>2. recall \in Recalls /\ recall.prompt = <<>> /\ recall.status = "none" /\ recall.phase = "idle"
  BY <1>1, IdleTyped
<1>3. RecallTyped
  <2>1. changes \in 0..MaxChanges
    BY <1>1, RecallAssumption
  <2>2. authority \in [Claims -> Rows]
    BY <1>1 DEF Rows
  <2> QED BY <1>1, <1>2, <2>1, <2>2 DEF RecallTyped
<1>4. GidsAreOld
  BY <1>1 DEF GidsAreOld, NoRow
<1>5. FoundHolds
  BY <1>2 DEF FoundHolds
<1>6. PromptIsFitted
  BY <1>2, EmptyFits
<1> QED BY <1>3, <1>4, <1>5, <1>6 DEF RecallInv

-----------------------------------------------------------------------------
(* Recall: the search *)

LEMMA ListIsSeq ==
  ASSUME NEW set \in SUBSET Claims, NEW s \in Lists(set)
  PROVE  s \in Seq(set)
<1>1. IsFiniteSet(set)
  BY RecallAssumption, FS_Subset
<1>2. Cardinality(set) \in Nat
  BY <1>1, FS_CardinalityType
<1>3. PICK n \in 0..Cardinality(set) : s \in [1..n -> set]
  BY DEF Lists
<1>4. n \in Nat
  BY <1>2, <1>3
<1> QED BY <1>3, <1>4

LEMMA HitsAreClaims ==
  ASSUME NEW query, NEW rows \in Hits(query)
  PROVE  rows \in Seq(Claims)
<1> DEFINE found == {c \in Claims : index[c] # NoRow /\ index[c].text \in query}
           active == {c \in Claims : index[c] # NoRow /\ authority[c].state = "active"}
<1>1. rows \in Lists(found) \/ rows \in Lists(active)
  BY Zenon DEF Hits
<1>2. found \in SUBSET Claims /\ active \in SUBSET Claims
  OBVIOUS
<1> HIDE DEF found, active
<1>3. rows \in Seq(found) \/ rows \in Seq(active)
  BY <1>1, <1>2, ListIsSeq
<1> QED BY <1>2, <1>3

\* An answer is of the reopened rows, all of which are current.
Answered(a, rows, mode) ==
  /\ \A i \in DOMAIN rows : Matches(rows[i])
  /\ a.items \in Seq(Items)
  /\ \A k \in 1..Len(a.items) : \E c \in Claims : a.items[k] = Item(c) /\ Reopened(c, mode)
  /\ \A i \in DOMAIN rows : Reopened(rows[i], mode) =>
       \E k \in 1..Len(a.items) : a.items[k].claim = rows[i]

LEMMA AnswerIs ==
  ASSUME RecallTyped, NEW mode, NEW rows \in Seq(Claims)
  PROVE  /\ Answer(mode, rows).status = "ok" => Answered(Answer(mode, rows), rows, mode)
         /\ Answer(mode, rows).status \in {"ok", "abstained", "unavailable"} /\ Answer(mode, rows).reason \in Reasons
<1> DEFINE a == Answer(mode, rows)
           set == {c \in Claims : Reopened(c, mode)}
           open == Only(rows, set)
           items == [i \in DOMAIN open |-> Item(open[i])]
<1>1. a = CASE rows = <<>> -> [status |-> "abstained", reason |-> "no_answer", items |-> <<>>]
          [] items # <<>> /\ Stale(rows) ->
               [status |-> "unavailable", reason |-> "authority_reopen_failed", items |-> <<>>]
          [] items # <<>> /\ ~Stale(rows) -> [status |-> "ok", reason |-> "none", items |-> items]
          [] OTHER -> [status |-> "abstained", items |-> <<>>,
                       reason |-> IF Stale(rows) THEN "authority_reopen_failed" ELSE "policy_filtered"]
  BY DEF Answer
<1>2. open \in Seq(Claims) /\ \E pos : Picks(open, rows, set, Len(rows), pos)
  <2> HIDE DEF set
  <2> QED BY OnlyIs
<1> HIDE DEF open
<1>3. Len(open) \in Nat /\ DOMAIN open = 1..Len(open) /\ \A k \in 1..Len(open) : open[k] \in Claims
  BY <1>2
<1>4. rows = <<>> => items = <<>>
  BY <1>2, <1>3 DEF Picks
<1> HIDE DEF items
<1>5. /\ a.status = "ok" => ~Stale(rows) /\ a.items = items
      /\ a.status \in {"ok", "abstained", "unavailable"} /\ a.reason \in Reasons
  <2>1. CASE rows = <<>>
    BY <2>1, <1>1, <1>4 DEF Outcomes, Reasons
  <2>2. CASE rows # <<>> /\ items # <<>> /\ Stale(rows)
    BY <2>2, <1>1 DEF Outcomes, Reasons
  <2>3. CASE rows # <<>> /\ items # <<>> /\ ~Stale(rows)
    BY <2>3, <1>1 DEF Outcomes, Reasons
  <2>4. CASE rows # <<>> /\ items = <<>>
    BY <2>4, <1>1 DEF Outcomes, Reasons
  <2> QED BY <2>1, <2>2, <2>3, <2>4
<1>6. ASSUME a.status = "ok" PROVE Answered(a, rows, mode)
  <2>1. \A i \in DOMAIN rows : Matches(rows[i])
    BY <1>5, <1>6 DEF Stale
  <2>2. PICK pos : Picks(open, rows, set, Len(rows), pos)
    BY <1>2
  <2>3. \A k \in 1..Len(open) : open[k] \in set
    <3> HIDE DEF set
    <3> QED BY <2>2 DEF Picks
  <2>4. \A k \in 1..Len(open) : items[k] = Item(open[k]) /\ items[k] \in Items /\ items[k].claim = open[k]
    <3> SUFFICES ASSUME NEW k \in 1..Len(open)
                 PROVE  items[k] = Item(open[k]) /\ items[k] \in Items /\ items[k].claim = open[k]
      OBVIOUS
    <3>1. open[k] \in Claims /\ Reopened(open[k], mode) /\ items[k] = Item(open[k])
      BY <1>3, <2>3 DEF items
    <3>2. authority[open[k]] \in Row
      BY <3>1, RowFields DEF Reopened, RecallTyped
    <3> QED BY <3>1, <3>2 DEF Item, Items
  <2>5. items \in Seq(Items) /\ Len(items) = Len(open)
    BY <1>3, <2>4 DEF items
  <2>6. ASSUME NEW i \in DOMAIN rows, Reopened(rows[i], mode)
        PROVE  \E k \in 1..Len(items) : items[k].claim = rows[i]
    <3>1. rows[i] \in set /\ i \in 1..Len(rows)
      BY <2>6
    <3>2. PICK k \in 1..Len(open) : pos[k] = i
      <4> HIDE DEF set
      <4> QED BY <3>1, <2>2 DEF Picks
    <3>3. open[k] = rows[i]
      <4> HIDE DEF set
      <4> QED BY <3>2, <2>2 DEF Picks
    <3> QED BY <3>2, <3>3, <2>4, <2>5
  <2> QED BY <2>1, <2>3, <2>4, <2>5, <2>6, <1>5, <1>6, <1>3 DEF Answered
<1> QED BY <1>5, <1>6

\* A step of the recall itself: the tables stay, and so does what holds of them.
TablesStay == UNCHANGED <<kind, authority, index, changes>>

LEMMA RecallMoves ==
  ASSUME RecallInv, TablesStay, recall' \in Recalls, FoundHolds', PromptIsFitted'
  PROVE  RecallInv'
  BY DEF RecallInv, RecallTyped, GidsAreOld, TablesStay

\* A step that ends without a prompt.
LEMMA Told ==
  ASSUME RecallInv, TablesStay, recall' \in Recalls, recall'.phase # "found",
         recall'.prompt = <<>>, recall'.status # "captured"
  PROVE  RecallInv'
<1>1. Cost(<<>>) = 0 /\ LayerBudget \in Nat
  BY CostEmpty, RecallAssumption
<1>2. PromptIsFitted'
  BY <1>1 DEF PromptIsFitted
<1>3. FoundHolds'
  BY DEF FoundHolds
<1> QED BY <1>2, <1>3, RecallMoves

\* What Search does: what it found, or why there is nothing.
LEMMA SearchIs ==
  ASSUME RecallTyped, NEW mode \in Modes, NEW query, Search(mode, query)
  PROVE  \E rows \in Seq(Claims) :
           LET a == Answer(mode, rows)
           IN  /\ recall.phase = "idle" /\ TablesStay /\ recall' \in Recalls /\ recall'.prompt = <<>>
               /\ recall'.phase = "found" => /\ Answered(a, rows, mode) /\ recall'.items = a.items
                                             /\ recall'.mode = mode /\ recall'.read = ToSet(rows)
                                             /\ recall'.status = "none"
               /\ recall'.status # "captured"
<1>1. PICK rows \in Hits(query) :
         LET a == Answer(mode, rows)
         IN  recall' = IF a.status = "ok"
                         THEN [Idle EXCEPT !.phase = "found", !.mode = mode, !.items = a.items,
                                           !.read = ToSet(rows)]
                         ELSE [Idle EXCEPT !.phase = "told", !.mode = mode,
                                           !.status = a.status, !.reason = a.reason]
  BY Zenon DEF Search
<1>2. recall.phase = "idle" /\ TablesStay
  BY Zenon DEF Search, TablesStay
<1>3. rows \in Seq(Claims)
  BY HitsAreClaims
<1> DEFINE a == Answer(mode, rows)
<1>4. /\ a.status = "ok" => Answered(a, rows, mode)
      /\ a.status \in {"ok", "abstained", "unavailable"} /\ a.reason \in Reasons
  BY <1>3, AnswerIs, Zenon
<1>5. ToSet(rows) \in SUBSET Claims /\ <<>> \in Seq(Items) /\ mode \in Modes \cup {"none"}
  BY <1>3 DEF ToSet
<1>6. a.status # "captured" /\ a.status \in Outcomes
  <2> HIDE DEF a
  <2> QED BY <1>4 DEF Outcomes
<1>7. CASE a.status = "ok"
  <2>1. recall' = [Idle EXCEPT !.phase = "found", !.mode = mode, !.items = a.items, !.read = ToSet(rows)]
    BY <1>1, <1>7, Zenon
  <2>2. a.items \in Seq(Items)
    BY <1>4, <1>7, Zenon DEF Answered
  <2> HIDE DEF a
  <2>3. recall' = [phase |-> "found", mode |-> mode, read |-> ToSet(rows), items |-> a.items,
                   status |-> "none", reason |-> "none", prompt |-> <<>>]
    BY <2>1 DEF Idle
  <2>4. recall' \in Recalls
    BY <2>2, <2>3, <1>5 DEF Recalls, Outcomes, Reasons
  <2> QED BY <1>2, <1>3, <1>4, <1>7, <2>3, <2>4 DEF a
<1>8. CASE a.status # "ok"
  <2>1. recall' = [Idle EXCEPT !.phase = "told", !.mode = mode, !.status = a.status, !.reason = a.reason]
    BY <1>1, <1>8, Zenon
  <2> HIDE DEF a
  <2>3. recall' = [phase |-> "told", mode |-> mode, read |-> {}, items |-> <<>>,
                   status |-> a.status, reason |-> a.reason, prompt |-> <<>>]
    BY <2>1 DEF Idle
  <2>4. recall' \in Recalls
    BY <2>3, <1>4, <1>5, <1>6 DEF Recalls
  <2> QED BY <1>2, <1>3, <1>6, <2>3, <2>4 DEF a
<1> QED BY <1>7, <1>8

LEMMA SearchHolds ==
  ASSUME RecallInv, NEW mode \in Modes, NEW query, Search(mode, query)
  PROVE  RecallInv'
<1>1. PICK rows \in Seq(Claims) :
           LET a == Answer(mode, rows)
           IN  /\ recall.phase = "idle" /\ TablesStay /\ recall' \in Recalls /\ recall'.prompt = <<>>
               /\ recall'.phase = "found" => /\ Answered(a, rows, mode) /\ recall'.items = a.items
                                             /\ recall'.mode = mode /\ recall'.read = ToSet(rows)
                                             /\ recall'.status = "none"
               /\ recall'.status # "captured"
  BY SearchIs, Zenon DEF RecallInv
<1>2. CASE recall'.phase # "found"
  BY <1>1, <1>2, Told
<1>3. CASE recall'.phase = "found"
  <2>1. \A k \in 1..Len(recall'.items) : \E c \in Claims : recall'.items[k] = Item(c) /\ Reopened(c, mode)
    BY <1>1, <1>3, Zenon DEF Answered
  <2>2. ASSUME NEW k \in 1..Len(recall'.items) PROVE ItemHolds(recall.items[k])'
    <3>1. PICK c \in Claims : recall'.items[k] = Item(c) /\ Reopened(c, mode)
      BY <2>1
    <3>2. authority[c].gid <= changes
      BY DEF RecallInv, GidsAreOld
    <3> QED BY <1>1, <1>3, <3>1, <3>2 DEF Item, Reopened, SourcesHold, Accessible, ItemHolds, TablesStay
  <2>3. OneOfEach(recall.items)'
    <3> SUFFICES ASSUME NEW j \in 1..Len(recall'.items), NEW k \in 1..Len(recall'.items),
                        recall'.items[j].claim = recall'.items[k].claim
                 PROVE  recall'.items[j] = recall'.items[k]
      BY DEF OneOfEach
    <3>1. PICK c \in Claims : recall'.items[j] = Item(c)
      BY <2>1
    <3>2. PICK d \in Claims : recall'.items[k] = Item(d)
      BY <2>1
    <3> QED BY <3>1, <3>2 DEF Item
  <2>4. FoundHolds'
    BY <1>1, <1>3, <2>2, <2>3 DEF FoundHolds
  <2>5. PromptIsFitted'
    <3>1. Cost(<<>>) = 0 /\ LayerBudget \in Nat
      BY CostEmpty, RecallAssumption
    <3> QED BY <1>1, <3>1 DEF PromptIsFitted
  <2> QED BY <1>1, <2>4, <2>5, RecallMoves
<1> QED BY <1>2, <1>3

LEMMA OpenHolds ==
  ASSUME RecallInv, NEW mode \in Modes, NEW c \in Claims, Open(mode, c)
  PROVE  RecallInv'
<1>1. TablesStay /\ <<>> \in Seq(Items) /\ mode \in Modes \cup {"none"}
  BY DEF Open, TablesStay
<1>2. CASE authority[c] = NoRow
  <2>1. recall' = [Idle EXCEPT !.phase = "told", !.status = "abstained", !.reason = "authority_not_found"]
    BY <1>2, Zenon DEF Open
  <2>2. recall' = [phase |-> "told", mode |-> "none", read |-> {}, items |-> <<>>, status |-> "abstained",
                   reason |-> "authority_not_found", prompt |-> <<>>]
    BY <2>1 DEF Idle
  <2>3. recall' \in Recalls
    BY <1>1, <2>2 DEF Recalls, Outcomes, Reasons
  <2> QED BY <1>1, <2>2, <2>3, Told
<1>3. CASE authority[c] # NoRow /\ (~SourcesHold(authority[c]) \/ ~Accessible(c, authority[c], mode))
  <2>1. recall' = [Idle EXCEPT !.phase = "told", !.status = "abstained", !.reason = "policy_filtered"]
    BY <1>3, Zenon DEF Open
  <2>2. recall' = [phase |-> "told", mode |-> "none", read |-> {}, items |-> <<>>, status |-> "abstained",
                   reason |-> "policy_filtered", prompt |-> <<>>]
    BY <2>1 DEF Idle
  <2>3. recall' \in Recalls
    BY <1>1, <2>2 DEF Recalls, Outcomes, Reasons
  <2> QED BY <1>1, <2>2, <2>3, Told
<1>4. CASE authority[c] # NoRow /\ SourcesHold(authority[c]) /\ Accessible(c, authority[c], mode)
  <2>1. recall' = [Idle EXCEPT !.phase = "told", !.mode = mode, !.status = "opened", !.items = <<Item(c)>>]
    BY <1>4, Zenon DEF Open
  <2>2. recall' = [phase |-> "told", mode |-> mode, read |-> {}, items |-> <<Item(c)>>, status |-> "opened",
                   reason |-> "none", prompt |-> <<>>]
    BY <2>1 DEF Idle
  <2>3. authority[c] \in Row
    BY <1>4, RowFields DEF RecallInv, RecallTyped
  <2>4. Item(c) \in Items
    BY <2>3 DEF Item, Items
  <2>5. <<Item(c)>> \in Seq(Items)
    BY <2>4
  <2>6. recall' \in Recalls
    <3> HIDE DEF Item
    <3> QED BY <1>1, <2>2, <2>5 DEF Recalls, Outcomes, Reasons
  <2> QED BY <1>1, <2>2, <2>6, Told
<1> QED BY <1>2, <1>3, <1>4

LEMMA DeliverHolds ==
  ASSUME RecallInv, Deliver
  PROVE  RecallInv'
<1>1. TablesStay /\ recall' = Idle
  BY DEF Deliver, TablesStay
<1> QED BY <1>1, IdleTyped, Told

LEMMA StoreFailsHolds ==
  ASSUME RecallInv, StoreFails
  PROVE  RecallInv' /\ recall'.prompt = <<>>
<1>1. /\ TablesStay /\ <<>> \in Seq(Items)
      /\ recall' = [Idle EXCEPT !.phase = "told", !.status = "unavailable",
                                !.reason = "authority_store_unavailable"]
  <2>1. /\ TablesStay
        /\ recall' = [Idle EXCEPT !.phase = "told", !.status = "unavailable",
                                  !.reason = "authority_store_unavailable"]
    BY Zenon DEF StoreFails, TablesStay
  <2>2. <<>> \in Seq(Items)
    OBVIOUS
  <2> QED BY <2>1, <2>2, Zenon
<1>2. recall' = [phase |-> "told", mode |-> "none", read |-> {}, items |-> <<>>, status |-> "unavailable",
                 reason |-> "authority_store_unavailable", prompt |-> <<>>]
  BY <1>1 DEF Idle
<1>3. recall' \in Recalls
  <2>1. "unavailable" \in Outcomes /\ "authority_store_unavailable" \in Reasons
    BY DEF Outcomes, Reasons
  <2>2. "told" \in {"idle", "found", "told"} /\ Idle \in Recalls
    BY IdleTyped
  <2> QED BY <1>1, <2>1, <2>2, Zenon DEF Recalls
<1>4. recall'.phase # "found" /\ recall'.prompt = <<>> /\ recall'.status # "captured"
  BY <1>2
<1> QED BY <1>1, <1>3, <1>4, Told, Zenon

-----------------------------------------------------------------------------
(* Recall: the injection *)

Admitted == Only(recall.items, {i \in ToSet(recall.items) : Injectable(i.claim, authority[i.claim], recall.mode)})

Prompted == WithinBudget(Fresh(Admitted))

\* What is admitted are items of the search, and all that policy allows.
LEMMA AdmittedIs ==
  ASSUME recall.items \in Seq(Items)
  PROVE  /\ Admitted \in Seq(Items)
         /\ \A k \in 1..Len(Admitted) : \E j \in 1..Len(recall.items) :
              /\ Admitted[k] = recall.items[j]
              /\ Injectable(Admitted[k].claim, authority[Admitted[k].claim], recall.mode)
         /\ \A j \in 1..Len(recall.items) :
              LET i == recall.items[j]
              IN  Injectable(i.claim, authority[i.claim], recall.mode) => \E k \in 1..Len(Admitted) : Admitted[k] = i
<1> DEFINE items == recall.items
           n == Len(items)
           set == {i \in ToSet(items) : Injectable(i.claim, authority[i.claim], recall.mode)}
<1>1. Admitted = Only(items, set)
  BY Zenon DEF Admitted
<1>2. \A j \in 1..n : items[j] \in ToSet(items)
  BY DEF ToSet
<1>3. Admitted \in Seq(Items) /\ \E pos : Picks(Admitted, items, set, n, pos)
  <2> HIDE DEF set, items, n
  <2>1. items \in Seq(Items) /\ n = Len(items)
    BY DEF items, n
  <2> QED BY <1>1, <2>1, OnlyIs
<1>4. PICK pos : Picks(Admitted, items, set, n, pos)
  BY <1>3
<1> DEFINE S == set
           out == Admitted
<1>5. \A k \in 1..Len(out) : pos[k] \in 1..n /\ out[k] = items[pos[k]] /\ out[k] \in S
  <2> HIDE DEF set, items, n, out
  <2> QED BY <1>4 DEF Picks, out
<1>6. \A j \in 1..n : items[j] \in S => \E k \in 1..Len(out) : out[k] = items[j]
  <2> HIDE DEF set, items, n, out
  <2> QED BY <1>4 DEF Picks, out
<1>7. \A i \in S : Injectable(i.claim, authority[i.claim], recall.mode)
  OBVIOUS
<1>8. \A j \in 1..n : Injectable(items[j].claim, authority[items[j].claim], recall.mode) => items[j] \in S
  BY <1>2
<1> HIDE DEF S, out
<1>9. \A k \in 1..Len(out) : \E j \in 1..n :
        out[k] = items[j] /\ Injectable(out[k].claim, authority[out[k].claim], recall.mode)
  BY <1>5, <1>7
<1>10. \A j \in 1..n : Injectable(items[j].claim, authority[items[j].claim], recall.mode) =>
                         \E k \in 1..Len(out) : out[k] = items[j]
  BY <1>6, <1>8
<1> QED BY <1>3, <1>9, <1>10 DEF out

\* Inject tells why not, or captures the prompt of items that still hold.
LEMMA InjectIs ==
  ASSUME RecallTyped, Inject
  PROVE  /\ recall.phase = "found" /\ TablesStay
         /\ \/ /\ ~EndsAll(recall.items)
               /\ recall' = [recall EXCEPT !.phase = "told", !.status = "captured", !.prompt = Prompted]
            \/ \E why \in Reasons :
                 recall' = [recall EXCEPT !.phase = "told", !.items = <<>>, !.status = "abstained", !.reason = why]
<1>1. recall.phase = "found" /\ TablesStay
  BY Zenon DEF Inject, TablesStay
<1> DEFINE items == recall.items
           Abstain(why) == [recall EXCEPT !.phase = "told", !.items = <<>>, !.status = "abstained", !.reason = why]
<1>2. recall' = CASE EndsAll(items) -> Abstain(WhyEnds(items))
                  [] ~EndsAll(items) /\ Admitted = <<>> -> Abstain("injection_policy_filtered")
                  [] ~EndsAll(items) /\ Admitted # <<>> /\ Prompted = <<>> -> Abstain("injection_budget_filtered")
                  [] OTHER -> [recall EXCEPT !.phase = "told", !.status = "captured", !.prompt = Prompted]
  BY Zenon DEF Inject, Admitted, Prompted
<1>3. WhyEnds(items) \in Reasons
  BY DEF WhyEnds, Reasons
<1>4. "injection_policy_filtered" \in Reasons /\ "injection_budget_filtered" \in Reasons
  BY DEF Reasons
<1> HIDE DEF Abstain
<1>5. CASE EndsAll(items)
  <2>1. recall' = Abstain(WhyEnds(items))
    BY <1>2, <1>5
  <2> QED BY <1>1, <1>3, <2>1, Zenon DEF Abstain
<1>6. CASE ~EndsAll(items) /\ Admitted = <<>>
  <2>1. recall' = Abstain("injection_policy_filtered")
    BY <1>2, <1>6
  <2> QED BY <1>1, <1>4, <2>1, Zenon DEF Abstain
<1>7. CASE ~EndsAll(items) /\ Admitted # <<>> /\ Prompted = <<>>
  <2>1. recall' = Abstain("injection_budget_filtered")
    BY <1>2, <1>7
  <2> QED BY <1>1, <1>4, <2>1, Zenon DEF Abstain
<1>8. CASE ~EndsAll(items) /\ Admitted # <<>> /\ Prompted # <<>>
  <2>1. recall' = [recall EXCEPT !.phase = "told", !.status = "captured", !.prompt = Prompted]
    BY <1>2, <1>8
  <2> QED BY <1>1, <1>8, <2>1, Zenon
<1> QED BY <1>5, <1>6, <1>7, <1>8, Zenon

\* An item whose receipt holds and whose state is its claim's is the claim's row.
LEMMA ReceiptIsRow ==
  ASSUME RecallInv, recall.phase = "found", ~EndsAll(recall.items), NEW k \in 1..Len(recall.items)
  PROVE  LET i == recall.items[k]
         IN  /\ i \in Items /\ i.row = authority[i.claim] /\ i.row.state = "active" /\ i.row.source = "live"
             /\ kind[i.claim] \notin {"restricted", "untyped"}
             /\ kind[i.claim] = "private" => recall.mode \in {"daily", "sex"}
             /\ kind[i.claim] \in Kinds
<1> DEFINE i == recall.items[k]
<1>1. k \in DOMAIN recall.items /\ i \in Items
  <2>1. recall.items \in Seq(Items)
    BY DEF RecallInv, RecallTyped, Recalls
  <2> QED BY <2>1
<1>2. ReceiptHolds(i) /\ kind[i.claim] # "untyped" /\ ItemHolds(i)
  <2>1. ReceiptHolds(i) /\ kind[i.claim] # "untyped"
    BY <1>1, Zenon DEF EndsAll
  <2>2. ItemHolds(i)
    BY Zenon DEF RecallInv, FoundHolds
  <2> QED BY <2>1, <2>2
<1> HIDE DEF i
<1>3. i.claim \in Claims /\ i.row \in Row
  BY <1>1 DEF Items
<1> DEFINE a == authority[i.claim]
           r == i.row
<1>4. a \in Rows /\ r \in Rows
  BY <1>3 DEF RecallInv, RecallTyped, Rows
<1>5. [a EXCEPT !.state = "any"] = [r EXCEPT !.state = "any"]
  BY <1>2 DEF ReceiptHolds
<1>6. a.gid = r.gid => a.state = r.state
  BY <1>2 DEF ItemHolds
<1> HIDE DEF a, r
<1>7. /\ a = [version |-> a.version, gid |-> a.gid, state |-> a.state, text |-> a.text, source |-> a.source]
      /\ r = [version |-> r.version, gid |-> r.gid, state |-> r.state, text |-> r.text, source |-> r.source]
  BY <1>4, RowFields, Zenon
<1>8. a.version = r.version /\ a.gid = r.gid /\ a.text = r.text /\ a.source = r.source
  BY <1>5, <1>7
<1>9. a = r
  BY <1>6, <1>7, <1>8
<1>10. kind[i.claim] \in Kinds
  BY <1>3 DEF RecallInv, RecallTyped
<1> QED BY <1>1, <1>2, <1>9, <1>10 DEF ItemHolds, a, r, i

\* What the prompt of an injection is made of.
LEMMA PromptedIs ==
  ASSUME recall.items \in Seq(Items), OneOfEach(recall.items)
  PROVE  /\ Prompted \in Seq(Items) /\ Distinct(Prompted) /\ Cost(Prompted) <= LayerBudget
         /\ \A k \in 1..Len(Prompted) : \E j \in 1..Len(recall.items) :
              /\ Prompted[k] = recall.items[j]
              /\ Injectable(Prompted[k].claim, authority[Prompted[k].claim], recall.mode)
         /\ \A j \in 1..Len(recall.items) :
              LET i == recall.items[j]
              IN  Injectable(i.claim, authority[i.claim], recall.mode) => HasText(Prompted, i) \/ TooMuch(Prompted, i)
<1> DEFINE in == Admitted
           fresh == Fresh(in)
           out == Prompted
           items == recall.items
           May(i) == Injectable(i.claim, authority[i.claim], recall.mode)
<1>1. /\ in \in Seq(Items)
      /\ \A k \in 1..Len(in) : \E j \in 1..Len(items) : in[k] = items[j] /\ May(in[k])
      /\ \A j \in 1..Len(items) : May(items[j]) => \E k \in 1..Len(in) : in[k] = items[j]
  BY AdmittedIs, Zenon
<1> HIDE DEF in, May
<1>2. /\ fresh \in Seq(Items) /\ AmongFirst(fresh, in, Len(in)) /\ Distinct(fresh)
      /\ \A k \in 1..Len(in) : HasText(fresh, in[k])
  BY <1>1, FreshIs, Zenon
<1> HIDE DEF fresh
<1>3. \A k \in 1..Len(fresh) : \E j \in 1..Len(items) : fresh[k] = items[j] /\ May(fresh[k])
  BY <1>1, <1>2 DEF AmongFirst
<1>4. OneOfEach(fresh)
  <2> SUFFICES ASSUME NEW j \in 1..Len(fresh), NEW k \in 1..Len(fresh), fresh[j].claim = fresh[k].claim
               PROVE  fresh[j] = fresh[k]
    BY Zenon DEF OneOfEach
  <2>1. PICK m \in 1..Len(items) : fresh[j] = items[m]
    BY <1>3
  <2>2. PICK l \in 1..Len(items) : fresh[k] = items[l]
    BY <1>3
  <2>3. items[m].claim = items[l].claim
    BY <2>1, <2>2
  <2>4. items[m] = items[l]
    BY <2>3, Zenon DEF OneOfEach
  <2> QED BY <2>1, <2>2, <2>4
<1>5. out = WithinBudget(fresh)
  BY Zenon DEF Prompted, fresh, in
<1>6. /\ out \in Seq(Items) /\ AmongFirst(out, fresh, Len(fresh)) /\ Distinct(out) /\ Cost(out) <= LayerBudget
      /\ \A k \in 1..Len(fresh) : HasText(out, fresh[k]) \/ TooMuch(out, fresh[k])
  <2>1. /\ WithinBudget(fresh) \in Seq(Items) /\ AmongFirst(WithinBudget(fresh), fresh, Len(fresh))
        /\ Distinct(WithinBudget(fresh)) /\ Cost(WithinBudget(fresh)) <= LayerBudget
        /\ \A k \in 1..Len(fresh) : HasText(WithinBudget(fresh), fresh[k]) \/ TooMuch(WithinBudget(fresh), fresh[k])
    <3> HIDE DEF fresh
    <3> QED BY <1>2, <1>4, BudgetIs
  <2> HIDE DEF out, fresh
  <2> QED BY <1>5, <2>1, Zenon
<1> HIDE DEF out
<1>7. \A k \in 1..Len(out) : \E j \in 1..Len(items) : out[k] = items[j] /\ May(out[k])
  BY <1>3, <1>6 DEF AmongFirst
<1>8. ASSUME NEW j \in 1..Len(items), May(items[j])
      PROVE  HasText(out, items[j]) \/ TooMuch(out, items[j])
  <2>1. PICK k \in 1..Len(in) : in[k] = items[j]
    BY <1>1, <1>8
  <2>2. PICK l \in DOMAIN fresh : fresh[l].row.text = items[j].row.text
    BY <1>2, <2>1 DEF HasText
  <2>3. l \in 1..Len(fresh)
    BY <1>2, <2>2
  <2>4. HasText(out, fresh[l]) \/ TooMuch(out, fresh[l])
    BY <1>6, <2>3
  <2> QED BY <2>2, <2>4 DEF HasText, TooMuch
<1> QED BY <1>6, <1>7, <1>8 DEF out, May

LEMMA InjectHolds ==
  ASSUME RecallInv, Inject
  PROVE  RecallInv'
<1>1. RecallTyped /\ recall \in Recalls /\ recall.items \in Seq(Items) /\ recall.phase = "found"
  <2>1. recall \in Recalls /\ RecallTyped
    BY DEF RecallInv, RecallTyped
  <2> QED BY <2>1, InjectIs DEF Recalls
<1>2. recall.prompt = <<>> /\ recall.status = "none" /\ OneOfEach(recall.items) /\ TablesStay
  BY <1>1, InjectIs DEF RecallInv, FoundHolds
<1>3. ASSUME NEW why \in Reasons,
             recall' = [recall EXCEPT !.phase = "told", !.items = <<>>, !.status = "abstained", !.reason = why]
      PROVE  RecallInv'
  <2>1. <<>> \in Seq(Items) /\ "told" \in {"idle", "found", "told"} /\ "abstained" \in Outcomes
    BY DEF Outcomes
  <2>2. recall' \in Recalls
    BY <1>1, <1>3, <2>1, Zenon DEF Recalls
  <2>3. recall'.phase = "told" /\ recall'.prompt = recall.prompt /\ recall'.status = "abstained"
    BY <1>1, <1>3 DEF Recalls
  <2> QED BY <1>2, <2>2, <2>3, Told
<1>4. ASSUME ~EndsAll(recall.items),
             recall' = [recall EXCEPT !.phase = "told", !.status = "captured", !.prompt = Prompted]
      PROVE  RecallInv'
  <2>1. "told" \in {"idle", "found", "told"} /\ "captured" \in Outcomes
    BY DEF Outcomes
  <2>2. /\ Prompted \in Seq(Items) /\ Distinct(Prompted) /\ Cost(Prompted) <= LayerBudget
        /\ \A j \in 1..Len(recall.items) :
             LET i == recall.items[j]
             IN  Injectable(i.claim, authority[i.claim], recall.mode) =>
                   HasText(Prompted, i) \/ TooMuch(Prompted, i)
    BY <1>1, <1>2, PromptedIs, Zenon
  <2>3. recall' \in Recalls
    BY <1>1, <1>4, <2>1, <2>2, Zenon DEF Recalls
  <2>4. recall'.phase = "told" /\ recall'.prompt = Prompted /\ recall'.items = recall.items
    BY <1>1, <1>4 DEF Recalls
  <2>5. FoundHolds'
    BY <2>4 DEF FoundHolds
  <2>6. ASSUME NEW k \in DOMAIN recall.items
        PROVE  LET i == recall.items[k]
               IN  \/ \E j \in DOMAIN Prompted : Prompted[j].row.text = i.row.text
                   \/ kind[i.claim] = "searchable"
                   \/ Cost(Prompted) + BodySize[i.row.text] > LayerBudget
    <3> DEFINE i == recall.items[k]
    <3>0. k \in 1..Len(recall.items)
      BY <1>1
    <3>1. /\ i.row = authority[i.claim] /\ i.row.state = "active"
          /\ kind[i.claim] # "restricted" /\ (kind[i.claim] = "private" => recall.mode \in {"daily", "sex"})
      BY <1>1, <1>4, <3>0, ReceiptIsRow
    <3>2. kind[i.claim] = "searchable" \/ Injectable(i.claim, authority[i.claim], recall.mode)
      <4> HIDE DEF i
      <4> QED BY <3>1 DEF Injectable, Accessible
    <3>3. Injectable(i.claim, authority[i.claim], recall.mode) => HasText(Prompted, i) \/ TooMuch(Prompted, i)
      BY <2>2, <3>0, Zenon
    <3> HIDE DEF i
    <3>4. \/ \E j \in DOMAIN Prompted : Prompted[j].row.text = i.row.text
          \/ kind[i.claim] = "searchable"
          \/ Cost(Prompted) + BodySize[i.row.text] > LayerBudget
      BY <3>2, <3>3, Zenon DEF HasText, TooMuch
    <3> QED BY <3>4 DEF i
  <2>7. \A i, j \in DOMAIN Prompted : Prompted[i].row.text = Prompted[j].row.text => i = j
    <3>1. DOMAIN Prompted = 1..Len(Prompted)
      BY <2>2
    <3> QED BY <2>2, <3>1, Zenon DEF Distinct
  <2>8. kind' = kind
    BY <1>2, Zenon DEF TablesStay
  <2>9. PromptIsFitted'
    <3>1. Cost(Prompted) <= LayerBudget
      BY <2>2
    <3>2. Cost(recall'.prompt) <= LayerBudget
      BY <2>4, <3>1
    <3>3. \A i, j \in DOMAIN recall'.prompt : recall'.prompt[i].row.text = recall'.prompt[j].row.text => i = j
      BY <2>4, <2>7, Zenon
    <3>4. \A k \in DOMAIN recall'.items :
            \/ \E j \in DOMAIN recall'.prompt : recall'.prompt[j].row.text = recall'.items[k].row.text
            \/ kind'[recall'.items[k].claim] = "searchable"
            \/ Cost(recall'.prompt) + BodySize[recall'.items[k].row.text] > LayerBudget
      BY <2>4, <2>6, <2>8, Zenon
    <3> QED BY <3>2, <3>3, <3>4, Zenon DEF PromptIsFitted
  <2> QED BY <1>2, <2>3, <2>5, <2>9, RecallMoves
<1> QED BY <1>1, <1>3, <1>4, InjectIs, Zenon

-----------------------------------------------------------------------------
(* Recall: the other connections *)

\* Fittedness is about the recall and the kinds.
LEMMA FittedStays ==
  ASSUME PromptIsFitted, UNCHANGED <<kind, recall>>
  PROVE  PromptIsFitted'
<1>1. kind' = kind /\ recall' = recall
  OBVIOUS
<1> QED BY <1>1, Zenon DEF PromptIsFitted

LEMMA ItemsTyped ==
  ASSUME RecallInv, NEW k \in 1..Len(recall.items)
  PROVE  recall.items[k].claim \in Claims /\ recall.items[k].row.gid \in Nat
<1>1. recall.items \in Seq(Items)
  BY DEF RecallInv, RecallTyped, Recalls
<1>2. recall.items[k] \in Items
  BY <1>1
<1>3. recall.items[k].row \in Row
  BY <1>2 DEF Items
<1> QED BY <1>2, <1>3 DEF Items, Row

\* What is found holds on, when a claim's state changes under a new id only.
LEMMA FoundStays ==
  ASSUME RecallInv, UNCHANGED <<kind, recall>>, changes' \in Nat, changes' >= changes,
         \A c \in Claims : \/ authority'[c].gid > changes
                           \/ authority'[c].gid = authority[c].gid /\ authority'[c].state = authority[c].state
  PROVE  FoundHolds'
<1>1. kind' = kind /\ recall' = recall /\ changes \in Nat
  <2>1. changes \in 0..MaxChanges /\ MaxChanges \in Nat
    BY RecallAssumption DEF RecallInv, RecallTyped
  <2> QED BY <2>1
<1>2. ASSUME recall.phase = "found", NEW k \in 1..Len(recall.items)
      PROVE  ItemHolds(recall.items[k])'
  <2> DEFINE i == recall.items[k]
  <2>1. ItemHolds(i)
    BY <1>2 DEF RecallInv, FoundHolds
  <2>2. i.claim \in Claims /\ i.row.gid \in Nat
    BY ItemsTyped
  <2>3. recall'.items[k] = i
    BY <1>1
  <2> HIDE DEF i
  <2>4. i.row.gid <= changes'
    BY <2>1, <2>2, <1>1 DEF ItemHolds
  <2>5. authority'[i.claim].gid = i.row.gid => authority'[i.claim].state = i.row.state
    BY <2>1, <2>2, <1>1 DEF ItemHolds
  <2> QED BY <2>1, <2>3, <2>4, <2>5, <1>1 DEF ItemHolds
<1>3. FoundHolds
  BY DEF RecallInv
<1> QED BY <1>1, <1>2, <1>3 DEF FoundHolds

LEMMA GovernHolds ==
  ASSUME RecallInv, NEW c \in Claims, NEW row \in Row, row.gid = changes + 1, Govern(c, row)
  PROVE  RecallInv'
<1>1. /\ changes < MaxChanges /\ changes' = changes + 1 /\ authority' = [authority EXCEPT ![c] = row]
      /\ kind' = kind /\ index' = index /\ recall' = recall
  BY DEF Govern
<1>2. changes \in 0..MaxChanges /\ MaxChanges \in Nat /\ authority \in [Claims -> Rows]
  BY RecallAssumption DEF RecallInv, RecallTyped
<1>3. changes' \in 0..MaxChanges /\ changes' \in Nat /\ changes' >= changes
  BY <1>1, <1>2
<1>4. authority' \in [Claims -> Rows]
  BY <1>1, <1>2 DEF Rows
<1>5. RecallTyped'
  BY <1>1, <1>3, <1>4 DEF RecallInv, RecallTyped
<1>6. GidsAreOld'
  <2> SUFFICES ASSUME NEW d \in Claims PROVE authority'[d].gid <= changes'
    BY DEF GidsAreOld
  <2>1. authority[d].gid <= changes /\ authority[d].gid \in Nat
    BY <1>2, RowFields DEF RecallInv, GidsAreOld
  <2> QED BY <1>1, <1>2, <2>1
<1>7. \A d \in Claims : \/ authority'[d].gid > changes
                        \/ authority'[d].gid = authority[d].gid /\ authority'[d].state = authority[d].state
  BY <1>1, <1>2
<1>8. FoundHolds'
  BY <1>1, <1>3, <1>7, FoundStays
<1>9. PromptIsFitted'
  BY <1>1, FittedStays DEF RecallInv
<1> QED BY <1>5, <1>6, <1>8, <1>9 DEF RecallInv

LEMMA SetClaimHolds ==
  ASSUME RecallInv, NEW c \in Claims, NEW text \in Bodies, SetClaim(c, text)
  PROVE  RecallInv'
<1> DEFINE row == [version |-> authority[c].version + 1, gid |-> changes + 1, state |-> "active",
                   text |-> text, source |-> "live"]
<1>1. Govern(c, row)
  BY DEF SetClaim
<1>2. authority[c].version \in Nat /\ changes \in Nat
  <2>1. authority[c] \in Rows /\ changes \in 0..MaxChanges /\ MaxChanges \in Nat
    BY RecallAssumption DEF RecallInv, RecallTyped
  <2> QED BY <2>1, RowFields
<1>3. row \in Row /\ row.gid = changes + 1
  BY <1>2 DEF Row
<1> HIDE DEF row
<1> QED BY <1>1, <1>3, GovernHolds

LEMMA RetireHolds ==
  ASSUME RecallInv, NEW c \in Claims, Retire(c)
  PROVE  RecallInv'
<1> DEFINE row == [authority[c] EXCEPT !.gid = changes + 1, !.state = "retired"]
<1>1. Govern(c, row) /\ authority[c].state = "active"
  BY DEF Retire
<1>2. authority[c] \in Row /\ changes \in Nat
  <2>1. authority[c] \in Rows /\ changes \in 0..MaxChanges /\ MaxChanges \in Nat
    BY RecallAssumption DEF RecallInv, RecallTyped
  <2> QED BY <1>1, <2>1, RowFields
<1>3. row \in Row /\ row.gid = changes + 1
  <2>1. row \in Row
    <3>1. changes + 1 \in Nat /\ "retired" \in {"active", "retired"}
      BY <1>2
    <3> QED BY <1>2, <3>1, Zenon DEF Row
  <2>2. row.gid = changes + 1
    BY <1>2 DEF Row
  <2> QED BY <2>1, <2>2
<1> HIDE DEF row
<1> QED BY <1>1, <1>3, GovernHolds

LEMMA ChangeSourceHolds ==
  ASSUME RecallInv, NEW c \in Claims, ChangeSource(c)
  PROVE  RecallInv'
<1>1. /\ authority' = [authority EXCEPT ![c].source = "changed"]
      /\ kind' = kind /\ index' = index /\ changes' = changes /\ recall' = recall
      /\ authority[c].source = "live"
  BY DEF ChangeSource
<1>2. changes \in Nat /\ authority \in [Claims -> Rows]
  <2>1. changes \in 0..MaxChanges /\ MaxChanges \in Nat /\ authority \in [Claims -> Rows]
    BY RecallAssumption DEF RecallInv, RecallTyped
  <2> QED BY <2>1
<1>3. authority[c] \in Row
  <2>1. authority[c] # NoRow
    BY <1>1 DEF NoRow
  <2> QED BY <1>2, <2>1 DEF Rows
<1>4. [authority[c] EXCEPT !.source = "changed"] \in Row
  BY <1>3 DEF Row
<1>5. authority' \in [Claims -> Rows]
  BY <1>1, <1>2, <1>4 DEF Rows
<1>6. \A d \in Claims : authority'[d].gid = authority[d].gid /\ authority'[d].state = authority[d].state
  <2>1. \A d \in Claims \ {c} : authority'[d] = authority[d]
    BY <1>1, <1>2
  <2>2. authority'[c] = [authority[c] EXCEPT !.source = "changed"]
    BY <1>1, <1>2
  <2>3. authority'[c].gid = authority[c].gid /\ authority'[c].state = authority[c].state
    BY <2>2, <1>3 DEF Row
  <2> QED BY <2>1, <2>3
<1>7. RecallTyped' /\ GidsAreOld'
  BY <1>1, <1>5, <1>6 DEF RecallInv, RecallTyped, GidsAreOld
<1>8. FoundHolds'
  BY <1>1, <1>2, <1>6, FoundStays
<1>9. PromptIsFitted'
  BY <1>1, FittedStays DEF RecallInv
<1> QED BY <1>7, <1>8, <1>9 DEF RecallInv

LEMMA ProjectHolds ==
  ASSUME RecallInv, NEW c \in Claims, Project(c)
  PROVE  RecallInv'
<1>1. /\ index' = [index EXCEPT ![c] = IF authority[c].state = "active" /\ SourcesHold(authority[c])
                                         THEN authority[c] ELSE NoRow]
      /\ kind' = kind /\ authority' = authority /\ changes' = changes /\ recall' = recall
  BY DEF Project
<1>2. index' \in [Claims -> Rows]
  BY <1>1 DEF RecallInv, RecallTyped, Rows
<1>3. RecallTyped' /\ GidsAreOld'
  BY <1>1, <1>2 DEF RecallInv, RecallTyped, GidsAreOld
<1>4. changes \in Nat
  <2>1. changes \in 0..MaxChanges /\ MaxChanges \in Nat
    BY RecallAssumption DEF RecallInv, RecallTyped
  <2> QED BY <2>1
<1>5. FoundHolds'
  BY <1>1, <1>4, FoundStays
<1>6. PromptIsFitted'
  BY <1>1, FittedStays DEF RecallInv
<1> QED BY <1>3, <1>5, <1>6 DEF RecallInv

LEMMA RecallKept == RecallInv /\ [ContextNext]_contextVars => RecallInv'
<1> SUFFICES ASSUME RecallInv, [ContextNext]_contextVars PROVE RecallInv'
  OBVIOUS
<1>1. ASSUME recallVars' = recallVars PROVE RecallInv'
  <2>1. /\ kind' = kind /\ recall' = recall
        /\ authority' = authority /\ index' = index /\ changes' = changes
    BY <1>1 DEF recallVars
  <2>2. PromptIsFitted'
    BY <2>1, FittedStays DEF RecallInv
  <2>3. (RecallTyped /\ GidsAreOld)'
    BY <2>1 DEF RecallInv, RecallTyped, GidsAreOld
  <2>4. FoundHolds'
    BY <2>1 DEF RecallInv, FoundHolds, ItemHolds
  <2> QED BY <2>2, <2>3, <2>4 DEF RecallInv
<1>2. ASSUME RecallNext PROVE RecallInv'
  BY <1>2, SearchHolds, OpenHolds, InjectHolds, StoreFailsHolds, DeliverHolds, SetClaimHolds, RetireHolds,
     ChangeSourceHolds, ProjectHolds, Zenon DEF RecallNext
<1>3. RecallNext \/ recallVars' = recallVars
  BY Zenon DEF ContextNext, RunFrame, RunDialogue, RunRecall, RunShadow, RunLineage, contextVars
<1> QED BY <1>1, <1>2, <1>3

\* The prompt is never over its share, says nothing twice and leaves nothing
\* out without a reason (PromptIsFitted of GovernedRecall).
THEOREM PromptIsAlwaysFitted == ContextSpec => []PromptIsFitted
<1>1. RecallInv => PromptIsFitted
  BY DEF RecallInv
<1> QED BY <1>1, RecallStart, RecallKept, PTL DEF ContextSpec

-----------------------------------------------------------------------------
(* Recall: what a step does *)

\* Whatever enters the prompt is the authority's word at that moment.
LEMMA InjectedStep ==
  ASSUME RecallInv, RecallNext, recall'.phase = "told", recall.phase = "found", NEW k \in DOMAIN recall'.prompt
  PROVE  LET i == recall'.prompt[k]
         IN  /\ i.row = authority[i.claim]
             /\ i.row.state = "active" /\ i.row.source = "live"
             /\ kind[i.claim] \in {"normal", "private"}
             /\ kind[i.claim] = "private" => recall'.mode \in {"daily", "sex"}
<1>1. \/ Inject \/ StoreFails \/ recall' = recall
  BY Zenon DEF RecallNext, Search, Open, Deliver, SetClaim, Retire, Govern, ChangeSource, Project
<1>2. CASE StoreFails
  <2>1. recall'.prompt = <<>>
    BY <1>2, StoreFailsHolds
  <2> QED BY <2>1
<1>3. CASE Inject
  <2>1. RecallTyped /\ recall \in Recalls /\ recall.items \in Seq(Items)
    BY DEF RecallInv, RecallTyped, Recalls
  <2>2. recall.prompt = <<>> /\ OneOfEach(recall.items)
    BY DEF RecallInv, FoundHolds
  <2>3. ASSUME NEW why \in Reasons,
               recall' = [recall EXCEPT !.phase = "told", !.items = <<>>, !.status = "abstained", !.reason = why]
        PROVE  FALSE
    <3>1. recall'.prompt = <<>>
      BY <2>1, <2>2, <2>3 DEF Recalls
    <3> QED BY <3>1
  <2>4. /\ ~EndsAll(recall.items)
        /\ recall' = [recall EXCEPT !.phase = "told", !.status = "captured", !.prompt = Prompted]
    BY <1>3, <2>1, <2>3, InjectIs, Zenon
  <2>5. recall'.prompt = Prompted /\ recall'.mode = recall.mode
    BY <2>1, <2>4 DEF Recalls
  <2> DEFINE i == Prompted[k]
  <2>6. Prompted \in Seq(Items)
    BY <2>1, <2>2, PromptedIs
  <2>7. k \in 1..Len(Prompted)
    BY <2>5, <2>6
  <2>8. PICK j \in 1..Len(recall.items) : i = recall.items[j] /\ Injectable(i.claim, authority[i.claim], recall.mode)
    BY <2>1, <2>2, <2>7, PromptedIs, Zenon
  <2>9. /\ i.row = authority[i.claim] /\ i.row.state = "active" /\ i.row.source = "live"
        /\ kind[i.claim] \notin {"restricted", "untyped"} /\ kind[i.claim] \in Kinds
        /\ kind[i.claim] = "private" => recall.mode \in {"daily", "sex"}
    BY <2>4, <2>8, ReceiptIsRow
  <2> HIDE DEF i
  <2>10. kind[i.claim] \in {"normal", "private"}
    BY <2>8, <2>9 DEF Injectable, Kinds
  <2> QED BY <2>5, <2>9, <2>10 DEF i
<1>4. CASE recall' = recall
  BY <1>4
<1> QED BY <1>1, <1>2, <1>3, <1>4

\* A search answers with all that policy allows of what it read.
LEMMA AnswerStep ==
  ASSUME RecallInv, RecallNext, recall'.phase = "found", recall.phase = "idle"
  PROVE  LET answered == {recall'.items[k].claim : k \in DOMAIN recall'.items}
         IN  \A c \in recall'.read :
               /\ index[c] = authority[c] /\ authority[c].source = "live"
               /\ c \in answered <=> Accessible(c, authority[c], recall'.mode)
<1>1. \E mode \in Modes, query \in SUBSET Bodies : Search(mode, query)
  <2>1. ASSUME NEW mode \in Modes, NEW c \in Claims, Open(mode, c) PROVE recall'.phase # "found"
    BY <2>1 DEF Open, Idle
  <2>2. Inject => FALSE
    BY DEF Inject
  <2>3. StoreFails => recall'.phase # "found"
    BY DEF StoreFails, Idle
  <2>4. Deliver => FALSE
    BY DEF Deliver
  <2>5. recall' # recall
    OBVIOUS
  <2>6. ASSUME NEW c \in Claims PROVE /\ Retire(c) => recall' = recall
                                      /\ ChangeSource(c) => recall' = recall
                                      /\ Project(c) => recall' = recall
                                      /\ \A x \in Bodies : SetClaim(c, x) => recall' = recall
    BY Zenon DEF SetClaim, Retire, Govern, ChangeSource, Project
  <2> QED BY <2>1, <2>2, <2>3, <2>4, <2>5, <2>6, Zenon DEF RecallNext
<1>2. PICK mode \in Modes, query \in SUBSET Bodies : Search(mode, query)
  BY <1>1, Zenon
<1>3. PICK rows \in Seq(Claims) :
           LET a == Answer(mode, rows)
           IN  /\ recall.phase = "idle" /\ TablesStay /\ recall' \in Recalls /\ recall'.prompt = <<>>
               /\ recall'.phase = "found" => /\ Answered(a, rows, mode) /\ recall'.items = a.items
                                             /\ recall'.mode = mode /\ recall'.read = ToSet(rows)
                                             /\ recall'.status = "none"
               /\ recall'.status # "captured"
  BY <1>2, SearchIs, Zenon DEF RecallInv
<1> DEFINE items == recall'.items
<1>4. /\ recall'.mode = mode /\ recall'.read = ToSet(rows) /\ items \in Seq(Items)
      /\ \A i \in DOMAIN rows : Matches(rows[i])
      /\ \A k \in 1..Len(items) : \E c \in Claims : items[k] = Item(c) /\ Reopened(c, mode)
      /\ \A i \in DOMAIN rows : Reopened(rows[i], mode) => \E k \in 1..Len(items) : items[k].claim = rows[i]
  BY <1>3, Zenon DEF Answered
<1> HIDE DEF items
<1>5. ASSUME NEW c \in recall'.read
      PROVE  /\ index[c] = authority[c] /\ authority[c].source = "live"
             /\ c \in {items[k].claim : k \in DOMAIN items} <=> Accessible(c, authority[c], recall'.mode)
  <2>1. PICK i \in DOMAIN rows : c = rows[i]
    BY <1>4 DEF ToSet
  <2>2. index[c] = authority[c] /\ SourcesHold(authority[c]) /\ Matches(c)
    BY <1>4, <2>1 DEF Matches
  <2>3. ASSUME NEW k \in DOMAIN items, items[k].claim = c PROVE Accessible(c, authority[c], mode)
    <3>1. k \in 1..Len(items)
      BY <1>4
    <3>2. PICK d \in Claims : items[k] = Item(d) /\ Reopened(d, mode)
      BY <1>4, <3>1
    <3>3. d = c
      BY <2>3, <3>2 DEF Item
    <3> QED BY <3>2, <3>3 DEF Reopened
  <2>4. ASSUME Accessible(c, authority[c], mode) PROVE \E k \in DOMAIN items : items[k].claim = c
    <3>1. authority[c] # NoRow
      BY <2>4 DEF Accessible, NoRow
    <3>2. Reopened(c, mode)
      BY <3>1, <2>2, <2>4 DEF Reopened
    <3>3. PICK k \in 1..Len(items) : items[k].claim = c
      BY <1>4, <2>1, <3>2
    <3>4. k \in DOMAIN items
      BY <1>4
    <3> QED BY <3>3, <3>4
  <2> QED BY <1>4, <2>2, <2>3, <2>4 DEF SourcesHold
<1> QED BY <1>5 DEF items

\* No memory that is out of date reaches an answer or the prompt
\* (InjectedIsInForce and AnswerIsCurrent of GovernedRecall).
THEOREM RecallIsSafe == ContextSpec => RecallSafe
<1> DEFINE Injected == \A k \in DOMAIN recall'.prompt :
                         recall'.phase = "told" /\ recall.phase = "found" =>
                           LET i == recall'.prompt[k]
                           IN  /\ i.row = authority[i.claim]
                               /\ i.row.state = "active" /\ i.row.source = "live"
                               /\ kind[i.claim] \in {"normal", "private"}
                               /\ kind[i.claim] = "private" => recall'.mode \in {"daily", "sex"}
           Current == recall'.phase = "found" /\ recall.phase = "idle" =>
                        LET answered == {recall'.items[k].claim : k \in DOMAIN recall'.items}
                        IN  \A c \in recall'.read :
                              /\ index[c] = authority[c] /\ authority[c].source = "live"
                              /\ c \in answered <=> Accessible(c, authority[c], recall'.mode)
<1>1. RecallInv /\ [ContextNext]_contextVars => [Injected]_recallVars /\ [Current]_recallVars
  <2> SUFFICES ASSUME RecallInv, [ContextNext]_contextVars PROVE [Injected /\ Current]_recallVars
    BY Zenon
  <2>1. RecallNext \/ recallVars' = recallVars
    BY Zenon DEF ContextNext, RunFrame, RunDialogue, RunRecall, RunShadow, RunLineage, contextVars
  <2>2. ASSUME RecallNext PROVE Injected
    BY <2>2, InjectedStep, Zenon
  <2>3. ASSUME RecallNext PROVE Current
    BY <2>3, AnswerStep, Zenon
  <2> HIDE DEF Injected, Current
  <2> QED BY <2>1, <2>2, <2>3
<1>2. InjectedIsInForce <=> [][Injected]_recallVars
  BY DEF InjectedIsInForce
<1>3. AnswerIsCurrent <=> [][Current]_recallVars
  BY DEF AnswerIsCurrent
<1> HIDE DEF Injected, Current
<1> QED BY <1>1, <1>2, <1>3, RecallStart, RecallKept, PTL DEF ContextSpec, RecallSafe

-----------------------------------------------------------------------------
(* Reports: the classes and the replays of a shadow migration              *)

Contents == UNION {[records : [Records -> Record], events : [present -> Event], claims : SUBSET Records] :
                     present \in SUBSET Events}

ManifestOf(content) ==
  [of |-> content, classes |-> [r \in Records |-> Classify(content.records[r], content.events)]]

\* A replay over a snapshot has only ever looked at the snapshot.
ReplayHolds ==
  /\ replay.pc = "legacy" /\ replay.path = "snapshot" => replay.before = snapshot /\ snapshot # {}
  /\ replay.pc = "governed" /\ replay.path = "snapshot" =>
       /\ replay.before = snapshot /\ replay.seen \in snapshot
       /\ replay.legacy = LegacySide(replay.seen, replay.ceiling)
  /\ replay.pc = "end" /\ replay.path = "snapshot" =>
       /\ replay.before = snapshot /\ snapshot # {}
       /\ \A c \in snapshot :
            replay.legacy = LegacySide(c, replay.ceiling) /\ replay.governed = GovernedSide(c, replay.ceiling)

ShadowHolds ==
  /\ store \in Contents /\ commits \in 0..MaxCommits
  /\ snapshot = {} \/ \E c \in Contents : snapshot = {c}
  /\ manifest = {} \/ \E c \in Contents : manifest = {ManifestOf(c)}
  /\ reports = {} \/ \E p : reports = {p}
  /\ ReplayHolds
  /\ VerdictIsOfItsFile

\* Sources without a fault are events that are there, once each, sound and in force.
LEMMA ReasonIs ==
  ASSUME NEW sources \in Seq(Events \cup {0}), NEW events, SourceReason(sources, events) = "none"
  PROVE  /\ \A i, j \in DOMAIN sources : sources[i] = sources[j] => i = j
         /\ \A i \in DOMAIN sources :
              sources[i] \in DOMAIN events /\ events[sources[i]].intact /\ events[sources[i]].active
<1> DEFINE bad == {e \in Cited(sources) : ~(events[e].intact /\ events[e].active)}
<1>1. ~Repeats(sources) /\ Cited(sources) \subseteq DOMAIN events /\ bad = {}
  BY DEF SourceReason
<1>2. \A i \in DOMAIN sources : sources[i] \in Cited(sources)
  BY DEF Cited
<1> QED BY <1>1, <1>2 DEF Repeats

\* A class of evidence is given only to a record that has it.
LEMMA ClassIsFounded ==
  ASSUME NEW c \in Contents, NEW r \in Records
  PROVE  LET record == c.records[r]
             class == Classify(record, c.events).class
         IN  /\ class = "event_derived" => Founded(record, c) /\ record.sources # <<>>
             /\ class = "legacy_governed" =>
                  Founded(record, c) /\ record.sources = <<>> /\ record.sensitivity = "normal"
                  /\ record.provenance = "tool_complete"
<1> DEFINE record == c.records[r]
           events == c.events
           sources == record.sources
           class == Classify(record, events).class
<1>1. PICK present \in SUBSET Events :
        c \in [records : [Records -> Record], events : [present -> Event], claims : SUBSET Records]
  BY DEF Contents
<1>2. record \in Record /\ events \in [present -> Event] /\ DOMAIN events = present
  BY <1>1
<1> HIDE DEF record, events
<1>3. sources \in Seq(Events \cup {0}) /\ record.sensitivity \in {"normal", "private", "secret"}
  <2>1. sources \in SourceLists /\ record.sensitivity \in {"normal", "private", "secret"}
    BY <1>2 DEF Record
  <2> QED BY <2>1, ShadowAssumption
<1> HIDE DEF sources
<1>4. class = "event_derived" =>
        /\ record.status = "approved" /\ SourceReason(sources, events) = "none" /\ sources # <<>>
        /\ ~(\E e \in Cited(sources) : Ranks[record.sensitivity] < Ranks[events[e].sensitivity])
  BY DEF Classify, Class, Quarantined, sources
<1>5. class = "legacy_governed" =>
        /\ record.status = "approved" /\ SourceReason(sources, events) = "none" /\ sources = <<>>
        /\ record.sensitivity = "normal" /\ record.provenance = "tool_complete"
  BY DEF Classify, Class, Quarantined, sources
<1> HIDE DEF class
<1>6. ASSUME class = "event_derived" PROVE Founded(record, c) /\ sources # <<>>
  <2>1. /\ \A i, j \in DOMAIN sources : sources[i] = sources[j] => i = j
        /\ \A i \in DOMAIN sources :
             sources[i] \in DOMAIN events /\ events[sources[i]].intact /\ events[sources[i]].active
    BY <1>3, <1>4, <1>6, ReasonIs
  <2>2. ASSUME NEW i \in DOMAIN sources
        PROVE  Ranks[events[sources[i]].sensitivity] <= Ranks[record.sensitivity]
    <3>1. events[sources[i]] \in Event
      BY <1>2, <2>1
    <3>2. events[sources[i]].sensitivity \in {"normal", "private"}
      BY <3>1 DEF Event
    <3>3. ~(Ranks[record.sensitivity] < Ranks[events[sources[i]].sensitivity])
      BY <1>4, <1>6 DEF Cited
    <3> QED BY <3>2, <3>3, <1>3 DEF Ranks
  <2>3. \A i \in DOMAIN sources :
           /\ sources[i] \in DOMAIN events
           /\ LET e == events[sources[i]] IN
                e.intact /\ e.active /\ Ranks[e.sensitivity] <= Ranks[record.sensitivity]
    BY <2>1, <2>2
  <2> QED BY <1>4, <1>6, <2>1, <2>3, Zenon DEF Founded, sources, events
<1>7. ASSUME class = "legacy_governed"
      PROVE  Founded(record, c) /\ sources = <<>> /\ record.sensitivity = "normal"
             /\ record.provenance = "tool_complete"
  <2>1. DOMAIN sources = {}
    BY <1>5, <1>7
  <2> QED BY <2>1, <1>5, <1>7 DEF Founded, sources
<1> QED BY <1>6, <1>7 DEF class, record, events, sources

LEMMA ShadowStart == ShadowInit => ShadowHolds
<1> SUFFICES ASSUME ShadowInit PROVE ShadowHolds
  OBVIOUS
<1>1. PICK present \in SUBSET Events : store \in [records : [Records -> Record], events : [present -> Event], claims : {{}}]
  BY DEF ShadowInit, Stores
<1>2. store \in [records : [Records -> Record], events : [present -> Event], claims : SUBSET Records]
  BY <1>1
<1>3. store \in Contents
  BY <1>2 DEF Contents
<1>4. commits \in 0..MaxCommits
  BY ShadowAssumption DEF ShadowInit
<1>5. ReplayHolds /\ VerdictIsOfItsFile
  BY DEF ShadowInit, ReplayHolds, NoReplay, VerdictIsOfItsFile
<1> QED BY <1>3, <1>4, <1>5 DEF ShadowInit, ShadowHolds

\* The host changes only the store, and the store stays a store.
LEMMA CommitHolds ==
  ASSUME ShadowHolds, NEW content \in Contents, HostCommits(content)
  PROVE  ShadowHolds'
<1>1. /\ store' = content /\ commits' = commits + 1 /\ commits < MaxCommits
      /\ snapshot' = snapshot /\ manifest' = manifest /\ replay' = replay /\ reports' = reports
  BY DEF HostCommits
<1>2. commits' \in 0..MaxCommits
  BY <1>1, ShadowAssumption DEF ShadowHolds
<1>3. ReplayHolds' /\ VerdictIsOfItsFile'
  BY <1>1 DEF ShadowHolds, ReplayHolds, VerdictIsOfItsFile
<1> QED BY <1>1, <1>2, <1>3 DEF ShadowHolds

LEMMA HostHolds ==
  ASSUME ShadowHolds, RejectEvent \/ ReviewRecord \/ PromoteRecord \/ RetireClaim
  PROVE  ShadowHolds'
<1>1. PICK present \in SUBSET Events :
        store \in [records : [Records -> Record], events : [present -> Event], claims : SUBSET Records]
  BY DEF ShadowHolds, Contents
<1> DEFINE Whole == [records : [Records -> Record], events : [present -> Event], claims : SUBSET Records]
<1>2. Whole \in SUBSET Contents
  BY DEF Contents
<1>3. CASE RejectEvent
  <2>1. PICK e \in DOMAIN store.events : HostCommits([store EXCEPT !.events[e].active = FALSE])
    BY <1>3 DEF RejectEvent
  <2>2. store.events \in [present -> Event] /\ e \in present
    BY <1>1, <2>1
  <2>3. [store.events[e] EXCEPT !.active = FALSE] \in Event
    <3>1. store.events[e] \in Event /\ FALSE \in BOOLEAN
      BY <2>2
    <3> QED BY <3>1, Zenon DEF Event
  <2> DEFINE events == [store.events EXCEPT ![e].active = FALSE]
  <2>4. events \in [present -> Event]
    BY <2>2, <2>3
  <2>5. [store EXCEPT !.events = events] \in Whole
    <3> HIDE DEF events
    <3> QED BY <1>1, <2>4, Zenon
  <2>6. [store EXCEPT !.events[e].active = FALSE] = [store EXCEPT !.events = events]
    BY Zenon
  <2> QED BY <1>2, <2>1, <2>5, <2>6, CommitHolds
<1>4. CASE ReviewRecord
  <2>1. PICK r \in Records, status \in Statuses : HostCommits([store EXCEPT !.records[r].status = status])
    BY <1>4 DEF ReviewRecord
  <2>2. store.records \in [Records -> Record]
    BY <1>1
  <2>3. [store.records[r] EXCEPT !.status = status] \in Record
    <3>1. store.records[r] \in Record
      BY <2>2
    <3> QED BY <3>1, Zenon DEF Record
  <2> DEFINE records == [store.records EXCEPT ![r].status = status]
  <2>4. records \in [Records -> Record]
    BY <2>2, <2>3
  <2>5. [store EXCEPT !.records = records] \in Whole
    <3> HIDE DEF records
    <3> QED BY <1>1, <2>4, Zenon
  <2>6. [store EXCEPT !.records[r].status = status] = [store EXCEPT !.records = records]
    BY Zenon
  <2> QED BY <1>2, <2>1, <2>5, <2>6, CommitHolds
<1>5. CASE PromoteRecord
  <2>1. PICK r \in Records : HostCommits([store EXCEPT !.claims = @ \cup {r}])
    BY <1>5 DEF PromoteRecord
  <2>2. store.claims \cup {r} \in SUBSET Records
    BY <1>1
  <2>3. [store EXCEPT !.claims = store.claims \cup {r}] \in Whole
    BY <1>1, <2>2, Zenon
  <2> QED BY <1>2, <2>1, <2>3, CommitHolds
<1>6. CASE RetireClaim
  <2>1. PICK r \in store.claims : HostCommits([store EXCEPT !.claims = @ \ {r}])
    BY <1>6 DEF RetireClaim
  <2>2. store.claims \ {r} \in SUBSET Records
    BY <1>1
  <2>3. [store EXCEPT !.claims = store.claims \ {r}] \in Whole
    BY <1>1, <2>2, Zenon
  <2> QED BY <1>2, <2>1, <2>3, CommitHolds
<1> QED BY <1>3, <1>4, <1>5, <1>6

LEMMA ToolsHold ==
  ASSUME ShadowHolds,
         Checkpoint \/ TakeSnapshot \/ GenerateManifest \/ BeginReplay \/ AskLegacy \/ AskGoverned \/ EndReplay
  PROVE  ShadowHolds'
<1>1. CASE Checkpoint
  BY <1>1 DEF Checkpoint, ShadowHolds, ReplayHolds, VerdictIsOfItsFile
<1>2. CASE TakeSnapshot
  <2>1. /\ snapshot = {} /\ snapshot' = {store} /\ store' = store /\ commits' = commits
        /\ manifest' = manifest /\ replay' = replay /\ reports' = reports
    BY <1>2 DEF TakeSnapshot
  <2>2. ReplayHolds'
    BY <2>1 DEF ShadowHolds, ReplayHolds
  <2>3. VerdictIsOfItsFile'
    BY <2>1 DEF ShadowHolds, VerdictIsOfItsFile
  <2> QED BY <2>1, <2>2, <2>3 DEF ShadowHolds
<1>3. CASE GenerateManifest
  <2>1. /\ store' = store /\ commits' = commits /\ snapshot' = snapshot /\ replay' = replay /\ reports' = reports
        /\ \E content \in snapshot : manifest' = {ManifestOf(content)}
    BY <1>3, Zenon DEF GenerateManifest, ManifestOf
  <2>2. \E c \in Contents : manifest' = {ManifestOf(c)}
    BY <2>1 DEF ShadowHolds
  <2>3. ReplayHolds' /\ VerdictIsOfItsFile'
    BY <2>1 DEF ShadowHolds, ReplayHolds, VerdictIsOfItsFile
  <2> QED BY <2>1, <2>2, <2>3 DEF ShadowHolds
<1>4. CASE BeginReplay
  <2>1. /\ store' = store /\ commits' = commits /\ snapshot' = snapshot /\ manifest' = manifest
        /\ reports' = reports
        /\ \E path \in {"snapshot", "store"}, ceiling \in {"private"} :
             /\ FileOf(path) # {}
             /\ replay' = [pc |-> "legacy", path |-> path, ceiling |-> ceiling, before |-> FileOf(path)]
    BY <1>4 DEF BeginReplay
  <2>2. ReplayHolds'
    BY <2>1 DEF ReplayHolds, FileOf
  <2>3. VerdictIsOfItsFile'
    BY <2>1 DEF ShadowHolds, VerdictIsOfItsFile
  <2> QED BY <2>1, <2>2, <2>3 DEF ShadowHolds
<1>5. CASE AskLegacy
  <2>1. PICK content \in Visible(replay.path) :
          /\ store' = store /\ commits' = commits /\ snapshot' = snapshot /\ manifest' = manifest
          /\ reports' = reports /\ replay.pc = "legacy"
          /\ replay' = [pc |-> "governed", path |-> replay.path, ceiling |-> replay.ceiling,
                        before |-> replay.before, legacy |-> LegacySide(content, replay.ceiling), seen |-> content]
    BY <1>5 DEF AskLegacy
  <2>2. ReplayHolds'
    BY <2>1 DEF ShadowHolds, ReplayHolds, Visible
  <2>3. VerdictIsOfItsFile'
    BY <2>1 DEF ShadowHolds, VerdictIsOfItsFile
  <2> QED BY <2>1, <2>2, <2>3 DEF ShadowHolds
<1>6. CASE AskGoverned
  <2>1. PICK content \in Visible(replay.path) :
          /\ store' = store /\ commits' = commits /\ snapshot' = snapshot /\ manifest' = manifest
          /\ reports' = reports /\ replay.pc = "governed"
          /\ replay' = [pc |-> "end", path |-> replay.path, ceiling |-> replay.ceiling, before |-> replay.before,
                        legacy |-> replay.legacy, governed |-> GovernedSide(content, replay.ceiling),
                        moments |-> {replay.seen, content}]
    BY <1>6 DEF AskGoverned
  <2>2. replay.path = "snapshot" =>
          /\ replay.before = snapshot /\ replay.legacy = LegacySide(replay.seen, replay.ceiling)
          /\ \A c \in snapshot : c = replay.seen /\ c = content
    BY <2>1 DEF ShadowHolds, ReplayHolds, Visible
  <2>3. ReplayHolds'
    <3>1. /\ replay'.pc = "end" /\ replay'.path = replay.path /\ replay'.ceiling = replay.ceiling
          /\ replay'.before = replay.before /\ replay'.legacy = replay.legacy
          /\ replay'.governed = GovernedSide(content, replay.ceiling)
      BY <2>1
    <3>2. replay.path = "snapshot" => snapshot # {}
      BY <2>1 DEF Visible
    <3>3. replay.path = "snapshot" => \A c \in snapshot :
            /\ replay.legacy = LegacySide(c, replay.ceiling)
            /\ GovernedSide(content, replay.ceiling) = GovernedSide(c, replay.ceiling)
      BY <2>2, Zenon
    <3> QED BY <2>1, <2>2, <3>1, <3>2, <3>3 DEF ReplayHolds
  <2>4. VerdictIsOfItsFile'
    BY <2>1 DEF ShadowHolds, VerdictIsOfItsFile
  <2> QED BY <2>1, <2>3, <2>4 DEF ShadowHolds
<1>7. CASE EndReplay
  <2>1. /\ store' = store /\ commits' = commits /\ snapshot' = snapshot /\ manifest' = manifest
        /\ replay' = NoReplay /\ replay.pc = "end"
        /\ reports' = IF FileOf(replay.path) = replay.before THEN {Reported(replay.before)} ELSE reports
    BY <1>7 DEF EndReplay
  <2>2. ReplayHolds'
    BY <2>1 DEF ReplayHolds, NoReplay
  <2>3. VerdictIsOfItsFile'
    <3>1. CASE FileOf(replay.path) = replay.before
      <4>1. reports' = {Reported(replay.before)}
        BY <2>1, <3>1
      <4>2. replay.path = "snapshot" =>
              /\ replay.before = snapshot
              /\ \A c \in snapshot : Verdict(replay.legacy, replay.governed)
                     = Verdict(LegacySide(c, replay.ceiling), GovernedSide(c, replay.ceiling))
        BY <2>1, Zenon DEF ShadowHolds, ReplayHolds
      <4>3. /\ Reported(replay.before).path = replay.path /\ Reported(replay.before).ceiling = replay.ceiling
            /\ Reported(replay.before).file = replay.before
            /\ Reported(replay.before).verdict = Verdict(replay.legacy, replay.governed)
        BY DEF Reported
      <4>4. ASSUME NEW p \in reports', p.path = "snapshot", NEW c \in p.file
            PROVE  p.verdict = Verdict(LegacySide(c, p.ceiling), GovernedSide(c, p.ceiling))
        <5>1. p = Reported(replay.before)
          BY <4>1, <4>4
        <5>2. /\ p.path = replay.path /\ p.ceiling = replay.ceiling /\ p.file = replay.before
              /\ p.verdict = Verdict(replay.legacy, replay.governed)
          BY <4>3, <5>1, Zenon
        <5>3. c \in snapshot
          BY <4>2, <4>4, <5>2, Zenon
        <5> QED BY <4>2, <4>4, <5>2, <5>3, Zenon
      <4> QED BY <4>4, Zenon DEF VerdictIsOfItsFile
    <3>2. CASE FileOf(replay.path) # replay.before
      <4>1. reports' = reports
        BY <2>1, <3>2
      <4> QED BY <4>1 DEF ShadowHolds, VerdictIsOfItsFile
    <3> QED BY <3>1, <3>2
  <2> QED BY <2>1, <2>2, <2>3 DEF ShadowHolds
<1> QED BY <1>1, <1>2, <1>3, <1>4, <1>5, <1>6, <1>7

\* What holds of the tools says what the property says.
LEMMA ShadowSays == ShadowHolds => ShadowTypeOK /\ ClassesAreFounded /\ VerdictIsOfItsFile
<1> SUFFICES ASSUME ShadowHolds PROVE ShadowTypeOK /\ ClassesAreFounded
  BY DEF ShadowHolds
<1>1. \A p : Cardinality({p}) = 1
  BY FS_Singleton
<1>2. Cardinality({}) = 0
  BY FS_EmptySet
<1>0. ASSUME NEW S, S = {} \/ \E p : S = {p} PROVE Cardinality(S) <= 1
  <2>1. Cardinality(S) = 0 \/ Cardinality(S) = 1
    BY <1>0, <1>1, <1>2, Zenon
  <2> QED BY <2>1
<1>3. Cardinality(snapshot) <= 1
  <2>1. snapshot = {} \/ \E p : snapshot = {p}
    BY Zenon DEF ShadowHolds
  <2> QED BY <1>0, <2>1, Zenon
<1>4. Cardinality(manifest) <= 1
  <2>1. manifest = {} \/ \E p : manifest = {p}
    BY Zenon DEF ShadowHolds
  <2> QED BY <1>0, <2>1, Zenon
<1>5. Cardinality(reports) <= 1
  <2>1. reports = {} \/ \E p : reports = {p}
    BY Zenon DEF ShadowHolds
  <2> QED BY <1>0, <2>1, Zenon
<1>6. store.claims \subseteq Records
  BY DEF ShadowHolds, Contents
<1>7. ShadowTypeOK
  BY <1>3, <1>4, <1>5, <1>6 DEF ShadowTypeOK, ShadowHolds
<1>8. ASSUME NEW m \in manifest, NEW r \in Records
      PROVE  LET record == m.of.records[r] IN
             /\ m.classes[r].class = "event_derived" => Founded(record, m.of) /\ record.sources # <<>>
             /\ m.classes[r].class = "legacy_governed" =>
                  Founded(record, m.of) /\ record.sources = <<>> /\ record.sensitivity = "normal"
                  /\ record.provenance = "tool_complete"
  <2>1. PICK c \in Contents : m = ManifestOf(c)
    BY <1>8 DEF ShadowHolds
  <2>2. m.of = c /\ m.classes[r] = Classify(c.records[r], c.events)
    BY <2>1 DEF ManifestOf
  <2> QED BY <2>2, ClassIsFounded, Zenon
<1> QED BY <1>7, <1>8, Zenon DEF ClassesAreFounded

-----------------------------------------------------------------------------
(* Reports: the evidence behind a memory                                   *)

SummaryHolds ==
  /\ short \in Seq([session : Sessions, role : Roles, text : Wordings])
  /\ summary \in Seq([session : Sessions, ids : SUBSET Nat, text : Wordings])

LineageHolds ==
  /\ raw \in Seq([role : Roles, text : Wordings])
  /\ SummaryHolds

LEMMA LineageStart == LineageInit => LineageHolds
  BY DEF LineageInit, LineageHolds, SummaryHolds

LEMMA LineageKept ==
  ASSUME LineageHolds, LineageNext
  PROVE  LineageHolds'
<1> DEFINE Short == [session : Sessions, role : Roles, text : Wordings]
           Node == [session : Sessions, ids : SUBSET Nat, text : Wordings]
<1>0. short \in Seq(Short) /\ summary \in Seq(Node) /\ raw \in Seq([role : Roles, text : Wordings])
  BY DEF LineageHolds, SummaryHolds
<1>1. CASE AddRaw
  <2>1. PICK role \in Roles, text \in Wordings : raw' = Append(raw, [role |-> role, text |-> text])
    BY <1>1 DEF AddRaw
  <2>2. short' = short /\ summary' = summary
    BY <1>1 DEF AddRaw
  <2>3. raw' \in Seq([role : Roles, text : Wordings])
    BY <1>0, <2>1
  <2> QED BY <1>0, <2>2, <2>3 DEF LineageHolds, SummaryHolds
<1>2. CASE AddShort
  <2>1. PICK session \in Sessions, role \in Roles, text \in Wordings :
          short' = Append(short, [session |-> session, role |-> role, text |-> text])
    BY <1>2 DEF AddShort
  <2>2. raw' = raw /\ summary' = summary
    BY <1>2 DEF AddShort
  <2>3. short' \in Seq(Short)
    BY <1>0, <2>1
  <2> QED BY <1>0, <2>2, <2>3 DEF LineageHolds, SummaryHolds
<1>3. CASE AddSummary
  <2>1. PICK session \in Sessions, text \in Wordings, ids \in SUBSET DOMAIN short :
            summary' = Append(summary, [session |-> session, ids |-> ids, text |-> text])
    BY <1>3 DEF AddSummary
  <2>2. raw' = raw /\ short' = short
    BY <1>3 DEF AddSummary
  <2>3. ids \in SUBSET Nat
    BY <1>0
  <2>4. summary' \in Seq(Node)
    BY <1>0, <2>1, <2>3
  <2> QED BY <1>0, <2>2, <2>4 DEF LineageHolds, SummaryHolds
<1> QED BY <1>1, <1>2, <1>3 DEF LineageNext

\* What two texts share is a number, when one of them is the memory.
LEMMA SharedBounded ==
  ASSUME NEW text
  PROVE  /\ Cardinality(Memory) \in Nat \ {0} /\ Shared(Memory, text) \in 0..Cardinality(Memory)
<1>1. IsFiniteSet(Memory) /\ Memory # {}
  BY LineageAssumption
<1>2. IsFiniteSet(Memory \cap text) /\ Cardinality(Memory \cap text) <= Cardinality(Memory)
  BY <1>1, FS_Subset
<1>3. Cardinality(Memory) \in Nat /\ Cardinality(Memory \cap text) \in Nat
  BY <1>1, <1>2, FS_CardinalityType
<1>4. Cardinality(Memory) # 0
  BY <1>1, FS_EmptySet
<1> QED BY <1>2, <1>3, <1>4 DEF Shared

\* The best of some messages is one of them.
LEMMA BestIs ==
  ASSUME NEW S \in SUBSET (1..Len(raw)), S # {}, Len(raw) \in Nat
  PROVE  /\ Best(S) \in S
         /\ \A j \in S : Shared(Memory, raw[j].text) <= Shared(Memory, raw[Best(S)].text)
<1> DEFINE N(i) == Shared(Memory, raw[i].text)
           n == Cardinality(Memory)
           Q(i) == \A j \in S : N(j) < N(i) \/ (N(j) = N(i) /\ i <= j)
<1>1. n \in Nat /\ \A i \in S : N(i) \in 0..n
  BY SharedBounded
<1> HIDE DEF N, n
<1> DEFINE shares == {N(i) : i \in S}
<1>2. Max(shares) \in shares /\ \A y \in shares : y <= Max(shares)
  <2>1. shares \in SUBSET (0..n) /\ shares # {}
    BY <1>1
  <2> HIDE DEF shares
  <2> QED BY <1>1, <2>1, MaxIs
<1> DEFINE top == Max(shares)
           tops == {i \in S : N(i) = top}
<1>3. tops \in SUBSET Nat /\ tops # {}
  <2> HIDE DEF top
  <2>1. top \in shares
    BY <1>2 DEF top
  <2>2. \A i \in S : i \in Nat
    OBVIOUS
  <2> QED BY <2>1, <2>2
<1>4. PICK i \in tops : \A j \in tops : i <= j
  <2> HIDE DEF tops
  <2> QED BY <1>3, LeastNumber
<1>5. Q(i)
  <2> SUFFICES ASSUME NEW j \in S PROVE N(j) < N(i) \/ (N(j) = N(i) /\ i <= j)
    OBVIOUS
  <2>1. N(i) = top /\ N(j) <= top /\ N(j) \in Nat /\ N(i) \in Nat
    BY <1>1, <1>2, <1>4
  <2>2. N(j) = top => i <= j
    BY <1>4
  <2> HIDE DEF top, shares, tops
  <2> QED BY <2>1, <2>2
<1>6. i \in S
  BY <1>4
<1>7. Best(S) = CHOOSE k \in S : Q(k)
  BY DEF Best, N
<1> HIDE DEF Q
<1>8. Best(S) \in S /\ Q(Best(S))
  BY <1>5, <1>6, <1>7
<1>9. \A j \in S : N(j) <= N(Best(S))
  <2> SUFFICES ASSUME NEW j \in S PROVE N(j) <= N(Best(S))
    OBVIOUS
  <2> DEFINE b == Best(S)
  <2>0. b \in S /\ (N(j) < N(b) \/ (N(j) = N(b) /\ b <= j))
    BY <1>8, Zenon DEF Q
  <2> HIDE DEF b
  <2>1. N(j) \in Nat /\ N(b) \in Nat
    BY <1>1, <2>0
  <2>2. N(j) <= N(b)
    BY <2>0, <2>1
  <2> QED BY <2>2 DEF b
<1> QED BY <1>8, <1>9 DEF N

LEMMA UsersAre ==
  ASSUME LineageHolds
  PROVE  /\ Users(raw) \in SUBSET (1..Len(raw)) /\ Len(raw) \in Nat
         /\ \A i \in Users(raw) : raw[i].role = "user"
  BY DEF LineageHolds, Users

\* A corroboration is ahead of every other message.
LEMMA CorroborationHolds == LineageHolds => CorroborationIsUnambiguous
<1> SUFFICES ASSUME LineageHolds, NEW i \in Corroborate
             PROVE  /\ raw[i].role = "user" /\ Covers(Memory, raw[i].text, 60)
                    /\ \A j \in Users(raw) \ {i} : Shared(Memory, raw[j].text) < Shared(Memory, raw[i].text)
  BY DEF CorroborationIsUnambiguous
<1> DEFINE best == Best(Users(raw))
           N(j) == Shared(Memory, raw[j].text)
           others == {0} \cup {N(j) : j \in Users(raw) \ {best}}
           n == Cardinality(Memory)
<1>1. /\ Users(raw) # {} /\ i = best /\ Covers(Memory, raw[best].text, 60)
      /\ 100 * (N(best) - Max(others)) >= 10 * n
  <2>1. Users(raw) # {}
    BY DEF Corroborate
  <2>2. Corroborate = IF /\ Covers(Memory, raw[best].text, 60)
                         /\ 100 * (N(best) - Max(others)) >= 10 * n
                      THEN {best} ELSE {}
    BY <2>1, Zenon DEF Corroborate
  <2> HIDE DEF best, N, others, n
  <2> QED BY <2>1, <2>2
<1>2. best \in Users(raw) /\ raw[best].role = "user"
  <2>1. best \in Users(raw)
    BY <1>1, UsersAre, BestIs
  <2> QED BY <2>1, UsersAre
<1>3. n \in Nat \ {0} /\ \A j : N(j) \in 0..n
  BY SharedBounded
<1> HIDE DEF N, n, best
<1>4. \A y \in others : y <= Max(others)
  <2>1. others \in SUBSET (0..n) /\ others # {}
    BY <1>3
  <2> HIDE DEF others
  <2> QED BY <1>3, <2>1, MaxIs
<1>5. Max(others) \in 0..n
  <2>1. others \in SUBSET (0..n) /\ others # {}
    BY <1>3
  <2> HIDE DEF others
  <2> QED BY <1>3, <2>1, MaxIs
<1>6. ASSUME NEW j \in Users(raw) \ {best} PROVE N(j) < N(best)
  <2>1. N(j) <= Max(others)
    BY <1>4
  <2> HIDE DEF others
  <2> QED BY <1>1, <1>3, <1>5, <2>1
<1> QED BY <1>1, <1>2, <1>6 DEF N

\* The parts of a chain belong to each other.
LEMMA ChainsHold == LineageHolds => ChainsAreCited
<1> SUFFICES ASSUME LineageHolds, NEW chain \in Recover
             PROVE  /\ \A i \in Users(raw) : Shared(Memory, raw[i].text) <= Shared(Memory, raw[chain.raw].text)
                    /\ \A j \in chain.short :
                         short[j].role = "user" /\ Covers(raw[chain.raw].text, short[j].text, 90)
                    /\ \A k \in chain.summary :
                         /\ summary[k].ids \cap chain.short # {}
                         /\ \E j \in chain.short : short[j].session = summary[k].session
  BY Zenon DEF ChainsAreCited
<1> DEFINE first == Best(Matching)
           n == Cardinality(Memory)
           N(i) == Shared(Memory, raw[i].text)
<1>1. /\ Matching # {}
      /\ chain = [raw |-> first, short |-> Repeating(first), summary |-> Citing(Repeating(first))]
  <2>1. Matching # {}
    BY DEF Recover
  <2>2. Recover = IF Repeating(first) = {} \/ Citing(Repeating(first)) = {} THEN {}
                  ELSE {[raw |-> first, short |-> Repeating(first), summary |-> Citing(Repeating(first))]}
    BY <2>1, Zenon DEF Recover
  <2> HIDE DEF first
  <2> QED BY <2>1, <2>2
<1>2. Matching \in SUBSET (1..Len(raw)) /\ Len(raw) \in Nat
  BY UsersAre DEF Matching
<1>3. first \in Matching /\ \A i \in Matching : N(i) <= N(first)
  BY <1>1, <1>2, BestIs
<1> HIDE DEF first
<1>4. chain.raw = first /\ chain.short = Repeating(first) /\ chain.summary = Citing(Repeating(first))
  BY <1>1
<1>5. ASSUME NEW i \in Users(raw) PROVE N(i) <= N(first)
  <2>1. CASE i \in Matching
    BY <1>3, <2>1
  <2>2. CASE i \notin Matching
    <3>1. ~Covers(Memory, raw[i].text, 42) /\ Covers(Memory, raw[first].text, 42)
      BY <1>3, <2>2 DEF Matching
    <3>2. n \in Nat \ {0} /\ N(i) \in 0..n /\ N(first) \in 0..n
      BY SharedBounded
    <3>3. ~(100 * N(i) >= 42 * n) /\ 100 * N(first) >= 42 * n
      BY <3>1 DEF Covers
    <3> HIDE DEF n, N
    <3> QED BY <3>2, <3>3
  <2> QED BY <2>1, <2>2
<1>6. \A j \in Repeating(first) : short[j].role = "user" /\ Covers(raw[first].text, short[j].text, 90)
  BY Zenon DEF Repeating, Users
<1>7. \A k \in Citing(Repeating(first)) :
        /\ summary[k].ids \cap Repeating(first) # {}
        /\ \E j \in Repeating(first) : short[j].session = summary[k].session
  BY Zenon DEF Citing
<1> QED BY <1>4, <1>5, <1>6, <1>7

-----------------------------------------------------------------------------
(* Reports: the theorem *)

ReportsInv ==
  /\ part = "shadow" => ShadowHolds
  /\ part = "lineage" => LineageHolds

LEMMA ReportsStart == ContextInit => ReportsInv
  BY ShadowStart, LineageStart, Zenon DEF ContextInit, ReportsInv

LEMMA ReportsKept == ReportsInv /\ [ContextNext]_contextVars => ReportsInv'
<1> SUFFICES ASSUME ReportsInv, [ContextNext]_contextVars PROVE ReportsInv'
  OBVIOUS
<1>1. ASSUME shadowVars' = shadowVars, ShadowHolds PROVE ShadowHolds'
  <2>1. /\ store' = store /\ snapshot' = snapshot /\ manifest' = manifest /\ replay' = replay
        /\ reports' = reports /\ commits' = commits
    BY <1>1 DEF shadowVars
  <2> QED BY <1>1, <2>1 DEF ShadowHolds, ReplayHolds, VerdictIsOfItsFile
<1>2. ASSUME lineageVars' = lineageVars, LineageHolds PROVE LineageHolds'
  BY <1>2 DEF LineageHolds, SummaryHolds, lineageVars
<1>3. ASSUME ShadowNext, ShadowHolds PROVE ShadowHolds'
  BY <1>3, HostHolds, ToolsHold, Zenon DEF ShadowNext
<1>4. \/ part' = part /\ shadowVars' = shadowVars /\ lineageVars' = lineageVars
      \/ part = "shadow" /\ part' = part /\ ShadowNext /\ lineageVars' = lineageVars
      \/ part = "lineage" /\ part' = part /\ LineageNext /\ shadowVars' = shadowVars
  BY Zenon DEF ContextNext, RunFrame, RunDialogue, RunRecall, RunShadow, RunLineage, contextVars, reportVars
<1> QED BY <1>1, <1>2, <1>3, <1>4, LineageKept, Zenon DEF ReportsInv

\* A report says nothing that the rows it names do not bear out
\* (ShadowMigration and LineageRecovery).
THEOREM ReportsAreSafe == ContextSpec => []ReportsSafe
<1>1. ReportsInv => ReportsSafe
  BY ShadowSays, CorroborationHolds, ChainsHold, Zenon DEF ReportsInv, ReportsSafe
<1> QED BY <1>1, ReportsStart, ReportsKept, PTL DEF ContextSpec
-----------------------------------------------------------------------------
(* Dialogue: the lists of texts                                            *)

NoTwice(s) == \A i, j \in 1..Len(s) : s[i] = s[j] => i = j
TextList == {s \in Seq(UserTexts) : NoTwice(s)}

\* There is room for the texts of S in a list of n.
Fits(S, n) == \E T : IsFiniteSet(T) /\ Cardinality(T) <= n /\ S \subseteq T

LEMMA FitsLess ==
  ASSUME NEW S, NEW R \in SUBSET S, NEW n, Fits(S, n) PROVE Fits(R, n)
BY DEF Fits

LEMMA FewTexts ==
  ASSUME NEW s \in TextList, NEW n \in Nat, Fits(ToSet(s), n) PROVE Len(s) <= n
<1>1. PICK T : IsFiniteSet(T) /\ Cardinality(T) <= n /\ ToSet(s) \subseteq T
  BY DEF Fits
<1>2. s \in Seq(UserTexts) /\ Len(s) \in Nat /\ DOMAIN s = 1..Len(s)
  BY DEF TextList
<1>3. s \in [1..Len(s) -> T]
  BY <1>1, <1>2 DEF ToSet
<1>4. s \in Injection(1..Len(s), T)
  <2>1. \A i, j \in 1..Len(s) : s[i] = s[j] => i = j
    BY DEF TextList, NoTwice
  <2>2. IsInjective(s)
    BY <1>2, <2>1 DEF IsInjective
  <2> QED BY <1>3, <2>2 DEF Injection
<1>5. Cardinality(1..Len(s)) <= Cardinality(T) /\ Cardinality(T) \in Nat
  <2>1. PICK S : S = 1..Len(s)
    OBVIOUS
  <2>2. s \in Injection(S, T)
    BY <1>4, <2>1
  <2>3. Cardinality(S) <= Cardinality(T)
    BY <1>1, <2>2, FS_Injection, Zenon
  <2>4. Cardinality(T) \in Nat
    BY <1>1, FS_CardinalityType
  <2> QED BY <2>1, <2>3, <2>4
<1>6. Cardinality(1..Len(s)) = Len(s)
  <2>1. PICK a, b : a = 1 /\ b = Len(s)
    OBVIOUS
  <2>2. a \in Int /\ b \in Int
    BY <1>2, <2>1
  <2>3. Cardinality(a..b) = IF a > b THEN 0 ELSE b - a + 1
    BY <2>2, FS_Interval
  <2> QED BY <1>2, <2>1, <2>3
<1> QED BY <1>1, <1>2, <1>5, <1>6

LEMMA AppendIs ==
  ASSUME NEW s \in TextList, NEW x \in UserTexts, NEW n \in Nat \ {0}
  PROVE  /\ AppendUnique(s, x, n) \in TextList
         /\ ToSet(AppendUnique(s, x, n)) \subseteq ToSet(s) \cup {x}
         /\ Fits(ToSet(s) \cup {x}, n) => ToSet(AppendUnique(s, x, n)) = ToSet(s) \cup {x}
<1>1. s \in Seq(UserTexts) /\ DOMAIN s = 1..Len(s) /\ Len(s) \in Nat /\ NoTwice(s)
  BY DEF TextList
<1>2. PICK out : out = IF Contains(s, x) THEN s ELSE Append(s, x)
  OBVIOUS
<1>3. out \in TextList /\ ToSet(out) = ToSet(s) \cup {x}
  <2>1. CASE Contains(s, x)
    <3>1. x \in ToSet(s)
      BY <1>1, <2>1 DEF Contains, ToSet
    <3> QED BY <1>2, <2>1, <3>1
  <2>2. CASE ~Contains(s, x)
    <3>1. \A i \in 1..Len(s) : s[i] # x
      BY <1>1, <2>2 DEF Contains
    <3>2. out = Append(s, x)
      BY <1>2, <2>2
    <3>3. out \in Seq(UserTexts) /\ Len(out) = Len(s) + 1 /\ out[Len(s) + 1] = x
          /\ \A i \in 1..Len(s) : out[i] = s[i]
      BY <1>1, <3>2
    <3>4. DOMAIN out = 1..(Len(s) + 1)
      BY <3>3
    <3>5. \A i \in 1..(Len(s) + 1) : i = Len(s) + 1 \/ i \in 1..Len(s)
      BY <1>1
    <3>6. 1..Len(s) \subseteq 1..(Len(s) + 1) /\ Len(s) + 1 \in 1..(Len(s) + 1)
      BY <1>1
    <3>7. ToSet(out) = ToSet(s) \cup {x}
      BY <1>1, <3>3, <3>4, <3>5, <3>6 DEF ToSet
    <3>8. NoTwice(out)
      BY <1>1, <3>1, <3>3, <3>5 DEF NoTwice
    <3> QED BY <3>3, <3>7, <3>8 DEF TextList
  <2> QED BY <2>1, <2>2
<1>4. PICK l : l = Len(out) /\ l \in Nat /\ out \in Seq(UserTexts) /\ DOMAIN out = 1..l /\ NoTwice(out)
  BY <1>3 DEF TextList
<1>5. AppendUnique(s, x, n) = IF l > n THEN SubSeq(out, l - n + 1, l) ELSE out
  BY <1>2, <1>4 DEF AppendUnique
<1>6. CASE l > n
  <2>1. PICK end : end = SubSeq(out, l - n + 1, l)
    OBVIOUS
  <2>2. end \in Seq(UserTexts) /\ Len(end) = n /\ \A i \in 1..n : end[i] = out[i + (l - n)]
    BY <1>4, <1>6, <2>1
  <2>3. \A i \in 1..n : i + (l - n) \in 1..l
    BY <1>4, <1>6
  <2>4. NoTwice(end)
    <3> SUFFICES ASSUME NEW i \in 1..n, NEW j \in 1..n, end[i] = end[j] PROVE i = j
      BY <2>2 DEF NoTwice
    <3>1. PICK a \in 1..l, b \in 1..l : a = i + (l - n) /\ b = j + (l - n)
      BY <2>3
    <3>2. out[a] = out[b]
      BY <2>2, <3>1
    <3>3. a = b
      BY <1>4, <3>2 DEF NoTwice
    <3> QED BY <1>4, <3>1, <3>3
  <2>5. ToSet(end) \subseteq ToSet(out)
    <3> SUFFICES ASSUME NEW i \in DOMAIN end PROVE \E a \in DOMAIN out : out[a] = end[i]
      BY DEF ToSet
    <3>1. i \in 1..n
      BY <2>2
    <3>2. PICK a \in 1..l : a = i + (l - n)
      BY <2>3, <3>1
    <3> QED BY <1>4, <2>2, <3>1, <3>2
  <2>6. ~Fits(ToSet(s) \cup {x}, n)
    <3>1. Fits(ToSet(out), n) => l <= n
      BY <1>3, <1>4, FewTexts
    <3> QED BY <1>3, <1>4, <1>6, <3>1
  <2> QED BY <1>3, <1>5, <1>6, <2>1, <2>2, <2>4, <2>5, <2>6 DEF TextList
<1>7. CASE ~(l > n)
  BY <1>3, <1>5, <1>7
<1> QED BY <1>6, <1>7

LEMMA OnlyTexts ==
  ASSUME NEW s \in TextList, NEW set
  PROVE  Only(s, set) \in TextList /\ ToSet(Only(s, set)) = ToSet(s) \cap set
<1>1. PICK out : out = Only(s, set)
  OBVIOUS
<1>2. s \in Seq(UserTexts) /\ NoTwice(s)
  BY DEF TextList
<1>3. out \in Seq(UserTexts) /\ ToSet(out) = ToSet(s) \cap set
  BY <1>1, <1>2, OnlySet
<1>4. PICK pos : Picks(out, s, set, Len(s), pos)
  BY <1>1, <1>2, OnlyIs
<1>5. /\ pos \in [1..Len(out) -> 1..Len(s)] /\ \A i \in 1..Len(out) : out[i] = s[pos[i]]
      /\ \A i, j \in 1..Len(out) : i < j => pos[i] < pos[j]
  BY <1>4 DEF Picks
<1>6. NoTwice(out)
  <2> SUFFICES ASSUME NEW i \in 1..Len(out), NEW j \in 1..Len(out), out[i] = out[j] PROVE i = j
    BY DEF NoTwice
  <2>1. pos[i] \in 1..Len(s) /\ pos[j] \in 1..Len(s) /\ pos[i] = pos[j]
    BY <1>2, <1>5 DEF NoTwice
  <2>2. ~(i < j) /\ ~(j < i)
    BY <1>5, <2>1
  <2> QED BY <1>3, <2>2
<1> QED BY <1>1, <1>3, <1>6 DEF TextList

\* All of t with s.
LEMMA AllAppendedIs ==
  ASSUME NEW s \in TextList, NEW t \in TextList
  PROVE  /\ AllAppended(s, t) \in TextList /\ ToSet(AllAppended(s, t)) \subseteq ToSet(s) \cup ToSet(t)
         /\ Fits(ToSet(s) \cup ToSet(t), MaxItems) => ToSet(AllAppended(s, t)) = ToSet(s) \cup ToSet(t)
<1> DEFINE n == Len(t)
           T == TextList
           Add(a, x) == AppendUnique(a, x, MaxItems)
           G == [k \in 1..n |-> [a \in T |-> Add(a, t[k])]]
           P(iter) == iter = [v \in SUBSET (1..n) |->
                                IF v = {} THEN s ELSE Add(iter[v \ {Max(v)}], t[Max(v)])]
           f == CHOOSE iter : P(iter)
<1>0. t \in Seq(UserTexts) /\ MaxItems \in Nat \ {0}
  BY DialogueAssumption DEF TextList
<1>1. n \in Nat /\ 1..n \in SUBSET (0..n) /\ DOMAIN t = 1..n /\ s \in T
  BY <1>0
<1>2. AllAppended(s, t) = f[1..n]
  BY <1>1, Zenon DEF AllAppended, FoldLeft, MapThenFoldSet
<1>3. \A k \in 1..n : t[k] \in UserTexts
  BY <1>0
<1>3a. ASSUME NEW a \in T, NEW x \in UserTexts
       PROVE  /\ Add(a, x) \in T /\ ToSet(Add(a, x)) \subseteq ToSet(a) \cup {x}
              /\ Fits(ToSet(a) \cup {x}, MaxItems) => ToSet(Add(a, x)) = ToSet(a) \cup {x}
  BY <1>0, AppendIs
<1> HIDE DEF Add
<1>4. \A k \in 1..n, a \in T : Add(a, t[k]) \in T
  BY <1>3, <1>3a
<1>5. G \in [1..n -> [T -> T]]
  <2> HIDE DEF T
  <2> QED BY <1>4
<1>6. ASSUME NEW v \in SUBSET (1..n), v # {}, NEW a \in T
      PROVE  G[Max(v)][a] = Add(a, t[Max(v)])
  <2>1. Max(v) \in 1..n
    BY <1>1, <1>6, MaxIs
  <2> HIDE DEF T
  <2> QED BY <2>1
<1>7. \E iter : P(iter)
  <2>1. PICK iter \in [SUBSET (1..n) -> T] : FoldRule(1..n, s, G, iter)
    <3> HIDE DEF G, n, T
    <3> QED BY <1>1, <1>5, FoldExists, Zenon
  <2>2. \A v \in SUBSET (1..n) : iter[v \ {Max(v)}] \in T
    OBVIOUS
  <2>3. P(iter)
    <3> HIDE DEF G, T
    <3> QED BY <1>6, <2>1, <2>2 DEF FoldRule
  <2> QED BY <2>3
<1>8. P(f)
  BY <1>7, Zenon
<1> HIDE DEF f
<1>9. Folds(f, n, T, s, G)
  <2> HIDE DEF G, T
  <2> QED BY <1>6, <1>8 DEF Folds
<1>10. PICK h \in [0..n -> T] : Walks(h, n, s, G) /\ h[n] = f[1..n]
  <2>1. Walked(f, n, T, s, G)
    <3> HIDE DEF G, T, n
    <3> QED BY <1>1, <1>5, <1>9, FoldWalk, Zenon
  <2> QED BY <2>1, Zenon DEF Walked
<1>11. h[0] = s /\ \A k \in 1..n : h[k] = Add(h[k - 1], t[k]) /\ h[k - 1] \in T
  <2>1. h[0] = s /\ \A k \in 1..n : h[k] = G[k][h[k - 1]]
    BY <1>10, Zenon DEF Walks
  <2>2. \A k \in 1..n : h[k - 1] \in T
    <3>1. \A k \in 1..n : k - 1 \in 0..n
      BY <1>1
    <3> HIDE DEF T, G, n
    <3> QED BY <1>10, <3>1
  <2>3. \A k \in 1..n : \A a \in T : G[k][a] = Add(a, t[k])
    <3> HIDE DEF T
    <3> QED OBVIOUS
  <2> HIDE DEF T, G
  <2> QED BY <2>1, <2>2, <2>3, Zenon
<1> DEFINE Upto(k) == ToSet(s) \cup {t[i] : i \in 1..k}
           A == {k \in 0..n : /\ ToSet(h[k]) \subseteq Upto(k)
                              /\ Fits(Upto(n), MaxItems) => ToSet(h[k]) = Upto(k)}
<1>12. 0 \in A
  BY <1>1, <1>11
<1>13. ASSUME NEW k \in 1..n, k - 1 \in A PROVE k \in A
  <2>1. PICK before : before = h[k - 1]
    OBVIOUS
  <2>2. before \in T /\ t[k] \in UserTexts /\ h[k] = Add(before, t[k])
    BY <1>3, <1>11, <2>1
  <2>3. /\ ToSet(h[k]) \subseteq ToSet(before) \cup {t[k]}
        /\ Fits(ToSet(before) \cup {t[k]}, MaxItems) => ToSet(h[k]) = ToSet(before) \cup {t[k]}
    <3> HIDE DEF T
    <3> QED BY <2>2, <1>3a
  <2>4. Upto(k) = Upto(k - 1) \cup {t[k]} /\ Upto(k) \subseteq Upto(n)
    <3>1. 1..k = 1..(k - 1) \cup {k} /\ 1..k \subseteq 1..n
      BY <1>1
    <3> QED BY <3>1
  <2>5. /\ k \in 0..n /\ ToSet(before) \subseteq Upto(k - 1)
        /\ Fits(Upto(n), MaxItems) => ToSet(before) = Upto(k - 1)
    BY <1>13, <2>1
  <2> HIDE DEF Upto
  <2>6. Fits(Upto(n), MaxItems) => Fits(ToSet(before) \cup {t[k]}, MaxItems)
    <3>1. ToSet(before) \cup {t[k]} \in SUBSET Upto(n)
      BY <2>4, <2>5
    <3> QED BY <3>1, FitsLess
  <2> QED BY <2>3, <2>4, <2>5, <2>6
<1>14. \A k \in 0..n : k \in A
  <2> HIDE DEF A
  <2> QED BY <1>1, <1>12, <1>13, RangeInduction
<1>15. n \in A
  <2>1. n \in 0..n
    BY <1>1
  <2> HIDE DEF A
  <2> QED BY <1>14, <2>1
<1>16. Upto(n) = ToSet(s) \cup ToSet(t)
  BY <1>1 DEF ToSet
<1>17. h[n] \in T /\ AllAppended(s, t) = h[n]
  <2>1. n \in 0..n
    BY <1>1
  <2> HIDE DEF T
  <2> QED BY <1>2, <1>10, <2>1
<1> HIDE DEF Upto
<1> QED BY <1>15, <1>16, <1>17

-----------------------------------------------------------------------------
(* Dialogue: the active state                                              *)

Known == UserTexts \cup {"none"}
ActiveState == [task : Known, goal : Known, threads : TextList]

LEMMA UpdateIs ==
  ASSUME NEW ads \in ActiveState, NEW t \in Dialogue
  PROVE  /\ UpdateDialogue(ads, t) \in ActiveState
         /\ UpdateDialogue(ads, t).task = IF ads.task # "none" /\ t.user \in {"go", "aside"} THEN ads.task ELSE t.user
<1>1. /\ t.user \in UserTexts /\ t.user \in Known /\ ads.threads \in TextList
      /\ ads.task \in Known /\ ads.goal \in Known
  BY DEF ActiveState, Dialogue, Known
<1>2. PICK more : more = AppendUnique(ads.threads, t.user, MaxThreads)
  OBVIOUS
<1>3. more \in TextList
  BY <1>1, <1>2, AppendIs, DialogueAssumption
<1>4. CASE ads.task # "none" /\ t.user = "go"
  BY <1>4 DEF UpdateDialogue
<1>5. CASE ads.task # "none" /\ t.user = "aside"
  <2>1. UpdateDialogue(ads, t) = [ads EXCEPT !.threads = more]
    BY <1>2, <1>5 DEF UpdateDialogue
  <2> QED BY <1>3, <1>5, <2>1 DEF ActiveState
<1>6. CASE ~(ads.task # "none" /\ t.user \in {"go", "aside"})
  <2>1. PICK goal : goal = (IF ads.goal = "none" THEN t.user ELSE ads.goal)
    OBVIOUS
  <2>2. UpdateDialogue(ads, t) = [task |-> t.user, goal |-> goal, threads |-> more]
    BY <1>2, <1>6, <2>1 DEF UpdateDialogue
  <2>3. goal \in Known
    BY <1>1, <2>1
  <2> QED BY <1>1, <1>3, <1>6, <2>2, <2>3 DEF ActiveState
<1> QED BY <1>4, <1>5, <1>6

UpdateRule(h, ts) ==
  /\ h[0] = NewDialogue /\ UpdateFromTurns(ts) = h[Len(ts)]
  /\ \A k \in 1..Len(ts) : h[k] = UpdateDialogue(h[k - 1], ts[k])

LEMMA UpdateSteps ==
  ASSUME NEW ts \in Seq(Dialogue)
  PROVE  \E h \in [0..Len(ts) -> ActiveState] : UpdateRule(h, ts)
<1> DEFINE n == Len(ts)
           T == ActiveState
           G == [k \in 1..n |-> [a \in T |-> UpdateDialogue(a, ts[k])]]
           P(iter) == iter = [v \in SUBSET (1..n) |->
                                IF v = {} THEN NewDialogue ELSE UpdateDialogue(iter[v \ {Max(v)}], ts[Max(v)])]
           f == CHOOSE iter : P(iter)
<1>1. n \in Nat /\ 1..n \in SUBSET (0..n) /\ DOMAIN ts = 1..n /\ NewDialogue \in T
  BY DEF NewDialogue, ActiveState, Known, TextList, NoTwice
<1>2. UpdateFromTurns(ts) = f[1..n]
  BY <1>1, Zenon DEF UpdateFromTurns, FoldLeft, MapThenFoldSet
<1>3. \A k \in 1..n : ts[k] \in Dialogue
  OBVIOUS
<1>4. \A k \in 1..n, a \in T : UpdateDialogue(a, ts[k]) \in T
  BY <1>3, UpdateIs
<1>5. G \in [1..n -> [T -> T]]
  <2> HIDE DEF T
  <2> QED BY <1>4
<1>6. ASSUME NEW v \in SUBSET (1..n), v # {}, NEW a \in T
      PROVE  G[Max(v)][a] = UpdateDialogue(a, ts[Max(v)])
  <2>1. Max(v) \in 1..n
    BY <1>1, <1>6, MaxIs
  <2> HIDE DEF T
  <2> QED BY <2>1
<1>7. \E iter : P(iter)
  <2>1. PICK iter \in [SUBSET (1..n) -> T] : FoldRule(1..n, NewDialogue, G, iter)
    <3> HIDE DEF G, n, T
    <3> QED BY <1>1, <1>5, FoldExists, Zenon
  <2>2. \A v \in SUBSET (1..n) : iter[v \ {Max(v)}] \in T
    OBVIOUS
  <2>3. P(iter)
    <3> HIDE DEF G, T
    <3> QED BY <1>6, <2>1, <2>2 DEF FoldRule
  <2> QED BY <2>3
<1>8. P(f)
  BY <1>7, Zenon
<1> HIDE DEF f
<1>9. Folds(f, n, T, NewDialogue, G)
  <2> HIDE DEF G, T
  <2> QED BY <1>6, <1>8 DEF Folds
<1>10. PICK h \in [0..n -> T] : Walks(h, n, NewDialogue, G) /\ h[n] = f[1..n]
  <2>1. Walked(f, n, T, NewDialogue, G)
    <3> HIDE DEF G, T, n
    <3> QED BY <1>1, <1>5, <1>9, FoldWalk, Zenon
  <2> QED BY <2>1, Zenon DEF Walked
<1>11. UpdateRule(h, ts)
  BY <1>1, <1>2, <1>10 DEF Walks, UpdateRule
<1> QED BY <1>10, <1>11

\* Turn i names a task.
Names(i) == said[i].user \notin {"go", "aside"} \/ i = 1

\* The task is that of turn m, which is the latest of the first k that names one.
TaskOf(ads, k) ==
  \E m \in 1..k : Names(m) /\ (\A j \in 1..k : Names(j) => j <= m) /\ ads.task = said[m].user

LEMMA TaskIsNamed == said \in Seq(Dialogue) => TaskIsTheLatestNamed
<1> SUFFICES ASSUME said \in Seq(Dialogue), said # <<>> PROVE TaskIsTheLatestNamed
  BY DEF TaskIsTheLatestNamed
<1> DEFINE n == Len(said)
<1>1. n \in Nat \ {0} /\ \A k \in 1..n : said[k] \in Dialogue
  OBVIOUS
<1>2. \A k \in 1..n : said[k].user \in UserTexts /\ said[k].user # "none"
  BY <1>1, DialogueAssumption DEF Dialogue, UserTexts, Cancels
<1>3. PICK h \in [0..n -> ActiveState] : UpdateRule(h, said)
  BY UpdateSteps, Zenon
<1>4. h[0] = NewDialogue /\ UpdateFromTurns(said) = h[n] /\ \A k \in 1..n : h[k] = UpdateDialogue(h[k - 1], said[k])
  BY <1>3 DEF UpdateRule
<1> HIDE DEF n
<1> DEFINE A == {k \in 0..n : k = 0 \/ TaskOf(h[k], k)}
<1>5. ASSUME NEW k \in 1..n, k - 1 \in A PROVE k \in A
  <2>1. k \in Nat /\ k \in 0..n /\ k - 1 \in 0..n /\ (k = 1 \/ TaskOf(h[k - 1], k - 1))
    BY <1>1, <1>5
  <2>2. h[k].task = IF h[k - 1].task # "none" /\ said[k].user \in {"go", "aside"} THEN h[k - 1].task ELSE said[k].user
    <3>1. PICK before : before = h[k - 1]
      OBVIOUS
    <3>2. before \in ActiveState /\ said[k] \in Dialogue /\ h[k] = UpdateDialogue(before, said[k])
      BY <1>1, <1>3, <1>4, <2>1, <3>1
    <3>3. h[k].task = IF before.task # "none" /\ said[k].user \in {"go", "aside"} THEN before.task ELSE said[k].user
      BY <3>2, UpdateIs, Zenon
    <3> QED BY <3>1, <3>3
  <2>3. CASE k = 1
    <3>1. h[1].task = said[1].user
      BY <1>4, <2>2, <2>3 DEF NewDialogue
    <3>2. Names(1) /\ 1 \in 1..1 /\ \A j \in 1..1 : j <= 1
      BY DEF Names
    <3>3. TaskOf(h[k], k)
      BY <2>3, <3>1, <3>2 DEF TaskOf
    <3> QED BY <2>1, <3>3
  <2>4. CASE k # 1
    <3>1. PICK m \in 1..(k - 1) : Names(m) /\ (\A j \in 1..(k - 1) : Names(j) => j <= m) /\ h[k - 1].task = said[m].user
      BY <2>1, <2>4 DEF TaskOf
    <3>2. m \in 1..n /\ m \in 1..k /\ h[k - 1].task # "none" /\ k \in 1..k
      BY <1>1, <1>2, <2>1, <3>1
    <3>3. \A j \in 1..k : j = k \/ j \in 1..(k - 1)
      BY <2>1
    <3>4. CASE said[k].user \in {"go", "aside"}
      <4>1. ~Names(k) /\ h[k].task = said[m].user
        BY <2>2, <2>4, <3>1, <3>2, <3>4 DEF Names
      <4>2. \A j \in 1..k : Names(j) => j <= m
        BY <3>1, <3>3, <4>1
      <4>3. TaskOf(h[k], k)
        BY <3>1, <3>2, <4>1, <4>2 DEF TaskOf
      <4> QED BY <2>1, <4>3
    <3>5. CASE said[k].user \notin {"go", "aside"}
      <4>1. Names(k) /\ h[k].task = said[k].user
        BY <2>2, <3>5 DEF Names
      <4>2. \A j \in 1..k : j <= k
        OBVIOUS
      <4>3. TaskOf(h[k], k)
        BY <3>2, <4>1, <4>2 DEF TaskOf
      <4> QED BY <2>1, <4>3
    <3> QED BY <3>4, <3>5
  <2> QED BY <2>3, <2>4
<1>6. \A k \in 0..n : k \in A
  <2>1. 0 \in A
    BY <1>1
  <2> HIDE DEF A
  <2> QED BY <1>1, <1>5, <2>1, RangeInduction
<1>7. TaskOf(h[n], n)
  <2>1. n \in 0..n /\ n # 0
    BY <1>1
  <2> QED BY <1>6, <2>1
<1>8. PICK m \in 1..n : Names(m) /\ (\A j \in 1..n : Names(j) => j <= m) /\ h[n].task = said[m].user
  BY <1>7 DEF TaskOf
<1> DEFINE names(i) == said[i].user \notin {"go", "aside"} \/ \A j \in 1..(i - 1) : FALSE
           named == {i \in 1..n : names(i)}
           latest == CHOOSE i \in named : \A j \in named : j <= i
<1>9. \A i \in 1..n : names(i) <=> Names(i)
  <2> SUFFICES ASSUME NEW i \in 1..n PROVE (\A j \in 1..(i - 1) : FALSE) <=> i = 1
    BY DEF Names
  <2>1. i # 1 => 1 \in 1..(i - 1)
    BY <1>1
  <2>2. i = 1 => 1..(i - 1) = {}
    OBVIOUS
  <2> QED BY <2>1, <2>2
<1>10. m \in named /\ \A j \in named : j <= m
  BY <1>8, <1>9
<1>11. named \subseteq 1..n
  OBVIOUS
<1> HIDE DEF named
<1>12. latest \in named /\ \A j \in named : j <= latest
  BY <1>10
<1>13. latest = m
  <2> HIDE DEF latest
  <2> QED BY <1>1, <1>10, <1>11, <1>12
<1>14. UpdateFromTurns(said).task = said[latest].user
  BY <1>4, <1>8, <1>13
<1> QED BY <1>14, Zenon DEF TaskIsTheLatestNamed, named, n
-----------------------------------------------------------------------------
(* Dialogue: the segments                                                  *)

Piece == Nat \X Nat

\* Pieces that lie side by side from 1 to end.
Tiles(out, end) ==
  /\ out \in Seq(Piece) /\ end \in Nat
  /\ out = <<>> <=> end = 0
  /\ out # <<>> => out[1][1] = 1 /\ out[Len(out)][2] = end
  /\ \A k \in 1..Len(out) : 1 <= out[k][1] /\ out[k][1] <= out[k][2] /\ out[k][2] <= end
  /\ \A k \in 1..(Len(out) - 1) : out[k + 1][1] = out[k][2] + 1

LEMMA TileAdded ==
  ASSUME NEW out, NEW end, Tiles(out, end), NEW start, start = end + 1, NEW b \in Nat, start <= b,
         NEW new, new = Append(out, <<start, b>>)
  PROVE  Tiles(new, b)
<1> DEFINE n == Len(out)
<1>1. /\ out \in Seq(Piece) /\ n \in Nat /\ end \in Nat /\ start \in Nat
      /\ out = <<>> <=> end = 0
      /\ out # <<>> => out[1][1] = 1 /\ out[n][2] = end
      /\ \A k \in 1..n : 1 <= out[k][1] /\ out[k][1] <= out[k][2] /\ out[k][2] <= end
      /\ \A k \in 1..(n - 1) : out[k + 1][1] = out[k][2] + 1
  BY DEF Tiles
<1>2. PICK last : last = <<start, b>>
  OBVIOUS
<1>3. last \in Piece /\ last[1] = start /\ last[2] = b
  BY <1>1, <1>2 DEF Piece
<1>4. new \in Seq(Piece) /\ Len(new) = n + 1 /\ new[n + 1] = last /\ \A k \in 1..n : new[k] = out[k]
  BY <1>1, <1>2, <1>3
<1>5. n = 0 <=> out = <<>>
  BY <1>1
<1> HIDE DEF n
<1>6. new # <<>> /\ b # 0
  BY <1>1, <1>4
<1>7. new[1][1] = 1 /\ new[n + 1][2] = b
  <2>1. CASE n = 0
    BY <2>1, <1>1, <1>3, <1>4, <1>5
  <2>2. CASE n # 0
    <3>1. 1 \in 1..n
      BY <2>2, <1>1
    <3> QED BY <2>2, <3>1, <1>1, <1>3, <1>4, <1>5
  <2> QED BY <2>1, <2>2
<1>8. \A k \in 1..n : out[k][1] \in Nat /\ out[k][2] \in Nat
  <2>1. \A k \in 1..n : out[k] \in Piece
    BY <1>1 DEF n
  <2> QED BY <2>1 DEF Piece
<1>9. \A k \in 1..(n + 1) : 1 <= new[k][1] /\ new[k][1] <= new[k][2] /\ new[k][2] <= b
  <2> SUFFICES ASSUME NEW k \in 1..(n + 1) PROVE 1 <= new[k][1] /\ new[k][1] <= new[k][2] /\ new[k][2] <= b
    OBVIOUS
  <2>1. CASE k = n + 1
    BY <2>1, <1>1, <1>3, <1>4
  <2>2. CASE k # n + 1
    <3>1. k \in 1..n
      BY <2>2, <1>1
    <3> QED BY <3>1, <1>1, <1>4, <1>8
  <2> QED BY <2>1, <2>2
<1>10. \A k \in 1..n : new[k + 1][1] = new[k][2] + 1
  <2> SUFFICES ASSUME NEW k \in 1..n PROVE new[k + 1][1] = new[k][2] + 1
    OBVIOUS
  <2>1. CASE k = n
    <3>1. out # <<>>
      BY <2>1, <1>1, <1>5
    <3> QED BY <2>1, <3>1, <1>1, <1>3, <1>4
  <2>2. CASE k # n
    <3>1. k \in 1..(n - 1) /\ k + 1 \in 1..n
      BY <2>2, <1>1
    <3> QED BY <3>1, <1>1, <1>4
  <2> QED BY <2>1, <2>2
<1>11. (n + 1) - 1 = n
  BY <1>1
<1> QED BY <1>4, <1>6, <1>7, <1>9, <1>10, <1>11 DEF Tiles

\* Each position from the beginning of piece k on is in a piece from k on.
LEMMA TileAt ==
  ASSUME NEW out, NEW end, Tiles(out, end), NEW k \in 1..Len(out), NEW i \in Nat, out[k][1] <= i, i <= end
  PROVE  \E m \in k..Len(out) : out[m][1] <= i /\ i <= out[m][2]
<1> DEFINE n == Len(out)
           below == {m \in k..n : out[m][1] <= i}
<1>1. /\ out \in Seq(Piece) /\ n \in Nat /\ end \in Nat /\ out # <<>>
      /\ out[n][2] = end
      /\ \A m \in 1..(n - 1) : out[m + 1][1] = out[m][2] + 1
  <2>1. out \in Seq(Piece) /\ end \in Nat
    BY DEF Tiles
  <2>2. n \in Nat /\ out # <<>>
    BY <2>1
  <2> QED BY <2>1, <2>2, Zenon DEF Tiles
<1>2. \A m \in 1..n : out[m][1] \in Nat /\ out[m][2] \in Nat
  <2>1. \A m \in 1..n : out[m] \in Piece
    BY <1>1
  <2> QED BY <2>1 DEF Piece
<1> HIDE DEF n
<1>3. k \in 1..n /\ k \in below /\ below \in SUBSET (0..n) /\ below # {}
  BY <1>1 DEF n
<1>4. Max(below) \in below /\ \A y \in below : y <= Max(below)
  <2> HIDE DEF below
  <2> QED BY <1>1, <1>3, MaxIs
<1>5. PICK m \in below : \A y \in below : y <= m
  BY <1>4
<1>6. i <= out[m][2]
  <2>1. CASE m = n
    BY <2>1, <1>1
  <2>2. CASE m # n
    <3>1. m \in 1..(n - 1) /\ m + 1 \in k..n /\ m + 1 \in 1..n /\ ~(m + 1 <= m) /\ m \in 1..n
      BY <2>2, <1>1, <1>3
    <3>2. ~(out[m + 1][1] <= i)
      BY <1>5, <3>1
    <3>3. out[m + 1][1] = out[m][2] + 1 /\ out[m][2] \in Nat
      BY <1>1, <1>2, <3>1
    <3> QED BY <3>2, <3>3
  <2> QED BY <2>1, <2>2
<1> QED BY <1>5, <1>6 DEF n

Cutting == [start : Nat, out : Seq(Piece)]
FirstCut == [start |-> 1, out |-> <<>>]
CutStep(ts, acc, i) ==
  IF i + 1 - acc.start >= SegmentSize \/ (i > acc.start /\ EventBoundary(ts[i]))
    THEN [start |-> i + 1, out |-> Append(acc.out, <<acc.start, i>>)]
    ELSE acc

LEMMA CutStepTyped ==
  ASSUME NEW ts, NEW acc \in Cutting, NEW i \in Nat
  PROVE  CutStep(ts, acc, i) \in Cutting
<1>1. acc.start \in Nat /\ acc.out \in Seq(Piece)
  BY DEF Cutting
<1>2. PICK last : last = <<acc.start, i>>
  OBVIOUS
<1>3. last \in Piece
  BY <1>1, <1>2 DEF Piece
<1>4. PICK new : new = [start |-> i + 1, out |-> Append(acc.out, last)]
  OBVIOUS
<1>5. new \in Cutting
  BY <1>1, <1>3, <1>4 DEF Cutting
<1> QED BY <1>2, <1>4, <1>5 DEF CutStep

SegmentsRule(h, ts) ==
  /\ h[0] = FirstCut
  /\ Segments(ts) = IF h[Len(ts)].start <= Len(ts)
                      THEN Append(h[Len(ts)].out, <<h[Len(ts)].start, Len(ts)>>) ELSE h[Len(ts)].out
  /\ \A k \in 1..Len(ts) : h[k] = CutStep(ts, h[k - 1], k)

LEMMA SegmentsSteps ==
  ASSUME NEW ts \in Seq(Dialogue)
  PROVE  \E h \in [0..Len(ts) -> Cutting] : SegmentsRule(h, ts)
<1> DEFINE n == Len(ts)
           T == Cutting
           num == [i \in 1..Len(ts) |-> i]
           G == [k \in 1..n |-> [a \in T |-> CutStep(ts, a, num[k])]]
           P(iter) == iter = [v \in SUBSET (1..n) |->
                                IF v = {} THEN FirstCut ELSE CutStep(ts, iter[v \ {Max(v)}], num[Max(v)])]
           f == CHOOSE iter : P(iter)
<1>1. n \in Nat /\ 1..n \in SUBSET (0..n) /\ DOMAIN num = 1..n /\ FirstCut \in T
  BY DEF FirstCut, Cutting
<1>2. Segments(ts) = IF f[1..n].start <= n THEN Append(f[1..n].out, <<f[1..n].start, n>>) ELSE f[1..n].out
  <2> DEFINE step(acc, i) == CutStep(ts, acc, i)
             cut == FoldLeft(step, FirstCut, num)
  <2>1. cut = f[1..n]
    <3> HIDE DEF num
    <3> QED BY <1>1, Zenon DEF FoldLeft, MapThenFoldSet
  <2>2. Segments(ts) = IF cut.start <= n THEN Append(cut.out, <<cut.start, n>>) ELSE cut.out
    BY Zenon DEF Segments, CutStep, FirstCut
  <2> HIDE DEF cut, f
  <2> QED BY <2>1, <2>2, Zenon
<1>3. \A k \in 1..n : num[k] = k /\ k \in Nat
  OBVIOUS
<1>4. \A k \in 1..n, a \in T : CutStep(ts, a, num[k]) \in T
  BY <1>3, CutStepTyped
<1> HIDE DEF num
<1>5. G \in [1..n -> [T -> T]]
  <2> HIDE DEF T
  <2> QED BY <1>4
<1>6. ASSUME NEW v \in SUBSET (1..n), v # {}, NEW a \in T
      PROVE  G[Max(v)][a] = CutStep(ts, a, num[Max(v)])
  <2>1. Max(v) \in 1..n
    BY <1>1, <1>6, MaxIs
  <2> HIDE DEF T
  <2> QED BY <2>1
<1>7. \E iter : P(iter)
  <2>1. PICK iter \in [SUBSET (1..n) -> T] : FoldRule(1..n, FirstCut, G, iter)
    <3> HIDE DEF G, n, T
    <3> QED BY <1>1, <1>5, FoldExists, Zenon
  <2>2. \A v \in SUBSET (1..n) : iter[v \ {Max(v)}] \in T
    OBVIOUS
  <2>3. P(iter)
    <3> HIDE DEF G, T
    <3> QED BY <1>6, <2>1, <2>2 DEF FoldRule
  <2> QED BY <2>3
<1>8. P(f)
  BY <1>7, Zenon
<1> HIDE DEF f
<1>9. Folds(f, n, T, FirstCut, G)
  <2> HIDE DEF G, T
  <2> QED BY <1>6, <1>8 DEF Folds
<1>10. PICK h \in [0..n -> T] : Walks(h, n, FirstCut, G) /\ h[n] = f[1..n]
  <2>1. Walked(f, n, T, FirstCut, G)
    <3> HIDE DEF G, T, n
    <3> QED BY <1>1, <1>5, <1>9, FoldWalk, Zenon
  <2> QED BY <2>1, Zenon DEF Walked
<1>11. \A k \in 1..n : h[k] = CutStep(ts, h[k - 1], k)
  <2>1. \A k \in 1..n : h[k] = G[k][h[k - 1]]
    BY <1>10, Zenon DEF Walks
  <2>2. \A k \in 1..n : h[k - 1] \in T
    <3>1. \A k \in 1..n : k - 1 \in 0..n
      BY <1>1
    <3> HIDE DEF T, G, n
    <3> QED BY <1>10, <3>1
  <2>3. \A k \in 1..n : \A a \in T : G[k][a] = CutStep(ts, a, k)
    <3> HIDE DEF T
    <3> QED BY <1>3
  <2> HIDE DEF T, G
  <2> QED BY <2>1, <2>2, <2>3, Zenon
<1>12. SegmentsRule(h, ts)
  BY <1>2, <1>10, <1>11 DEF Walks, SegmentsRule
<1> QED BY <1>10, <1>12

LEMMA SegmentsTile ==
  ASSUME NEW ts \in Seq(Dialogue)
  PROVE  Tiles(Segments(ts), Len(ts))
<1> DEFINE n == Len(ts)
<1>1. n \in Nat
  OBVIOUS
<1>2. PICK h \in [0..n -> Cutting] : SegmentsRule(h, ts)
  BY SegmentsSteps, Zenon
<1>3. /\ h[0] = FirstCut
      /\ Segments(ts) = IF h[n].start <= n THEN Append(h[n].out, <<h[n].start, n>>) ELSE h[n].out
      /\ \A k \in 1..n : h[k] = CutStep(ts, h[k - 1], k)
  BY <1>2 DEF SegmentsRule
<1> HIDE DEF n
<1> DEFINE A == {k \in 0..n : \E e \in Nat : h[k].start = e + 1 /\ e <= k /\ Tiles(h[k].out, e)}
<1>4. 0 \in A
  <2>1. Tiles(<<>>, 0)
    BY DEF Tiles
  <2> QED BY <1>1, <1>3, <2>1 DEF FirstCut
<1>5. ASSUME NEW k \in 1..n, k - 1 \in A PROVE k \in A
  <2>1. PICK e \in Nat : h[k - 1].start = e + 1 /\ e <= k - 1 /\ Tiles(h[k - 1].out, e)
    BY <1>5
  <2>2. k \in Nat /\ k \in 0..n /\ e <= k
    BY <1>1, <2>1
  <2>3. h[k] = CutStep(ts, h[k - 1], k)
    BY <1>3
  <2>4. PICK new : new = Append(h[k - 1].out, <<h[k - 1].start, k>>)
    OBVIOUS
  <2>5. h[k] = h[k - 1] \/ h[k] = [start |-> k + 1, out |-> new]
    BY <2>3, <2>4 DEF CutStep
  <2>6. CASE h[k] = h[k - 1]
    BY <2>1, <2>2, <2>6
  <2>7. CASE h[k] = [start |-> k + 1, out |-> new]
    <3>1. Tiles(new, k)
      <4>1. h[k - 1].start <= k
        BY <2>1, <2>2
      <4>2. PICK out, start : out = h[k - 1].out /\ start = h[k - 1].start
        OBVIOUS
      <4> QED BY <2>1, <2>2, <2>4, <4>1, <4>2, TileAdded
    <3>2. h[k].start = k + 1 /\ k <= k /\ h[k].out = new
      BY <2>2, <2>7
    <3> QED BY <2>2, <3>1, <3>2
  <2> QED BY <2>5, <2>6, <2>7
<1>6. \A k \in 0..n : k \in A
  <2> HIDE DEF A
  <2> QED BY <1>1, <1>4, <1>5, RangeInduction
<1>7. PICK e \in Nat : h[n].start = e + 1 /\ e <= n /\ Tiles(h[n].out, e)
  <2>1. n \in 0..n
    BY <1>1
  <2> QED BY <1>6, <2>1
<1>8. PICK out, start : out = h[n].out /\ start = h[n].start
  OBVIOUS
<1>9. PICK new : new = Append(out, <<start, n>>)
  OBVIOUS
<1>10. CASE start <= n
  <2>1. Tiles(new, n)
    BY <1>1, <1>7, <1>8, <1>9, <1>10, TileAdded
  <2> QED BY <1>3, <1>8, <1>9, <1>10, <2>1 DEF n
<1>11. CASE ~(start <= n)
  <2>1. e = n
    BY <1>1, <1>7, <1>8, <1>11
  <2> QED BY <1>3, <1>7, <1>8, <1>11, <2>1 DEF n
<1> QED BY <1>10, <1>11

-----------------------------------------------------------------------------
(* Dialogue: the summaries and the chain                                   *)

Summary == [task : Known, open : TextList, done : TextList, paused : TextList, revoked : TextList]
Threads == [open : TextList, done : TextList, paused : TextList, revoked : TextList]

Closed(s) == ToSet(s.done) \cup ToSet(s.paused) \cup ToSet(s.revoked)
Noted(s) == ToSet(s.open) \cup Closed(s)

\* There is room for the texts of S in every list.
FitsAll(S) == Fits(S, MaxItems) /\ Fits(S, MaxClosed)

LEMMA MinusIs ==
  ASSUME NEW s \in TextList, NEW x
  PROVE  Minus(s, x) \in TextList /\ ToSet(Minus(s, x)) = ToSet(s) \ {x}
<1>1. Minus(s, x) \in TextList /\ ToSet(Minus(s, x)) = ToSet(s) \cap (ToSet(s) \ {x})
  BY OnlyTexts, Zenon DEF Minus
<1> QED BY <1>1

\* A list to which a text may be added.
LEMMA MaybeAdded ==
  ASSUME NEW s \in TextList, NEW x \in UserTexts, NEW n \in Nat \ {0},
         NEW out, out = AppendUnique(s, x, n) \/ out = s
  PROVE  /\ out \in TextList /\ ToSet(out) \subseteq ToSet(s) \cup {x}
         /\ Fits(ToSet(s) \cup {x}, n) =>
              ToSet(s) \subseteq ToSet(out) /\ (out = AppendUnique(s, x, n) => x \in ToSet(out))
BY AppendIs

\* A turn brings in its own text and the task it revokes.
Brought(acc, t) == Noted(acc) \cup {t.user} \cup ({acc.task} \ {"none"})

LEMMA SummaryStepIs ==
  ASSUME NEW acc \in Summary, NEW t \in Dialogue
  PROVE  /\ SummaryStep(acc, t) \in Summary /\ SummaryStep(acc, t).task = t.user
         /\ Noted(SummaryStep(acc, t)) \subseteq Brought(acc, t)
         /\ FitsAll(Brought(acc, t)) => Noted(acc) \cup {t.user} \subseteq Noted(SummaryStep(acc, t))
<1> DEFINE victim == IF t.user \in Cancels /\ acc.task # "none" THEN acc.task ELSE t.user
           open == AppendUnique(acc.open, t.user, MaxItems)
           afterDone == IF t.says = "done" THEN Minus(open, t.user) ELSE open
           revokes == t.user \in Cancels \/ t.says = "revoke"
           left == IF revokes THEN Minus(afterDone, victim) ELSE afterDone
           done == IF t.says = "done" THEN AppendUnique(acc.done, t.user, MaxClosed) ELSE acc.done
           paused == IF t.says = "pause" THEN AppendUnique(acc.paused, t.user, MaxClosed) ELSE acc.paused
           revoked == IF revokes THEN AppendUnique(acc.revoked, victim, MaxClosed) ELSE acc.revoked
<1>1. /\ t.user \in UserTexts /\ t.user \in Known /\ acc.task \in Known
      /\ acc.open \in TextList /\ acc.done \in TextList /\ acc.paused \in TextList /\ acc.revoked \in TextList
  BY DEF Summary, Dialogue, Known
<1>2. victim \in UserTexts /\ victim \in Brought(acc, t) /\ t.user \in Brought(acc, t)
  <2>1. t.user # "none"
    BY <1>1, DialogueAssumption DEF UserTexts, Cancels
  <2> QED BY <1>1, <2>1 DEF Known, Brought
<1>3. SummaryStep(acc, t) = [task |-> t.user, open |-> left, done |-> done, paused |-> paused, revoked |-> revoked]
  BY DEF SummaryStep
<1>3a. MaxItems \in Nat \ {0} /\ MaxClosed \in Nat \ {0}
  BY DialogueAssumption
<1>3b. /\ ToSet(acc.open) \cup {t.user} \subseteq Brought(acc, t)
       /\ ToSet(acc.done) \cup {t.user} \subseteq Brought(acc, t)
       /\ ToSet(acc.paused) \cup {t.user} \subseteq Brought(acc, t)
       /\ ToSet(acc.revoked) \cup {victim} \subseteq Brought(acc, t)
  BY <1>2 DEF Brought, Noted, Closed
<1> HIDE DEF victim
<1> DEFINE fits == FitsAll(Brought(acc, t))
<1>3c. fits => /\ Fits(ToSet(acc.open) \cup {t.user}, MaxItems)
               /\ Fits(ToSet(acc.done) \cup {t.user}, MaxClosed)
               /\ Fits(ToSet(acc.paused) \cup {t.user}, MaxClosed)
               /\ Fits(ToSet(acc.revoked) \cup {victim}, MaxClosed)
  BY <1>3b, FitsLess DEF FitsAll
<1> HIDE DEF fits
<1>4. /\ open \in TextList /\ ToSet(open) \subseteq ToSet(acc.open) \cup {t.user}
      /\ fits => ToSet(open) = ToSet(acc.open) \cup {t.user}
  BY <1>1, <1>3a, <1>3c, AppendIs
<1> HIDE DEF open
<1>5. afterDone \in TextList /\ ToSet(afterDone) = IF t.says = "done" THEN ToSet(open) \ {t.user} ELSE ToSet(open)
  BY <1>4, MinusIs
<1> HIDE DEF afterDone
<1>6. left \in TextList /\ ToSet(left) = IF revokes THEN ToSet(afterDone) \ {victim} ELSE ToSet(afterDone)
  BY <1>5, MinusIs
<1>7. /\ done \in TextList /\ ToSet(done) \subseteq ToSet(acc.done) \cup {t.user}
      /\ fits => ToSet(acc.done) \subseteq ToSet(done) /\ (t.says = "done" => t.user \in ToSet(done))
  <2>1. /\ done = AppendUnique(acc.done, t.user, MaxClosed) \/ done = acc.done
        /\ t.says = "done" => done = AppendUnique(acc.done, t.user, MaxClosed)
    OBVIOUS
  <2> HIDE DEF done
  <2>2. fits => Fits(ToSet(acc.done) \cup {t.user}, MaxClosed)
    BY <1>3c
  <2>3. t.user \in UserTexts /\ acc.done \in TextList
    BY <1>1
  <2>4. /\ done \in TextList /\ ToSet(done) \subseteq ToSet(acc.done) \cup {t.user}
        /\ Fits(ToSet(acc.done) \cup {t.user}, MaxClosed) =>
             /\ ToSet(acc.done) \subseteq ToSet(done)
             /\ done = AppendUnique(acc.done, t.user, MaxClosed) => t.user \in ToSet(done)
    BY <1>3a, <2>1, <2>3, MaybeAdded
  <2> QED BY <2>1, <2>2, <2>4
<1>8. /\ paused \in TextList /\ ToSet(paused) \subseteq ToSet(acc.paused) \cup {t.user}
      /\ fits => ToSet(acc.paused) \subseteq ToSet(paused)
  <2>1. paused = AppendUnique(acc.paused, t.user, MaxClosed) \/ paused = acc.paused
    OBVIOUS
  <2> HIDE DEF paused
  <2>2. fits => Fits(ToSet(acc.paused) \cup {t.user}, MaxClosed)
    BY <1>3c
  <2>3. t.user \in UserTexts /\ acc.paused \in TextList
    BY <1>1
  <2>4. /\ paused \in TextList /\ ToSet(paused) \subseteq ToSet(acc.paused) \cup {t.user}
        /\ Fits(ToSet(acc.paused) \cup {t.user}, MaxClosed) =>
             /\ ToSet(acc.paused) \subseteq ToSet(paused)
             /\ paused = AppendUnique(acc.paused, t.user, MaxClosed) => t.user \in ToSet(paused)
    BY <1>3a, <2>1, <2>3, MaybeAdded
  <2> QED BY <2>1, <2>2, <2>4
<1>9. /\ revoked \in TextList /\ ToSet(revoked) \subseteq ToSet(acc.revoked) \cup {victim}
      /\ fits => ToSet(acc.revoked) \subseteq ToSet(revoked) /\ (revokes => victim \in ToSet(revoked))
  <2>1. /\ revoked = AppendUnique(acc.revoked, victim, MaxClosed) \/ revoked = acc.revoked
        /\ revokes => revoked = AppendUnique(acc.revoked, victim, MaxClosed)
    OBVIOUS
  <2> HIDE DEF revoked, revokes
  <2> QED BY <1>1, <1>2, <1>3a, <1>3c, <2>1, MaybeAdded
<1> HIDE DEF left, done, paused, revoked
<1>10. PICK new : new = [task |-> t.user, open |-> left, done |-> done, paused |-> paused, revoked |-> revoked]
  OBVIOUS
<1>11. new \in Summary
  BY <1>1, <1>6, <1>7, <1>8, <1>9, <1>10 DEF Summary
<1>12. new.open = left /\ new.done = done /\ new.paused = paused /\ new.revoked = revoked /\ new.task = t.user
  BY <1>10
<1> HIDE DEF revokes
<1>13. fits => Noted(acc) \cup {t.user} \subseteq Noted(new)
  BY <1>4, <1>5, <1>6, <1>7, <1>8, <1>9, <1>12 DEF Noted, Closed
<1>14. Noted(new) \subseteq Brought(acc, t)
  <2>1. ToSet(left) \subseteq ToSet(acc.open) \cup {t.user}
    BY <1>4, <1>5, <1>6
  <2> QED BY <1>3b, <1>7, <1>8, <1>9, <1>12, <2>1 DEF Noted, Closed
<1> QED BY <1>3, <1>10, <1>11, <1>12, <1>13, <1>14 DEF fits
Blank(prior) == [task |-> prior, open |-> <<>>, done |-> <<>>, paused |-> <<>>, revoked |-> <<>>]

SummarizeRule(h, ts, prior) ==
  /\ h[0] = Blank(prior) /\ Summarize(ts, prior) = h[Len(ts)]
  /\ \A k \in 1..Len(ts) : h[k] = SummaryStep(h[k - 1], ts[k])

LEMMA SummarizeSteps ==
  ASSUME NEW ts \in Seq(Dialogue), NEW prior \in Known
  PROVE  \E h \in [0..Len(ts) -> Summary] : SummarizeRule(h, ts, prior)
<1> DEFINE n == Len(ts)
           T == Summary
           base == Blank(prior)
           G == [k \in 1..n |-> [a \in T |-> SummaryStep(a, ts[k])]]
           P(iter) == iter = [v \in SUBSET (1..n) |->
                                IF v = {} THEN base ELSE SummaryStep(iter[v \ {Max(v)}], ts[Max(v)])]
           f == CHOOSE iter : P(iter)
<1>1. n \in Nat /\ 1..n \in SUBSET (0..n) /\ DOMAIN ts = 1..n /\ base \in T
  BY DEF Blank, Summary, TextList, NoTwice
<1>2. Summarize(ts, prior) = f[1..n]
  BY <1>1, Zenon DEF Summarize, FoldLeft, MapThenFoldSet, Blank
<1>3. \A k \in 1..n : ts[k] \in Dialogue
  OBVIOUS
<1> HIDE DEF base
<1>4. \A k \in 1..n, a \in T : SummaryStep(a, ts[k]) \in T
  BY <1>3, SummaryStepIs
<1>5. G \in [1..n -> [T -> T]]
  <2> HIDE DEF T
  <2> QED BY <1>4
<1>6. ASSUME NEW v \in SUBSET (1..n), v # {}, NEW a \in T
      PROVE  G[Max(v)][a] = SummaryStep(a, ts[Max(v)])
  <2>1. Max(v) \in 1..n
    BY <1>1, <1>6, MaxIs
  <2> HIDE DEF T
  <2> QED BY <2>1
<1>7. \E iter : P(iter)
  <2>1. PICK iter \in [SUBSET (1..n) -> T] : FoldRule(1..n, base, G, iter)
    <3> HIDE DEF G, n, T
    <3> QED BY <1>1, <1>5, FoldExists, Zenon
  <2>2. \A v \in SUBSET (1..n) : iter[v \ {Max(v)}] \in T
    OBVIOUS
  <2>3. P(iter)
    <3> HIDE DEF G, T
    <3> QED BY <1>6, <2>1, <2>2 DEF FoldRule
  <2> QED BY <2>3
<1>8. P(f)
  BY <1>7, Zenon
<1> HIDE DEF f
<1>9. Folds(f, n, T, base, G)
  <2> HIDE DEF G, T
  <2> QED BY <1>6, <1>8 DEF Folds
<1>10. PICK h \in [0..n -> T] : Walks(h, n, base, G) /\ h[n] = f[1..n]
  <2>1. Walked(f, n, T, base, G)
    <3> HIDE DEF G, T, n
    <3> QED BY <1>1, <1>5, <1>9, FoldWalk, Zenon
  <2> QED BY <2>1, Zenon DEF Walked
<1>11. SummarizeRule(h, ts, prior)
  <2>1. h[0] = base /\ \A k \in 1..n : h[k] = G[k][h[k - 1]]
    BY <1>10, Zenon DEF Walks
  <2>2. \A k \in 1..n : h[k - 1] \in T
    <3>1. \A k \in 1..n : k - 1 \in 0..n
      BY <1>1
    <3> HIDE DEF T, G, n
    <3> QED BY <1>10, <3>1
  <2>3. \A k \in 1..n : \A a \in T : G[k][a] = SummaryStep(a, ts[k])
    <3> HIDE DEF T
    <3> QED OBVIOUS
  <2>4. \A k \in 1..n : h[k] = SummaryStep(h[k - 1], ts[k])
    <3> HIDE DEF T, G
    <3> QED BY <2>1, <2>2, <2>3, Zenon
  <2> HIDE DEF T, G
  <2> QED BY <1>2, <1>10, <2>1, <2>4 DEF SummarizeRule, base
<1> QED BY <1>10, <1>11

\* The turns' texts and the task before them are all that is noted, and where there is
\* room everything the user says in the turns is.
Heard(ts, prior, T) ==
  (\A i \in 1..Len(ts) : ts[i].user \in T) /\ prior \in T \cup {"none"}

LEMMA SummarizeIs ==
  ASSUME NEW ts \in Seq(Dialogue), NEW prior \in Known, NEW T, Heard(ts, prior, T)
  PROVE  /\ Summarize(ts, prior) \in Summary
         /\ ts # <<>> => Summarize(ts, prior).task = ts[Len(ts)].user
         /\ Noted(Summarize(ts, prior)) \subseteq T
         /\ FitsAll(T) => \A i \in 1..Len(ts) : ts[i].user \in Noted(Summarize(ts, prior))
<1> DEFINE n == Len(ts)
<1>1. n \in Nat /\ (\A k \in 1..n : ts[k] \in Dialogue) /\ (ts # <<>> => n # 0)
  OBVIOUS
<1>1a. (\A k \in 1..n : ts[k].user \in T) /\ prior \in T \cup {"none"}
  BY Zenon DEF Heard
<1>2. PICK h \in [0..n -> Summary] : SummarizeRule(h, ts, prior)
  BY SummarizeSteps, Zenon
<1>3. h[0] = Blank(prior) /\ Summarize(ts, prior) = h[n] /\ \A k \in 1..n : h[k] = SummaryStep(h[k - 1], ts[k])
  BY <1>2 DEF SummarizeRule
<1> HIDE DEF n
<1>4. ASSUME NEW k \in 1..n
      PROVE  /\ h[k].task = ts[k].user /\ Noted(h[k]) \subseteq Brought(h[k - 1], ts[k])
             /\ FitsAll(Brought(h[k - 1], ts[k])) => Noted(h[k - 1]) \cup {ts[k].user} \subseteq Noted(h[k])
  <2>1. PICK before : before = h[k - 1]
    OBVIOUS
  <2>2. before \in Summary /\ ts[k] \in Dialogue /\ h[k] = SummaryStep(before, ts[k])
    BY <1>1, <1>2, <1>3, <2>1
  <2> QED BY <2>1, <2>2, SummaryStepIs
<1> DEFINE A == {k \in 0..n : /\ Noted(h[k]) \subseteq T /\ h[k].task \in T \cup {"none"}
                              /\ k # 0 => h[k].task = ts[k].user
                              /\ FitsAll(T) => \A i \in 1..k : ts[i].user \in Noted(h[k])}
<1>5. 0 \in A
  <2>1. Noted(Blank(prior)) = {} /\ Blank(prior).task = prior
    BY DEF Noted, Closed, Blank, ToSet
  <2> QED BY <1>1, <1>1a, <1>3, <2>1
<1>6. ASSUME NEW k \in 1..n, k - 1 \in A PROVE k \in A
  <2>1. /\ k \in 0..n /\ Noted(h[k - 1]) \subseteq T /\ h[k - 1].task \in T \cup {"none"}
        /\ FitsAll(T) => \A i \in 1..(k - 1) : ts[i].user \in Noted(h[k - 1])
    BY <1>6
  <2>2. \A i \in 1..k : i = k \/ i \in 1..(k - 1)
    OBVIOUS
  <2>3. ts[k].user \in T
    BY <1>1a
  <2>4. Brought(h[k - 1], ts[k]) \subseteq T
    BY <2>1, <2>3 DEF Brought
  <2>5. FitsAll(T) => FitsAll(Brought(h[k - 1], ts[k]))
    BY <2>4, FitsLess DEF FitsAll
  <2>6. FitsAll(T) => \A i \in 1..k : ts[i].user \in Noted(h[k])
    BY <1>4, <2>1, <2>2, <2>5
  <2>7. h[k].task = ts[k].user /\ Noted(h[k]) \subseteq T
    BY <1>4, <2>4
  <2> QED BY <2>1, <2>3, <2>6, <2>7
<1>7. \A k \in 0..n : k \in A
  <2> HIDE DEF A
  <2> QED BY <1>1, <1>5, <1>6, RangeInduction
<1>8. n \in 0..n /\ n \in A
  BY <1>1, <1>7
<1>9. h[n] \in Summary
  BY <1>2, <1>8
<1> QED BY <1>1, <1>3, <1>8, <1>9 DEF n

\* The summary of the segment c, after those of the segments before it.
Summed(ts, acc, c) ==
  Append(acc, Summarize(SubSeq(ts, c[1], c[2]), IF acc = <<>> THEN "none" ELSE acc[Len(acc)].task))

InTurns(c, ts) == 1 <= c[1] /\ c[1] <= c[2] /\ c[2] <= Len(ts)

\* The texts of a segment and of the turn before it.
Around(ts, c) == {ts[i].user : i \in (c[1] - 1)..c[2] \ {0}}

\* What the summary s of the segment c notes.
Notes(s, ts, c) ==
  /\ s.task = ts[c[2]].user /\ Noted(s) \subseteq Around(ts, c)
  /\ FitsAll(Around(ts, c)) => \A i \in c[1]..c[2] : ts[i].user \in Noted(s)

\* The task of the last of acc is that of the turn before c.
Leads(acc, ts, c) == acc # <<>> => c[1] # 1 /\ acc[Len(acc)].task = ts[c[1] - 1].user

LEMMA SummedIs ==
  ASSUME NEW ts \in Seq(Dialogue), NEW acc \in Seq(Summary), NEW c \in Piece, InTurns(c, ts)
  PROVE  /\ Summed(ts, acc, c) \in Seq(Summary) /\ Len(Summed(ts, acc, c)) = Len(acc) + 1
         /\ \A j \in 1..Len(acc) : Summed(ts, acc, c)[j] = acc[j]
         /\ Leads(acc, ts, c) => Notes(Summed(ts, acc, c)[Len(acc) + 1], ts, c)
<1>1. PICK piece : piece = SubSeq(ts, c[1], c[2])
  OBVIOUS
<1>2. PICK a, b : a \in Nat /\ b \in Nat /\ a = c[1] /\ b = c[2]
  BY DEF Piece
<1>3. 1 <= a /\ a <= b /\ b <= Len(ts) /\ piece = SubSeq(ts, a, b)
  BY <1>1, <1>2 DEF InTurns
<1>3a. /\ piece \in Seq(Dialogue) /\ Len(piece) = b - a + 1
       /\ \A i \in 1..(b - a + 1) : piece[i] = ts[i + a - 1]
  <2>1. a \in Nat /\ b \in Nat
    BY <1>2
  <2> QED BY <1>3, <2>1
<1>3b. piece # <<>> /\ b - a + 1 \in 1..(b - a + 1)
  <2>1. Len(<<>>) = 0 /\ b - a + 1 \in Nat \ {0}
    BY <1>2, <1>3
  <2> QED BY <1>3a, <2>1
<1>4. PICK prior : prior = (IF acc = <<>> THEN "none" ELSE acc[Len(acc)].task)
  OBVIOUS
<1>5. prior \in Known
  <2>1. CASE acc = <<>>
    BY <1>4, <2>1 DEF Known
  <2>2. CASE acc # <<>>
    <3>1. acc[Len(acc)] \in Summary
      BY <2>2
    <3> QED BY <1>4, <2>2, <3>1 DEF Summary
  <2> QED BY <2>1, <2>2
<1>6. PICK new : new = Summarize(piece, prior)
  OBVIOUS
<1>7. Summed(ts, acc, c) = Append(acc, new)
  BY <1>1, <1>4, <1>6, Zenon DEF Summed
<1>8. new \in Summary
  <2>1. Heard(piece, prior, UserTexts)
    <3>1. \A i \in 1..Len(piece) : piece[i] \in Dialogue
      BY <1>3a
    <3> QED BY <1>5, <3>1 DEF Heard, Dialogue, Known
  <2> QED BY <1>3a, <1>5, <1>6, <2>1, SummarizeIs
<1>9. ASSUME Leads(acc, ts, c) PROVE Notes(new, ts, c)
  <2> DEFINE T == Around(ts, c)
  <2>1. \A i \in a..b : ts[i].user \in T
    <3>1. \A i \in a..b : i \in (a - 1)..b \ {0}
      BY <1>2, <1>3
    <3>2. T = {ts[i].user : i \in (a - 1)..b \ {0}}
      BY <1>2, Zenon DEF Around
    <3> QED BY <3>1, <3>2
  <2>2. prior \in T \cup {"none"}
    <3>1. CASE acc = <<>>
      BY <1>4, <3>1
    <3>2. CASE acc # <<>>
      <4>1. a # 1 /\ prior = ts[a - 1].user
        BY <1>2, <1>4, <1>9, <3>2 DEF Leads
      <4>2. a - 1 \in (a - 1)..b \ {0}
        BY <1>2, <1>3, <4>1
      <4> QED BY <1>2, <4>1, <4>2 DEF Around
    <3> QED BY <3>1, <3>2
  <2>3. a \in Nat /\ b \in Nat
    BY <1>2
  <2>4. \A i \in 1..Len(piece) : piece[i].user \in T
    <3> SUFFICES ASSUME NEW i \in 1..(b - a + 1) PROVE piece[i].user \in T
      BY <1>3a
    <3>1. i + a - 1 \in a..b
      BY <2>3
    <3>2. piece[i] = ts[i + a - 1]
      BY <1>3a
    <3> QED BY <2>1, <3>1, <3>2
  <2>4a. Heard(piece, prior, T)
    BY <2>2, <2>4 DEF Heard
  <2> HIDE DEF T
  <2>5. /\ new.task = piece[Len(piece)].user /\ Noted(new) \subseteq T
        /\ FitsAll(T) => \A i \in 1..Len(piece) : piece[i].user \in Noted(new)
    BY <1>3a, <1>3b, <1>5, <1>6, <2>4a, SummarizeIs
  <2>6. piece[Len(piece)] = ts[b]
    <3>1. (b - a + 1) + a - 1 = b
      BY <2>3
    <3> QED BY <1>3a, <1>3b, <3>1
  <2>7. ASSUME NEW i \in a..b, FitsAll(T) PROVE ts[i].user \in Noted(new)
    <3>1. i - a + 1 \in 1..(b - a + 1) /\ (i - a + 1) + a - 1 = i
      BY <2>3
    <3>2. piece[i - a + 1] = ts[i]
      BY <1>3a, <3>1
    <3> QED BY <1>3a, <2>5, <2>7, <3>1, <3>2
  <2> QED BY <1>2, <2>5, <2>6, <2>7 DEF Notes, T
<1>10. /\ Append(acc, new) \in Seq(Summary) /\ Len(Append(acc, new)) = Len(acc) + 1
       /\ Append(acc, new)[Len(acc) + 1] = new /\ \A j \in 1..Len(acc) : Append(acc, new)[j] = acc[j]
  BY <1>8
<1> QED BY <1>7, <1>9, <1>10

\* The summaries of the segments of a session.
Summaries(ts) ==
  FoldLeft(LAMBDA acc, c : Append(acc, Summarize(SubSeq(ts, c[1], c[2]),
                                                 IF acc = <<>> THEN "none" ELSE acc[Len(acc)].task)),
           <<>>, Segments(ts))

SummariesRule(h, ts) ==
  /\ h[0] = <<>> /\ Summaries(ts) = h[Len(Segments(ts))]
  /\ \A k \in 1..Len(Segments(ts)) : h[k] = Summed(ts, h[k - 1], Segments(ts)[k])

LEMMA SummariesSteps ==
  ASSUME NEW ts \in Seq(Dialogue)
  PROVE  \E h \in [0..Len(Segments(ts)) -> Seq(Summary)] : SummariesRule(h, ts)
<1> DEFINE cuts == Segments(ts)
           n == Len(cuts)
           T == Seq(Summary)
           G == [k \in 1..n |-> [a \in T |-> Summed(ts, a, cuts[k])]]
           P(iter) == iter = [v \in SUBSET (1..n) |->
                                IF v = {} THEN <<>> ELSE Summed(ts, iter[v \ {Max(v)}], cuts[Max(v)])]
           f == CHOOSE iter : P(iter)
<1>1. n \in Nat /\ 1..n \in SUBSET (0..n) /\ DOMAIN cuts = 1..n /\ <<>> \in T
  <2>1. cuts \in Seq(Piece)
    BY SegmentsTile DEF Tiles
  <2> QED BY <2>1
<1>2. Summaries(ts) = f[1..n]
  BY <1>1, Zenon DEF Summaries, FoldLeft, MapThenFoldSet, Summed
<1>3. \A k \in 1..n : cuts[k] \in Piece /\ InTurns(cuts[k], ts)
  BY SegmentsTile DEF Tiles, InTurns
<1> HIDE DEF cuts
<1>4. \A k \in 1..n, a \in T : Summed(ts, a, cuts[k]) \in T
  BY <1>3, SummedIs
<1>5. G \in [1..n -> [T -> T]]
  <2> HIDE DEF T
  <2> QED BY <1>4
<1>6. ASSUME NEW v \in SUBSET (1..n), v # {}, NEW a \in T
      PROVE  G[Max(v)][a] = Summed(ts, a, cuts[Max(v)])
  <2>1. Max(v) \in 1..n
    BY <1>1, <1>6, MaxIs
  <2> HIDE DEF T
  <2> QED BY <2>1
<1>7. \E iter : P(iter)
  <2>1. PICK iter \in [SUBSET (1..n) -> T] : FoldRule(1..n, <<>>, G, iter)
    <3> HIDE DEF G, n, T
    <3> QED BY <1>1, <1>5, FoldExists, Zenon
  <2>2. \A v \in SUBSET (1..n) : iter[v \ {Max(v)}] \in T
    OBVIOUS
  <2>3. P(iter)
    <3> HIDE DEF G, T
    <3> QED BY <1>6, <2>1, <2>2 DEF FoldRule
  <2> QED BY <2>3
<1>8. P(f)
  BY <1>7, Zenon
<1> HIDE DEF f
<1>9. Folds(f, n, T, <<>>, G)
  <2> HIDE DEF G, T
  <2> QED BY <1>6, <1>8 DEF Folds
<1>10. PICK h \in [0..n -> T] : Walks(h, n, <<>>, G) /\ h[n] = f[1..n]
  <2>1. Walked(f, n, T, <<>>, G)
    <3> HIDE DEF G, T, n
    <3> QED BY <1>1, <1>5, <1>9, FoldWalk, Zenon
  <2> QED BY <2>1, Zenon DEF Walked
<1>11. SummariesRule(h, ts)
  <2>1. h[0] = <<>> /\ \A k \in 1..n : h[k] = G[k][h[k - 1]]
    BY <1>10, Zenon DEF Walks
  <2>2. \A k \in 1..n : h[k - 1] \in T
    <3>1. \A k \in 1..n : k - 1 \in 0..n
      BY <1>1
    <3> HIDE DEF T, G, n
    <3> QED BY <1>10, <3>1
  <2>3. \A k \in 1..n : \A a \in T : G[k][a] = Summed(ts, a, cuts[k])
    <3> HIDE DEF T
    <3> QED OBVIOUS
  <2>4. \A k \in 1..n : h[k] = Summed(ts, h[k - 1], cuts[k])
    <3> HIDE DEF T, G
    <3> QED BY <2>1, <2>2, <2>3, Zenon
  <2> HIDE DEF T, G
  <2> QED BY <1>2, <1>10, <2>1, <2>4 DEF SummariesRule, cuts
<1> QED BY <1>10, <1>11 DEF cuts

\* There is one for each segment, and it notes what the user says there.
Noting(list, ts, k) ==
  /\ Len(list) = k
  /\ \A j \in 1..k : Notes(list[j], ts, Segments(ts)[j])

LEMMA SummariesNote ==
  ASSUME NEW ts \in Seq(Dialogue)
  PROVE  Summaries(ts) \in Seq(Summary) /\ Noting(Summaries(ts), ts, Len(Segments(ts)))
<1> DEFINE cuts == Segments(ts)
           n == Len(cuts)
<1>1. n \in Nat /\ \A k \in 1..n : cuts[k] \in Piece /\ InTurns(cuts[k], ts)
  BY SegmentsTile DEF Tiles, InTurns
<1>1a. \A k \in 1..(n - 1) : cuts[k + 1][1] = cuts[k][2] + 1
  <2>1. Tiles(cuts, Len(ts))
    BY SegmentsTile, Zenon
  <2> QED BY <2>1, Zenon DEF Tiles
<1>2. PICK h \in [0..n -> Seq(Summary)] : SummariesRule(h, ts)
  BY SummariesSteps, Zenon
<1>3. h[0] = <<>> /\ Summaries(ts) = h[n] /\ \A k \in 1..n : h[k] = Summed(ts, h[k - 1], cuts[k])
  BY <1>2 DEF SummariesRule
<1> HIDE DEF cuts, n
<1> DEFINE A == {k \in 0..n : Noting(h[k], ts, k)}
<1>4. 0 \in A
  <2>1. Len(h[0]) = 0 /\ 1..0 = {}
    BY <1>3
  <2> QED BY <1>1, <2>1 DEF Noting
<1>5. ASSUME NEW k \in 1..n, k - 1 \in A PROVE k \in A
  <2>1. k \in 0..n /\ k \in Nat /\ k - 1 \in 0..n /\ (k - 1) + 1 = k
    BY <1>1
  <2>2. PICK old : old = h[k - 1]
    OBVIOUS
  <2>3. PICK new : new = Summed(ts, old, cuts[k])
    OBVIOUS
  <2>4. /\ old \in Seq(Summary) /\ Len(old) = k - 1 /\ h[k] = new
        /\ \A j \in 1..(k - 1) : Notes(old[j], ts, cuts[j])
    BY <1>2, <1>3, <1>5, <2>1, <2>2, <2>3 DEF Noting, cuts
  <2>5. PICK cut : cut = cuts[k]
    OBVIOUS
  <2>6. cut \in Piece /\ InTurns(cut, ts)
    BY <1>1, <2>5
  <2>7. Leads(old, ts, cut)
    <3> SUFFICES ASSUME old # <<>> PROVE cut[1] # 1 /\ old[Len(old)].task = ts[cut[1] - 1].user
      BY DEF Leads
    <3>1. k - 1 \in 1..(n - 1) /\ k - 1 \in 1..(k - 1) /\ k - 1 \in 1..n
      <4>1. Len(old) # 0
        BY <2>4
      <4> QED BY <1>1, <2>1, <2>4, <4>1
    <3>2. PICK last : last = cuts[k - 1]
      OBVIOUS
    <3>3. cut[1] = last[2] + 1
      BY <1>1a, <2>1, <2>5, <3>1, <3>2
    <3>4. last[2] \in Nat /\ last[2] >= 1
      <4>1. last \in Piece /\ InTurns(last, ts)
        BY <1>1, <3>1, <3>2
      <4> QED BY <4>1 DEF Piece, InTurns
    <3>5. cut[1] # 1 /\ cut[1] - 1 = last[2]
      BY <3>3, <3>4
    <3>6. old[k - 1].task = ts[last[2]].user
      BY <2>4, <3>1, <3>2 DEF Notes
    <3> QED BY <2>4, <3>5, <3>6
  <2>8. /\ Len(new) = Len(old) + 1 /\ \A j \in 1..Len(old) : new[j] = old[j]
        /\ Notes(new[Len(old) + 1], ts, cut)
    <3>1. new = Summed(ts, old, cut) /\ old \in Seq(Summary)
      BY <2>3, <2>4, <2>5
    <3>2. /\ Len(Summed(ts, old, cut)) = Len(old) + 1
          /\ \A j \in 1..Len(old) : Summed(ts, old, cut)[j] = old[j]
          /\ Notes(Summed(ts, old, cut)[Len(old) + 1], ts, cut)
      BY <2>6, <2>7, <3>1, SummedIs, Zenon
    <3> QED BY <3>1, <3>2
  <2>9. \A j \in 1..k : j = k \/ j \in 1..(k - 1)
    BY <2>1
  <2>10. Len(new) = k /\ \A j \in 1..k : Notes(new[j], ts, cuts[j])
    BY <2>1, <2>4, <2>5, <2>8, <2>9
  <2>11. Noting(h[k], ts, k)
    BY <2>4, <2>10, Zenon DEF Noting, cuts
  <2> QED BY <2>1, <2>11
<1>6. \A k \in 0..n : k \in A
  <2> HIDE DEF A
  <2> QED BY <1>1, <1>4, <1>5, RangeInduction
<1>7. n \in 0..n /\ n \in A
  BY <1>1, <1>6
<1> QED BY <1>2, <1>3, <1>7 DEF n, cuts

-----------------------------------------------------------------------------
(* Dialogue: the chain                                                     *)

\* What is open is not closed.
Apart(c) == ToSet(c.open) \cap Closed(c) = {}

LEMMA ChainStepIs ==
  ASSUME NEW acc \in Threads, NEW seg \in Summary
  PROVE  /\ ChainStep(acc, seg) \in Threads /\ (Apart(acc) => Apart(ChainStep(acc, seg)))
         /\ Noted(ChainStep(acc, seg)) \subseteq Noted(acc) \cup Noted(seg)
         /\ Fits(Noted(acc) \cup Noted(seg), MaxItems) =>
              Noted(acc) \cup Noted(seg) \subseteq Noted(ChainStep(acc, seg))
<1> DEFINE both == Noted(acc) \cup Noted(seg)
           fits == Fits(both, MaxItems)
<1>1. /\ acc.open \in TextList /\ acc.done \in TextList /\ acc.paused \in TextList /\ acc.revoked \in TextList
      /\ seg.open \in TextList /\ seg.done \in TextList /\ seg.paused \in TextList /\ seg.revoked \in TextList
  BY DEF Threads, Summary
<1>2. /\ ToSet(acc.open) \subseteq both /\ ToSet(acc.done) \subseteq both
      /\ ToSet(acc.paused) \subseteq both /\ ToSet(acc.revoked) \subseteq both
      /\ ToSet(seg.open) \subseteq both /\ ToSet(seg.done) \subseteq both
      /\ ToSet(seg.paused) \subseteq both /\ ToSet(seg.revoked) \subseteq both
  BY DEF Noted, Closed
<1> HIDE DEF both
<1>3. ASSUME NEW s \in TextList, NEW t \in TextList, ToSet(s) \subseteq both, ToSet(t) \subseteq both
      PROVE  /\ AllAppended(s, t) \in TextList /\ ToSet(AllAppended(s, t)) \subseteq ToSet(s) \cup ToSet(t)
             /\ fits => ToSet(AllAppended(s, t)) = ToSet(s) \cup ToSet(t)
  <2>1. ToSet(s) \cup ToSet(t) \in SUBSET both
    BY <1>3
  <2>2. fits => Fits(ToSet(s) \cup ToSet(t), MaxItems)
    BY <2>1, FitsLess
  <2> QED BY <1>3, <2>2, AllAppendedIs
<1> HIDE DEF fits
<1>4. PICK done, paused, revoked :
        /\ done = AllAppended(acc.done, seg.done) /\ paused = AllAppended(acc.paused, seg.paused)
        /\ revoked = AllAppended(acc.revoked, seg.revoked)
  OBVIOUS
<1>5. /\ done \in TextList /\ ToSet(done) \subseteq ToSet(acc.done) \cup ToSet(seg.done)
      /\ paused \in TextList /\ ToSet(paused) \subseteq ToSet(acc.paused) \cup ToSet(seg.paused)
      /\ revoked \in TextList /\ ToSet(revoked) \subseteq ToSet(acc.revoked) \cup ToSet(seg.revoked)
      /\ fits => /\ ToSet(done) = ToSet(acc.done) \cup ToSet(seg.done)
                 /\ ToSet(paused) = ToSet(acc.paused) \cup ToSet(seg.paused)
                 /\ ToSet(revoked) = ToSet(acc.revoked) \cup ToSet(seg.revoked)
  BY <1>1, <1>2, <1>3, <1>4
<1>6. PICK closes, closed :
        /\ closes = ToSet(seg.done) \cup ToSet(seg.paused) \cup ToSet(seg.revoked)
        /\ closed = ToSet(done) \cup ToSet(paused) \cup ToSet(revoked)
  OBVIOUS
<1>7. PICK left, fresh : /\ left = Only(acc.open, ToSet(acc.open) \ closes)
                         /\ fresh = Only(seg.open, ToSet(seg.open) \ closed)
  OBVIOUS
<1>8. /\ left \in TextList /\ ToSet(left) = ToSet(acc.open) \ closes
      /\ fresh \in TextList /\ ToSet(fresh) = ToSet(seg.open) \ closed
  <2>1. left \in TextList /\ ToSet(left) = ToSet(acc.open) \cap (ToSet(acc.open) \ closes)
    BY <1>1, <1>7, OnlyTexts
  <2>2. fresh \in TextList /\ ToSet(fresh) = ToSet(seg.open) \cap (ToSet(seg.open) \ closed)
    BY <1>1, <1>7, OnlyTexts
  <2> QED BY <2>1, <2>2
<1>9. PICK open : open = AllAppended(left, fresh)
  OBVIOUS
<1>10. /\ open \in TextList /\ ToSet(open) \subseteq ToSet(left) \cup ToSet(fresh)
       /\ fits => ToSet(open) = ToSet(left) \cup ToSet(fresh)
  BY <1>2, <1>3, <1>8, <1>9
<1>11. PICK new : new = [open |-> open, done |-> done, paused |-> paused, revoked |-> revoked]
  OBVIOUS
<1>12. ChainStep(acc, seg) = new
  BY <1>4, <1>6, <1>7, <1>9, <1>11, Zenon DEF ChainStep
<1>13. new \in Threads
  BY <1>5, <1>10, <1>11 DEF Threads
<1>14. new.open = open /\ new.done = done /\ new.paused = paused /\ new.revoked = revoked
  BY <1>11
<1>15. Closed(new) = closed
  BY <1>6, <1>14 DEF Closed
<1>16. closed \subseteq Closed(acc) \cup closes /\ Closed(acc) \subseteq both /\ closes \subseteq both
  BY <1>2, <1>5, <1>6 DEF Closed
<1>17. Apart(acc) => Apart(new)
  BY <1>8, <1>10, <1>14, <1>15, <1>16 DEF Apart
<1>18. Noted(new) \subseteq both
  BY <1>2, <1>8, <1>10, <1>14, <1>15, <1>16 DEF Noted
<1>19. fits => Noted(acc) \cup Noted(seg) \subseteq Noted(new)
  <2>1. fits => closed = Closed(acc) \cup closes
    BY <1>5, <1>6 DEF Closed
  <2>2. Closed(seg) = closes
    BY <1>6 DEF Closed
  <2> QED BY <1>8, <1>10, <1>14, <1>15, <2>1, <2>2 DEF Noted
<1> QED BY <1>12, <1>13, <1>17, <1>18, <1>19 DEF both, fits

NoThreads == [open |-> <<>>, done |-> <<>>, paused |-> <<>>, revoked |-> <<>>]
Chained(list) == FoldLeft(ChainStep, NoThreads, list)

ChainedRule(h, list) ==
  /\ h[0] = NoThreads /\ Chained(list) = h[Len(list)]
  /\ \A k \in 1..Len(list) : h[k] = ChainStep(h[k - 1], list[k])

LEMMA ChainedSteps ==
  ASSUME NEW list \in Seq(Summary)
  PROVE  \E h \in [0..Len(list) -> Threads] : ChainedRule(h, list)
<1> DEFINE n == Len(list)
           T == Threads
           G == [k \in 1..n |-> [a \in T |-> ChainStep(a, list[k])]]
           P(iter) == iter = [v \in SUBSET (1..n) |->
                                IF v = {} THEN NoThreads ELSE ChainStep(iter[v \ {Max(v)}], list[Max(v)])]
           f == CHOOSE iter : P(iter)
<1>1. n \in Nat /\ 1..n \in SUBSET (0..n) /\ DOMAIN list = 1..n /\ NoThreads \in T
  BY DEF NoThreads, Threads, TextList, NoTwice
<1>2. Chained(list) = f[1..n]
  BY <1>1, Zenon DEF Chained, FoldLeft, MapThenFoldSet
<1>3. \A k \in 1..n : list[k] \in Summary
  OBVIOUS
<1>4. \A k \in 1..n, a \in T : ChainStep(a, list[k]) \in T
  BY <1>3, ChainStepIs
<1>5. G \in [1..n -> [T -> T]]
  <2> HIDE DEF T
  <2> QED BY <1>4
<1>6. ASSUME NEW v \in SUBSET (1..n), v # {}, NEW a \in T
      PROVE  G[Max(v)][a] = ChainStep(a, list[Max(v)])
  <2>1. Max(v) \in 1..n
    BY <1>1, <1>6, MaxIs
  <2> HIDE DEF T
  <2> QED BY <2>1
<1>7. \E iter : P(iter)
  <2>1. PICK iter \in [SUBSET (1..n) -> T] : FoldRule(1..n, NoThreads, G, iter)
    <3> HIDE DEF G, n, T
    <3> QED BY <1>1, <1>5, FoldExists, Zenon
  <2>2. \A v \in SUBSET (1..n) : iter[v \ {Max(v)}] \in T
    OBVIOUS
  <2>3. P(iter)
    <3> HIDE DEF G, T
    <3> QED BY <1>6, <2>1, <2>2 DEF FoldRule
  <2> QED BY <2>3
<1>8. P(f)
  BY <1>7, Zenon
<1> HIDE DEF f
<1>9. Folds(f, n, T, NoThreads, G)
  <2> HIDE DEF G, T
  <2> QED BY <1>6, <1>8 DEF Folds
<1>10. PICK h \in [0..n -> T] : Walks(h, n, NoThreads, G) /\ h[n] = f[1..n]
  <2>1. Walked(f, n, T, NoThreads, G)
    <3> HIDE DEF G, T, n
    <3> QED BY <1>1, <1>5, <1>9, FoldWalk, Zenon
  <2> QED BY <2>1, Zenon DEF Walked
<1>11. ChainedRule(h, list)
  <2>1. h[0] = NoThreads /\ \A k \in 1..n : h[k] = G[k][h[k - 1]]
    BY <1>10, Zenon DEF Walks
  <2>2. \A k \in 1..n : h[k - 1] \in T
    <3>1. \A k \in 1..n : k - 1 \in 0..n
      BY <1>1
    <3> HIDE DEF T, G, n
    <3> QED BY <1>10, <3>1
  <2>3. \A k \in 1..n : \A a \in T : G[k][a] = ChainStep(a, list[k])
    <3> HIDE DEF T
    <3> QED OBVIOUS
  <2>4. \A k \in 1..n : h[k] = ChainStep(h[k - 1], list[k])
    <3> HIDE DEF T, G
    <3> QED BY <2>1, <2>2, <2>3, Zenon
  <2> HIDE DEF T, G
  <2> QED BY <1>2, <1>10, <2>1, <2>4 DEF ChainedRule
<1> QED BY <1>10, <1>11

LEMMA ChainedIs ==
  ASSUME NEW list \in Seq(Summary), NEW T, \A j \in 1..Len(list) : Noted(list[j]) \subseteq T
  PROVE  /\ Apart(Chained(list))
         /\ Fits(T, MaxItems) => \A j \in 1..Len(list) : Noted(list[j]) \subseteq Noted(Chained(list))
<1> DEFINE n == Len(list)
<1>1. n \in Nat /\ \A k \in 1..n : list[k] \in Summary /\ Noted(list[k]) \subseteq T
  OBVIOUS
<1>2. PICK h \in [0..n -> Threads] : ChainedRule(h, list)
  BY ChainedSteps, Zenon
<1>3. h[0] = NoThreads /\ Chained(list) = h[n] /\ \A k \in 1..n : h[k] = ChainStep(h[k - 1], list[k])
  BY <1>2 DEF ChainedRule
<1> HIDE DEF n
<1>4. ASSUME NEW k \in 1..n
      PROVE  /\ Apart(h[k - 1]) => Apart(h[k])
             /\ Noted(h[k]) \subseteq Noted(h[k - 1]) \cup Noted(list[k])
             /\ Fits(Noted(h[k - 1]) \cup Noted(list[k]), MaxItems) =>
                  Noted(h[k - 1]) \cup Noted(list[k]) \subseteq Noted(h[k])
  <2>1. PICK before : before = h[k - 1]
    OBVIOUS
  <2>2. before \in Threads /\ list[k] \in Summary /\ h[k] = ChainStep(before, list[k])
    BY <1>1, <1>2, <1>3, <2>1
  <2> QED BY <2>1, <2>2, ChainStepIs
<1> DEFINE A == {k \in 0..n : /\ Apart(h[k]) /\ Noted(h[k]) \subseteq T
                              /\ Fits(T, MaxItems) => \A j \in 1..k : Noted(list[j]) \subseteq Noted(h[k])}
<1>5. 0 \in A
  <2>1. Apart(NoThreads) /\ Noted(NoThreads) = {}
    BY DEF Apart, Noted, Closed, NoThreads, ToSet
  <2>2. 0 \in 0..n /\ 1..0 = {}
    BY <1>1
  <2> QED BY <1>3, <2>1, <2>2
<1>6. ASSUME NEW k \in 1..n, k - 1 \in A PROVE k \in A
  <2>1. /\ k \in 0..n /\ Apart(h[k - 1]) /\ Noted(h[k - 1]) \subseteq T
        /\ Fits(T, MaxItems) => \A j \in 1..(k - 1) : Noted(list[j]) \subseteq Noted(h[k - 1])
    BY <1>6
  <2>2. \A j \in 1..k : j = k \/ j \in 1..(k - 1)
    OBVIOUS
  <2>3. Noted(h[k - 1]) \cup Noted(list[k]) \in SUBSET T
    BY <1>1, <2>1
  <2>4. Fits(T, MaxItems) => Fits(Noted(h[k - 1]) \cup Noted(list[k]), MaxItems)
    BY <2>3, FitsLess
  <2>5. Fits(T, MaxItems) => \A j \in 1..k : Noted(list[j]) \subseteq Noted(h[k])
    BY <1>4, <2>1, <2>2, <2>4
  <2>6. Apart(h[k]) /\ Noted(h[k]) \subseteq T
    BY <1>4, <2>1, <2>3
  <2> QED BY <2>1, <2>5, <2>6
<1>7. \A k \in 0..n : k \in A
  <2> HIDE DEF A
  <2> QED BY <1>1, <1>5, <1>6, RangeInduction
<1>8. n \in 0..n /\ n \in A
  BY <1>1, <1>7
<1> QED BY <1>3, <1>8 DEF n

\* A later piece begins later.
LEMMA TileOrder ==
  ASSUME NEW out, NEW end, Tiles(out, end), NEW k \in 1..Len(out), NEW m \in k..Len(out)
  PROVE  out[k][1] <= out[m][1]
<1> DEFINE n == Len(out)
           A == {d \in 0..(n - k) : out[k][1] <= out[k + d][1]}
<1>1. n \in Nat /\ k \in Nat /\ n - k \in Nat /\ out \in Seq(Piece)
  BY DEF Tiles
<1>2. \A i \in 1..n : out[i][1] \in Nat /\ out[i][2] \in Nat
  <2>1. \A i \in 1..n : out[i] \in Piece
    BY <1>1
  <2> QED BY <2>1 DEF Piece
<1>3. /\ \A i \in 1..n : out[i][1] <= out[i][2]
      /\ \A i \in 1..(n - 1) : out[i + 1][1] = out[i][2] + 1
  BY Zenon DEF Tiles
<1> HIDE DEF n
<1>4. 0 \in A
  <2>1. k + 0 = k /\ out[k][1] \in Nat
    BY <1>1, <1>2 DEF n
  <2> QED BY <1>1, <2>1
<1>5. ASSUME NEW d \in 1..(n - k), d - 1 \in A PROVE d \in A
  <2>1. PICK i : i = k + (d - 1)
    OBVIOUS
  <2>2. i \in 1..(n - 1) /\ i \in 1..n /\ i + 1 = k + d /\ d \in 0..(n - k) /\ i + 1 \in 1..n
    BY <1>1, <2>1 DEF n
  <2>3. out[k][1] <= out[i][1] /\ k \in 1..n
    BY <1>5, <2>1 DEF n
  <2>4. out[i + 1][1] = out[i][2] + 1 /\ out[i][1] <= out[i][2]
    BY <1>3, <2>2
  <2>5. /\ out[k][1] \in Nat /\ out[i][1] \in Nat
        /\ out[i][2] \in Nat /\ out[i + 1][1] \in Nat
    BY <1>2, <2>2, <2>3
  <2>5a. PICK u \in Nat, v \in Nat, e \in Nat, u1 \in Nat :
           u = out[k][1] /\ v = out[i][1] /\ e = out[i][2] /\ u1 = out[i + 1][1]
    BY <2>5, Zenon
  <2>5b. u <= v /\ v <= e /\ u1 = e + 1
    BY <2>3, <2>4, <2>5a, Zenon
  <2>6. out[k][1] <= out[i + 1][1]
    <3>1. u <= u1
      BY <2>5b
    <3> QED BY <2>5a, <3>1, Zenon
  <2> QED BY <2>2, <2>6
<1>6. \A d \in 0..(n - k) : d \in A
  <2> HIDE DEF A
  <2> QED BY <1>1, <1>4, <1>5, RangeInduction
<1>7. m - k \in 0..(n - k) /\ k + (m - k) = m
  BY <1>1 DEF n
<1> QED BY <1>6, <1>7

LEMMA TextsAccount == said \in Seq(Dialogue) => ChainAccounts
<1> SUFFICES ASSUME said \in Seq(Dialogue) PROVE ChainAccounts
  OBVIOUS
<1> DEFINE cuts == Segments(said)
           n == Len(cuts)
           all == Summaries(said)
           from == KeptFrom(said)
           kept == SubSeq(all, from, Len(all))
           c == Chain(said)
           closed == ToSet(c.done) \cup ToSet(c.paused) \cup ToSet(c.revoked)
           first == IF said = <<>> THEN 1 ELSE cuts[from][1]
           texts == {said[i].user : i \in (first - 1)..Len(said) \ {0}}
<1>1. Tiles(cuts, Len(said))
  BY SegmentsTile, Zenon
<1>2. /\ cuts \in Seq(Piece) /\ n \in Nat /\ Len(said) \in Nat
      /\ cuts = <<>> <=> Len(said) = 0
      /\ cuts # <<>> => cuts[1][1] = 1 /\ cuts[n][2] = Len(said)
      /\ \A k \in 1..(n - 1) : cuts[k + 1][1] = cuts[k][2] + 1
      /\ \A k \in 1..n : 1 <= cuts[k][1] /\ cuts[k][1] <= cuts[k][2] /\ cuts[k][2] <= Len(said)
  <2> HIDE DEF cuts
  <2>1. cuts \in Seq(Piece) /\ n \in Nat /\ Len(said) \in Nat
    BY <1>1 DEF Tiles
  <2> QED BY <1>1, <2>1, Zenon DEF Tiles
<1>3. all \in Seq(Summary) /\ Noting(all, said, n)
  BY SummariesNote, Zenon
<1>4. from = IF n > MaxSegments THEN n - MaxSegments + 1 ELSE 1
  BY DEF KeptFrom
<1>5. c = Chained(kept)
  BY Zenon DEF Chain, Chained, Summaries, NoThreads
<1> HIDE DEF cuts, all, from
<1>6. Len(all) = n /\ \A j \in 1..n : Notes(all[j], said, cuts[j])
  BY <1>3, Zenon DEF Noting, cuts
<1>7. from \in Nat /\ 1 <= from /\ (n # 0 => from <= n)
  BY <1>2, <1>4, DialogueAssumption
<1>8. /\ kept \in Seq(Summary)
      /\ n # 0 => Len(kept) = n - from + 1
      /\ n # 0 => \A j \in 1..(n - from + 1) : kept[j] = all[j + from - 1]
      /\ n = 0 => Len(kept) = 0
  BY <1>2, <1>3, <1>6, <1>7
<1>8a. \A k \in 1..n : cuts[k][1] \in Nat /\ cuts[k][2] \in Nat
  <2>1. \A k \in 1..n : cuts[k] \in Piece
    BY <1>2
  <2> QED BY <2>1 DEF Piece
<1>8b. n # 0 => said # <<>> /\ from \in 1..n /\ first = cuts[from][1]
  BY <1>2, <1>7
<1>8c. ASSUME NEW m \in from..n PROVE Around(said, cuts[m]) \subseteq texts
  <2>1. n # 0 /\ from \in 1..n /\ m \in 1..n /\ first = cuts[from][1]
    BY <1>2, <1>7, <1>8b
  <2>2. first <= cuts[m][1] /\ cuts[m][2] <= Len(said)
    BY <1>1, <1>2, <2>1, TileOrder
  <2>3. first \in Nat /\ cuts[m][1] \in Nat /\ cuts[m][2] \in Nat
    BY <1>8a, <2>1
  <2> HIDE DEF first
  <2>4. (cuts[m][1] - 1)..cuts[m][2] \ {0} \subseteq (first - 1)..Len(said) \ {0}
    <3>1. PICK a, b : a \in Nat /\ b \in Nat /\ a = cuts[m][1] /\ b = cuts[m][2]
      BY <2>3
    <3>2. (a - 1)..b \ {0} \subseteq (first - 1)..Len(said) \ {0}
      BY <1>2, <2>2, <2>3, <3>1
    <3> QED BY <3>1, <3>2
  <2> QED BY <2>4 DEF Around
<1>9. ASSUME NEW j \in 1..Len(kept) PROVE /\ n # 0 /\ j + from - 1 \in from..n /\ j + from - 1 \in 1..n
                                          /\ kept[j] = all[j + from - 1]
  BY <1>2, <1>7, <1>8
<1> HIDE DEF kept, c, texts
<1>10. \A j \in 1..Len(kept) : Noted(kept[j]) \subseteq texts
  <2> SUFFICES ASSUME NEW j \in 1..Len(kept) PROVE Noted(kept[j]) \subseteq texts
    OBVIOUS
  <2>1. PICK m \in from..n : m \in 1..n /\ kept[j] = all[m]
    BY <1>9
  <2>2. Noted(kept[j]) \subseteq Around(said, cuts[m])
    BY <1>6, <2>1 DEF Notes
  <2> QED BY <1>8c, <2>1, <2>2
<1>11. Apart(c) /\ (Fits(texts, MaxItems) => \A j \in 1..Len(kept) : Noted(kept[j]) \subseteq Noted(c))
  BY <1>5, <1>8, <1>10, ChainedIs
<1>12. Closed(c) = closed /\ Noted(c) = ToSet(c.open) \cup closed
  BY DEF Closed, Noted
<1>13. ToSet(c.open) \cap closed = {}
  BY <1>11, <1>12 DEF Apart
<1> HIDE DEF closed
<1>14. Cardinality(texts) <= MaxItems /\ Cardinality(texts) <= MaxClosed => FitsAll(texts)
  <2> DEFINE where == (first - 1)..Len(said) \ {0}
             f == [i \in where |-> said[i].user]
  <2>1. first \in Nat
    BY <1>2, <1>8a, <1>8b
  <2> HIDE DEF first
  <2>2. IsFiniteSet((first - 1)..Len(said))
    BY <1>2, <2>1, FS_Interval
  <2>3. IsFiniteSet(where)
    BY <2>2, FS_Subset
  <2> HIDE DEF where
  <2>4. f \in Surjection(where, texts)
    BY DEF Surjection, texts, where
  <2>5. IsFiniteSet(texts)
    BY <2>3, <2>4, FS_Surjection
  <2> QED BY <2>5 DEF FitsAll, Fits
<1>15. ASSUME FitsAll(texts), NEW i \in first..Len(said) PROVE said[i].user \in ToSet(c.open) \cup closed
  <2>1. n # 0 /\ cuts # <<>> /\ from \in 1..n /\ first = cuts[from][1]
    <3>1. said # <<>>
      BY <1>2
    <3> QED BY <1>2, <1>8b, <3>1
  <2>2. i \in Nat /\ cuts[from][1] <= i /\ i <= Len(said)
    <3>1. cuts[from][1] \in Nat
      BY <1>8a, <2>1
    <3> HIDE DEF first
    <3> QED BY <1>2, <2>1, <3>1
  <2>3. PICK m \in from..n : cuts[m][1] <= i /\ i <= cuts[m][2]
    BY <1>1, <2>1, <2>2, TileAt
  <2>4. m \in 1..n /\ m - from + 1 \in 1..(n - from + 1) /\ (m - from + 1) + from - 1 = m
    BY <1>2, <1>7, <2>1
  <2>5. i \in cuts[m][1]..cuts[m][2]
    BY <1>8a, <2>2, <2>3, <2>4
  <2>6. FitsAll(Around(said, cuts[m]))
    BY <1>8c, <1>15, FitsLess DEF FitsAll
  <2>7. said[i].user \in Noted(all[m])
    BY <1>6, <2>4, <2>5, <2>6 DEF Notes
  <2>8. kept[m - from + 1] = all[m] /\ m - from + 1 \in 1..Len(kept)
    BY <1>8, <2>1, <2>4
  <2>9. said[i].user \in Noted(c)
    BY <1>11, <1>15, <2>7, <2>8 DEF FitsAll
  <2> QED BY <1>12, <2>9
<1>16. said # <<>> => cuts[1][1] = 1 /\ cuts[n][2] = Len(said)
  <2>1. said # <<>> => Len(said) # 0
    OBVIOUS
  <2> QED BY <1>2, <2>1
<1>17. Cardinality(texts) <= MaxItems /\ Cardinality(texts) <= MaxClosed =>
         \A i \in first..Len(said) : said[i].user \in ToSet(c.open) \cup closed
  BY <1>14, <1>15
<1>18. \A k \in 1..(n - 1) : cuts[k + 1][1] = cuts[k][2] + 1
  BY <1>2
<1> QED BY <1>13, <1>16, <1>17, <1>18, Zenon DEF ChainAccounts, cuts, from, c, closed, texts

-----------------------------------------------------------------------------
(* Dialogue: the session                                                   *)

\* The task of a session is the latest text that names one, and its chain
\* accounts for all that was asked for in the segments it keeps.
THEOREM DialogueIsSafe == ContextSpec => []DialogueSafe
<1> DEFINE Turns0 == said \in Seq(Dialogue)
<1>1. ContextInit => Turns0
  BY DEF ContextInit, DlgInit
<1>2. Turns0 /\ [ContextNext]_contextVars => Turns0'
  <2> SUFFICES ASSUME Turns0, [ContextNext]_contextVars PROVE Turns0'
    OBVIOUS
  <2>1. CASE RunDialogue
    <3>1. PICK t \in Dialogue : said' = Append(said, t)
      BY <2>1 DEF RunDialogue, DlgNext
    <3> QED BY <3>1
  <2>2. CASE RunFrame \/ RunRecall \/ RunShadow \/ RunLineage \/ UNCHANGED contextVars
    <3>1. UNCHANGED said
      BY <2>2, Zenon DEF RunFrame, RunRecall, RunShadow, RunLineage, contextVars
    <3> QED BY <3>1
  <2> QED BY <2>1, <2>2, Zenon DEF ContextNext
<1>3. Turns0 => DialogueSafe
  BY TaskIsNamed, TextsAccount, Zenon DEF DialogueSafe
<1> HIDE DEF Turns0
<1> QED BY <1>1, <1>2, <1>3, PTL DEF ContextSpec

-----------------------------------------------------------------------------
(* The frame: the messages                                                 *)

Words == Texts \cup {"none", "go on"}
AnyText == Words \cup Calls \cup (Words \X Words) \cup SUBSET Words
MessageKinds == {"request", "quote", "weak", "synthetic", "say", "short", "failed", "frame", "capsule", "pending"}
Message == [role : {"user", "assistant", "tool", "system"}, kind : MessageKinds, text : AnyText,
            calls : SUBSET Calls, size : Nat]

\* What each kind of message has for a text.
Worded(m) ==
  /\ m.role = "user" => \/ m.kind \in {"request", "quote"} /\ m.text \in Texts
                        \/ m.kind = "weak" /\ m.text = "go on"
                        \/ m.kind = "synthetic" /\ m.text = "none"
  /\ m.role = "tool" => m.text \in Calls
  /\ m.role = "system" /\ m.kind = "pending" => m.size <= 2

Sound == {m \in Message : Worded(m)}

LEMMA MadeSound ==
  ASSUME NEW role \in {"user", "assistant", "tool", "system"}, NEW what \in MessageKinds, NEW words \in AnyText,
         NEW calls \in SUBSET Calls, NEW size \in Nat, NEW m,
         m = [role |-> role, kind |-> what, text |-> words, calls |-> calls, size |-> size], Worded(m)
  PROVE  m \in Sound
BY DEF Sound, Message

LEMMA CapIs ==
  ASSUME NEW n \in Nat, NEW limit \in Nat
  PROVE  Cap(n, limit) \in Nat /\ Cap(n, limit) <= n /\ Cap(n, limit) <= limit
BY DEF Cap

LEMMA UserSound ==
  ASSUME NEW what \in MessageKinds, NEW words \in Words,
         \/ what \in {"request", "quote"} /\ words \in Texts
         \/ what = "weak" /\ words = "go on"
         \/ what = "synthetic" /\ words = "none"
  PROVE  User(what, words) \in Sound
<1>1. PICK m : m = User(what, words)
  OBVIOUS
<1>2. m = [role |-> "user", kind |-> what, text |-> words, calls |-> {}, size |-> 1]
  BY <1>1 DEF User
<1>3. Worded(m)
  BY <1>2 DEF Worded
<1>4. words \in AnyText /\ 1 \in Nat /\ {} \in SUBSET Calls /\ "user" \in {"user", "assistant", "tool", "system"}
  BY DEF AnyText
<1> QED BY <1>1, <1>2, <1>3, <1>4, MadeSound, Zenon

LEMMA SystemSound ==
  ASSUME NEW what \in {"frame", "capsule"}, NEW words \in AnyText, NEW size \in Nat
  PROVE  System(what, words, size) \in Sound /\ System(what, words, size).role = "system"
         /\ System(what, words, size).size = size
<1>1. PICK m : m = System(what, words, size)
  OBVIOUS
<1>2. m = [role |-> "system", kind |-> what, text |-> words, calls |-> {}, size |-> size]
  BY <1>1 DEF System
<1>3. Worded(m)
  BY <1>2 DEF Worded
<1>4. what \in MessageKinds /\ {} \in SUBSET Calls /\ "system" \in {"user", "assistant", "tool", "system"}
  BY DEF MessageKinds
<1>5. m \in Sound
  BY <1>2, <1>3, <1>4, MadeSound, Zenon
<1> QED BY <1>1, <1>2, <1>5

LEMMA SayingsSound == \A m \in Sayings : m \in Sound
<1>0. "none" \in AnyText /\ Texts \subseteq AnyText /\ Calls \subseteq AnyText /\ Texts \subseteq Words
      /\ "go on" \in Words /\ "none" \in Words
  BY DEF AnyText, Words
<1>1. ASSUME NEW t \in Texts PROVE User("request", t) \in Sound /\ User("quote", t) \in Sound
  BY <1>0, UserSound DEF MessageKinds
<1>2. ASSUME NEW t \in Texts PROVE [User("request", t) EXCEPT !.size = 16] \in Sound
  <2>1. PICK m : m = [User("request", t) EXCEPT !.size = 16]
    OBVIOUS
  <2>2. m = [role |-> "user", kind |-> "request", text |-> t, calls |-> {}, size |-> 16]
    BY <2>1 DEF User
  <2>3. Worded(m)
    BY <2>2 DEF Worded
  <2>4. m \in Sound
    BY <1>0, <2>2, <2>3 DEF Sound, Message, MessageKinds
  <2> QED BY <2>1, <2>4
<1>3. User("weak", "go on") \in Sound /\ User("synthetic", "none") \in Sound
  BY <1>0, UserSound DEF MessageKinds
<1>4. ASSUME NEW calls \in SUBSET Calls, NEW size \in Nat PROVE Assistant(calls, size) \in Sound
  <2>1. PICK m : m = Assistant(calls, size)
    OBVIOUS
  <2>2. m = [role |-> "assistant", kind |-> "say", text |-> "none", calls |-> calls, size |-> size]
    BY <2>1 DEF Assistant
  <2>3. Worded(m)
    BY <2>2 DEF Worded
  <2>4. m \in Sound
    BY <1>0, <2>2, <2>3 DEF Sound, Message, MessageKinds
  <2> QED BY <2>1, <2>4
<1>5. ASSUME NEW what \in {"short", "failed"}, NEW call \in Calls PROVE Tool(what, call) \in Sound
  <2>1. PICK m, size : m = Tool(what, call) /\ size = (IF what = "failed" THEN 40 ELSE 1)
    OBVIOUS
  <2>2. m = [role |-> "tool", kind |-> what, text |-> call, calls |-> {}, size |-> size] /\ size \in Nat
    BY <2>1 DEF Tool
  <2>3. Worded(m)
    BY <2>2 DEF Worded
  <2>4. m \in Sound
    BY <1>0, <2>2, <2>3 DEF Sound, Message, MessageKinds
  <2> QED BY <2>1, <2>4
<1>6. System("pending", "none", 2) \in Sound
  <2>1. PICK m : m = System("pending", "none", 2)
    OBVIOUS
  <2>2. m = [role |-> "system", kind |-> "pending", text |-> "none", calls |-> {}, size |-> 2]
    BY <2>1 DEF System
  <2>3. Worded(m)
    BY <2>2 DEF Worded
  <2>4. m \in Sound
    BY <1>0, <2>2, <2>3 DEF Sound, Message, MessageKinds
  <2> QED BY <2>1, <2>4
<1>7. Assistant({}, 1) \in Sound
  BY <1>4
<1> QED
  <2> DEFINE S1 == {User("request", t) : t \in Texts}
             S2 == {User("quote", t) : t \in Texts}
             S3 == {[User("request", t) EXCEPT !.size = 16] : t \in Texts}
             S4 == {User("weak", "go on"), User("synthetic", "none")}
             S5 == {Assistant({}, 1)}
             S6 == {Assistant({c}, 1) : c \in Calls}
             S7 == {Assistant({c}, 12) : c \in Calls}
             S8 == {Tool("short", c) : c \in Calls}
             S9 == {Tool("failed", c) : c \in Calls}
             S10 == {System("pending", "none", 2)}
  <2>1. Sayings = S1 \cup S2 \cup S3 \cup S4 \cup S5 \cup S6 \cup S7 \cup S8 \cup S9 \cup S10
    BY Zenon DEF Sayings
  <2>2. \A m \in S1 \cup S2 : m \in Sound
    BY <1>1
  <2>3. \A m \in S3 : m \in Sound
    BY <1>2
  <2>4. \A m \in S4 \cup S5 \cup S10 : m \in Sound
    BY <1>3, <1>6, <1>7
  <2>5. \A m \in S6 : m \in Sound
    BY <1>4
  <2>6. \A m \in S7 : m \in Sound
    BY <1>4
  <2>7. \A m \in S8 \cup S9 : m \in Sound
    BY <1>5
  <2> HIDE DEF S1, S2, S3, S4, S5, S6, S7, S8, S9, S10
  <2> QED BY <2>1, <2>2, <2>3, <2>4, <2>5, <2>6, <2>7

LEMMA SoundIs ==
  ASSUME NEW m \in Sound
  PROVE  /\ m.role \in {"user", "assistant", "tool", "system"} /\ m.kind \in MessageKinds /\ m.text \in AnyText
         /\ m.calls \in SUBSET Calls /\ m.size \in Nat /\ Worded(m)
BY DEF Sound, Message

\* A cleaned message is shorter, and the same otherwise.
LEMMA CleanedIs ==
  ASSUME NEW m \in Sound
  PROVE  /\ Cleaned(m) \in Sound /\ Cleaned(m).role = m.role /\ Cleaned(m).kind = m.kind
         /\ Cleaned(m).text = m.text /\ Cleaned(m).size <= 16 /\ Cleaned(m).size <= m.size
<1>1. PICK size : size = (IF m.role = "tool" THEN Cap(m.size, 5) ELSE Cap(m.size, 16))
  OBVIOUS
<1>2. Cleaned(m) = [m EXCEPT !.size = size]
  BY <1>1 DEF Cleaned
<1>3. m.size \in Nat /\ Worded(m) /\ m \in Message
  BY DEF Sound, Message
<1>4. size \in Nat /\ size <= 16 /\ size <= m.size
  BY <1>1, <1>3, CapIs
<1>5. PICK c : c = [m EXCEPT !.size = size]
  OBVIOUS
<1>6. c \in Message /\ c.role = m.role /\ c.kind = m.kind /\ c.text = m.text /\ c.size = size
  BY <1>3, <1>4, <1>5 DEF Message
<1>7. Worded(c)
  <2>1. m.size <= 2 => c.size <= 2
    BY <1>3, <1>4, <1>6
  <2> QED BY <1>3, <1>6, <2>1, Zenon DEF Worded
<1> QED BY <1>2, <1>4, <1>5, <1>6, <1>7 DEF Sound

-----------------------------------------------------------------------------
(* The frame: sizes                                                        *)

SizeRule(h, ms) ==
  /\ h[0] = 0 /\ Size(ms) = h[Len(ms)]
  /\ \A k \in 1..Len(ms) : h[k] = h[k - 1] + ms[k].size

LEMMA SizeSteps ==
  ASSUME NEW ms \in Seq(Sound)
  PROVE  \E h \in [0..Len(ms) -> Nat] : SizeRule(h, ms)
<1> DEFINE n == Len(ms)
           T == Nat
           G == [k \in 1..n |-> [a \in T |-> a + ms[k].size]]
           P(iter) == iter = [v \in SUBSET (1..n) |->
                                IF v = {} THEN 0 ELSE iter[v \ {Max(v)}] + ms[Max(v)].size]
           f == CHOOSE iter : P(iter)
<1>1. n \in Nat /\ 1..n \in SUBSET (0..n) /\ DOMAIN ms = 1..n /\ 0 \in T
  OBVIOUS
<1>2. Size(ms) = f[1..n]
  BY <1>1, Zenon DEF Size, FoldLeft, MapThenFoldSet
<1>3. \A k \in 1..n, a \in T : a + ms[k].size \in T
  <2>1. \A k \in 1..n : ms[k] \in Sound
    OBVIOUS
  <2> QED BY <2>1, SoundIs
<1>4. G \in [1..n -> [T -> T]]
  <2> HIDE DEF T
  <2> QED BY <1>3
<1>5. ASSUME NEW v \in SUBSET (1..n), v # {}, NEW a \in T
      PROVE  G[Max(v)][a] = a + ms[Max(v)].size
  <2>1. Max(v) \in 1..n
    BY <1>1, <1>5, MaxIs
  <2> HIDE DEF T
  <2> QED BY <2>1
<1>6. \E iter : P(iter)
  <2>1. PICK iter \in [SUBSET (1..n) -> T] : FoldRule(1..n, 0, G, iter)
    <3> HIDE DEF G, n, T
    <3> QED BY <1>1, <1>4, FoldExists, Zenon
  <2>2. \A v \in SUBSET (1..n) : iter[v \ {Max(v)}] \in T
    <3> HIDE DEF T, n
    <3> QED BY <2>1
  <2>3. P(iter)
    <3> HIDE DEF G, T
    <3> QED BY <1>5, <2>1, <2>2 DEF FoldRule
  <2> QED BY <2>3
<1>7. P(f)
  BY <1>6, Zenon
<1> HIDE DEF f
<1>8. Folds(f, n, T, 0, G)
  <2> HIDE DEF G, T
  <2> QED BY <1>5, <1>7 DEF Folds
<1>9. PICK h \in [0..n -> T] : Walks(h, n, 0, G) /\ h[n] = f[1..n]
  <2>1. Walked(f, n, T, 0, G)
    <3> HIDE DEF G, T, n
    <3> QED BY <1>1, <1>4, <1>8, FoldWalk, Zenon
  <2> QED BY <2>1, Zenon DEF Walked
<1>10. SizeRule(h, ms)
  <2>1. h[0] = 0 /\ \A k \in 1..n : h[k] = G[k][h[k - 1]]
    BY <1>9, Zenon DEF Walks
  <2>2. \A k \in 1..n : h[k - 1] \in T
    <3> HIDE DEF T
    <3> QED BY <1>1, <1>9
  <2>3. \A k \in 1..n : \A a \in T : G[k][a] = a + ms[k].size
    <3> HIDE DEF T
    <3> QED OBVIOUS
  <2>4. \A k \in 1..n : h[k] = h[k - 1] + ms[k].size
    <3> HIDE DEF T, G
    <3> QED BY <2>1, <2>2, <2>3, Zenon
  <2> HIDE DEF T, G
  <2> QED BY <1>2, <1>9, <2>1, <2>4 DEF SizeRule
<1> QED BY <1>9, <1>10

LEMMA SizeTyped ==
  ASSUME NEW ms \in Seq(Sound)
  PROVE  Size(ms) \in Nat
<1>1. PICK h \in [0..Len(ms) -> Nat] : SizeRule(h, ms)
  BY SizeSteps, Zenon
<1>2. Size(ms) = h[Len(ms)] /\ Len(ms) \in 0..Len(ms)
  BY <1>1 DEF SizeRule
<1> QED BY <1>1, <1>2

LEMMA SizeOfNone == Size(<<>>) = 0
<1>1. <<>> \in Seq(Sound) /\ Len(<<>>) = 0
  OBVIOUS
<1>2. PICK h : SizeRule(h, <<>>)
  BY <1>1, SizeSteps, Zenon
<1> QED BY <1>1, <1>2, Zenon DEF SizeRule

LEMMA SizeAppend ==
  ASSUME NEW ms \in Seq(Sound), NEW m \in Sound
  PROVE  Size(Append(ms, m)) = Size(ms) + m.size
<1> DEFINE n == Len(ms)
<1>1. PICK more : more = Append(ms, m)
  OBVIOUS
<1>2. more \in Seq(Sound) /\ Len(more) = n + 1 /\ n \in Nat /\ more[n + 1] = m /\ \A k \in 1..n : more[k] = ms[k]
  BY <1>1
<1>3. PICK h \in [0..n -> Nat] : SizeRule(h, ms)
  BY SizeSteps, Zenon
<1>4. PICK g \in [0..Len(more) -> Nat] : SizeRule(g, more)
  BY <1>2, SizeSteps, Zenon
<1>5. h[0] = 0 /\ Size(ms) = h[n] /\ \A k \in 1..n : h[k] = h[k - 1] + ms[k].size
  BY <1>3 DEF SizeRule
<1>6. g[0] = 0 /\ Size(more) = g[n + 1] /\ \A k \in 1..(n + 1) : g[k] = g[k - 1] + more[k].size
  BY <1>2, <1>4 DEF SizeRule
<1> HIDE DEF n
<1> DEFINE A == {k \in 0..n : g[k] = h[k]}
<1>7. 0 \in A
  BY <1>2, <1>5, <1>6
<1>8. ASSUME NEW k \in 1..n, k - 1 \in A PROVE k \in A
  <2>1. k \in 0..n /\ k \in 1..(n + 1) /\ g[k - 1] = h[k - 1]
    BY <1>2, <1>8
  <2>2. g[k] = g[k - 1] + ms[k].size /\ h[k] = h[k - 1] + ms[k].size
    BY <1>2, <1>5, <1>6, <2>1
  <2> QED BY <2>1, <2>2
<1>9. \A k \in 0..n : k \in A
  <2> HIDE DEF A
  <2> QED BY <1>2, <1>7, <1>8, RangeInduction
<1>10. g[n] = h[n] /\ (n + 1) - 1 = n /\ n + 1 \in 1..(n + 1)
  BY <1>2, <1>9
<1> QED BY <1>1, <1>2, <1>5, <1>6, <1>10

LEMMA SizeConcat ==
  ASSUME NEW s \in Seq(Sound), NEW t \in Seq(Sound)
  PROVE  Size(s \o t) = Size(s) + Size(t)
<1> DEFINE n == Len(t)
           part0(k) == SubSeq(t, 1, k)
           A == {k \in 0..n : Size(s \o part0(k)) = Size(s) + Size(part0(k))}
<1>1. n \in Nat /\ Size(s) \in Nat /\ \A k \in 1..n : t[k] \in Sound
  BY SizeTyped
<1>2. 0 \in A
  <2>1. part0(0) = <<>> /\ s \o <<>> = s
    OBVIOUS
  <2>2. Size(s \o part0(0)) = Size(s) /\ Size(part0(0)) = 0
    BY <2>1, SizeOfNone, Zenon
  <2>3. Size(s \o part0(0)) = Size(s) + Size(part0(0))
    BY <1>1, <2>2
  <2> HIDE DEF part0
  <2> QED BY <1>1, <2>3
<1>3. ASSUME NEW k \in 1..n, k - 1 \in A PROVE k \in A
  <2>1. PICK a, b, m : a = part0(k - 1) /\ b = part0(k) /\ m = t[k]
    OBVIOUS
  <2>2. m \in Sound /\ k \in 0..n /\ k - 1 \in 0..n
    BY <1>1, <2>1
  <2>3. a \in Seq(Sound) /\ Len(a) = k - 1 /\ \A i \in 1..(k - 1) : a[i] = t[i]
    BY <2>1
  <2>4. b \in Seq(Sound) /\ Len(b) = k /\ \A i \in 1..k : b[i] = t[i]
    BY <2>1
  <2>5. b = Append(a, m)
    <3>1. PICK c : c = Append(a, m)
      OBVIOUS
    <3>2. c \in Seq(Sound) /\ Len(c) = k /\ c[k] = t[k] /\ \A i \in 1..(k - 1) : c[i] = t[i]
      BY <2>1, <2>2, <2>3, <3>1
    <3>3. \A i \in 1..k : c[i] = b[i]
      BY <2>4, <3>2
    <3>4. c = b
      BY <2>4, <3>2, <3>3
    <3> QED BY <3>1, <3>4
  <2>6. s \o b = Append(s \o a, m)
    BY <2>2, <2>3, <2>5
  <2>7. s \o a \in Seq(Sound)
    BY <2>3
  <2>8. Size(b) = Size(a) + m.size
    BY <2>2, <2>3, <2>5, SizeAppend
  <2>9. Size(s \o b) = Size(s \o a) + m.size
    BY <2>2, <2>6, <2>7, SizeAppend
  <2>10. Size(s \o a) = Size(s) + Size(a) /\ Size(a) \in Nat /\ m.size \in Nat
    BY <1>3, <2>1, <2>2, <2>3, SizeTyped, SoundIs
  <2>11. Size(s \o b) = Size(s) + Size(b)
    BY <1>1, <2>8, <2>9, <2>10
  <2> QED BY <2>1, <2>2, <2>11
<1>4. \A k \in 0..n : k \in A
  <2> HIDE DEF A
  <2> QED BY <1>1, <1>2, <1>3, RangeInduction
<1>5. n \in 0..n /\ part0(n) = t
  BY <1>1
<1>6. n \in A
  BY <1>4, <1>5
<1> QED BY <1>5, <1>6

LEMMA SizeOfOne ==
  ASSUME NEW m \in Sound
  PROVE  <<m>> \in Seq(Sound) /\ Size(<<m>>) = m.size
<1>1. <<m>> = Append(<<>>, m) /\ <<>> \in Seq(Sound) /\ <<m>> \in Seq(Sound) /\ m.size \in Nat
  BY SoundIs
<1>2. Size(Append(<<>>, m)) = Size(<<>>) + m.size
  BY <1>1, SizeAppend, Zenon
<1> QED BY <1>1, <1>2, SizeOfNone

\* One element less, as a sequence and as a size.
LEMMA SizeWithout ==
  ASSUME NEW ms \in Seq(Sound), NEW i \in 1..Len(ms)
  PROVE  Size(RemoveAt(ms, i)) <= Size(ms)
<1> DEFINE n == Len(ms)
<1>1. PICK front, back, mid : front = SubSeq(ms, 1, i - 1) /\ back = SubSeq(ms, i + 1, n) /\ mid = ms[i]
  OBVIOUS
<1>2. n \in Nat /\ i \in Nat /\ 1 <= i /\ i <= n /\ mid \in Sound
  BY <1>1
<1>3. front \in Seq(Sound) /\ Len(front) = i - 1 /\ \A k \in 1..(i - 1) : front[k] = ms[k]
  BY <1>1, <1>2
<1>4. back \in Seq(Sound) /\ Len(back) = n - i /\ \A k \in 1..(n - i) : back[k] = ms[k + i]
  BY <1>1, <1>2
<1>5. PICK one : one = Append(front, mid)
  OBVIOUS
<1>6. one \in Seq(Sound) /\ Len(one) = i /\ one[i] = mid /\ \A k \in 1..(i - 1) : one[k] = ms[k]
  BY <1>2, <1>3, <1>5
<1>7. one \o back = ms
  <2>1. PICK all : all = one \o back
    OBVIOUS
  <2>2. all \in Seq(Sound) /\ Len(all) = n
    <3>1. one \in Seq(Sound) /\ back \in Seq(Sound)
      BY <1>4, <1>6
    <3>2. one \o back \in Seq(Sound) /\ Len(one \o back) = Len(one) + Len(back)
      BY <3>1
    <3> QED BY <1>2, <1>4, <1>6, <2>1, <3>2
  <2>3. ASSUME NEW k \in 1..n PROVE all[k] = ms[k]
    <3>1. CASE k <= i
      <4>1. k \in 1..Len(one) /\ all[k] = one[k]
        BY <3>1, <1>2, <1>4, <1>6, <2>1
      <4>2. k = i \/ k \in 1..(i - 1)
        BY <3>1, <1>2
      <4> QED BY <4>1, <4>2, <1>1, <1>6
    <3>2. CASE k > i
      <4>1. all[k] = back[k - i]
        BY <3>2, <1>2, <1>4, <1>6, <2>1
      <4>2. k - i \in 1..(n - i) /\ (k - i) + i = k
        BY <3>2, <1>2
      <4> QED BY <1>4, <4>1, <4>2
    <3> QED BY <3>1, <3>2, <1>2
  <2>4. all = ms
    BY <2>2, <2>3
  <2> QED BY <2>1, <2>4
<1>8. Size(ms) = Size(one) + Size(back) /\ Size(one) = Size(front) + mid.size
  BY <1>2, <1>3, <1>4, <1>5, <1>6, <1>7, SizeConcat, SizeAppend
<1>9. RemoveAt(ms, i) = front \o back
  BY <1>1, Zenon DEF RemoveAt
<1>10. Size(RemoveAt(ms, i)) = Size(front) + Size(back)
  BY <1>3, <1>4, <1>9, SizeConcat
<1>11. Size(front) \in Nat /\ Size(back) \in Nat /\ mid.size \in Nat
  BY <1>2, <1>3, <1>4, SizeTyped, SoundIs
<1> QED BY <1>8, <1>10, <1>11

-----------------------------------------------------------------------------
(* The frame: what is left of a conversation                               *)

\* The walk passes over v and keeps some of it behind the base.
KeepsSome(outs, base, v, n) ==
  outs[0] = base /\ \A k \in 1..n : outs[k] = outs[k - 1] \/ outs[k] = Append(outs[k - 1], v[k])

\* After the base, position i is from position pos[i] of v.
Thinned(out, base, v, n, pos) ==
  /\ Len(base) <= Len(out) /\ Len(out) <= Len(base) + n
  /\ \A i \in 1..Len(base) : out[i] = base[i]
  /\ \A i \in (Len(base) + 1)..Len(out) : pos[i] \in 1..n /\ out[i] = v[pos[i]]
  /\ \A i, j \in (Len(base) + 1)..Len(out) : i < j => pos[i] < pos[j]

LEMMA ThinWalk ==
  ASSUME NEW E, NEW n \in Nat, NEW outs \in [0..n -> Seq(E)], NEW base \in Seq(E), NEW v \in [1..n -> E],
         KeepsSome(outs, base, v, n)
  PROVE  \E pos : Thinned(outs[n], base, v, n, pos)
<1> DEFINE b == Len(base)
           A == {k \in 0..n : \E pos : Thinned(outs[k], base, v, k, pos)}
<1>1. b \in Nat /\ outs[0] = base
  BY DEF KeepsSome
<1>2. 0 \in A
  <2>1. Thinned(base, base, v, 0, <<>>)
    BY <1>1 DEF Thinned
  <2> QED BY <1>1, <2>1
<1>3. ASSUME NEW k \in 1..n, k - 1 \in A PROVE k \in A
  <2>1. k \in Nat /\ k \in 0..n /\ k - 1 \in 0..n /\ v[k] \in E /\ 1..(k - 1) \subseteq 1..k /\ k \in 1..k
    OBVIOUS
  <2>2. PICK old, new : old = outs[k - 1] /\ new = outs[k]
    OBVIOUS
  <2>3. old \in Seq(E) /\ (new = old \/ new = Append(old, v[k]))
    <3>1. old \in Seq(E)
      BY <2>1, <2>2
    <3>2. outs[k] = outs[k - 1] \/ outs[k] = Append(outs[k - 1], v[k])
      BY Zenon DEF KeepsSome
    <3> QED BY <2>2, <3>1, <3>2
  <2>4. PICK pos : Thinned(old, base, v, k - 1, pos)
    BY <1>3, <2>2
  <2> DEFINE l == Len(old)
  <2>5. /\ l \in Nat /\ b <= l /\ l <= b + (k - 1)
        /\ \A i \in 1..b : old[i] = base[i]
        /\ \A i \in (b + 1)..l : pos[i] \in 1..(k - 1) /\ old[i] = v[pos[i]]
        /\ \A i, j \in (b + 1)..l : i < j => pos[i] < pos[j]
    BY <2>3, <2>4 DEF Thinned
  <2>6. CASE new = old
    <3>1. \A i \in (b + 1)..l : pos[i] \in 1..k
      BY <2>1, <2>5
    <3>2. l <= b + k
      BY <1>1, <2>1, <2>5
    <3>3. Thinned(old, base, v, k, pos)
      BY <2>5, <3>1, <3>2 DEF Thinned
    <3> QED BY <2>1, <2>2, <2>6, <3>3
  <2>7. CASE new = Append(old, v[k])
    <3> DEFINE more == [i \in 1..(l + 1) |-> IF i = l + 1 THEN k ELSE pos[i]]
    <3>1. Len(new) = l + 1 /\ new[l + 1] = v[k] /\ \A i \in 1..l : new[i] = old[i]
      BY <2>1, <2>3, <2>7
    <3> HIDE DEF l
    <3>2. b <= l + 1 /\ l + 1 <= b + k
      BY <1>1, <2>1, <2>5
    <3>3. \A i \in 1..b : new[i] = base[i]
      BY <1>1, <2>5, <3>1
    <3>0. b \in Nat /\ l \in Nat /\ b <= l
      BY <1>1, <2>5
    <3>4. \A i \in (b + 1)..(l + 1) : i \in 1..(l + 1) /\ (i = l + 1 \/ i \in (b + 1)..l)
      BY <3>0
    <3>5. more[l + 1] = k /\ \A i \in (b + 1)..l : more[i] = pos[i]
      BY <3>0
    <3> HIDE DEF more
    <3>6. ASSUME NEW i \in (b + 1)..(l + 1) PROVE more[i] \in 1..k /\ new[i] = v[more[i]]
      <4>1. CASE i = l + 1
        BY <4>1, <2>1, <3>1, <3>5
      <4>2. CASE i \in (b + 1)..l
        <5>1. i \in 1..l
          BY <4>2, <1>1, <2>5
        <5> QED BY <4>2, <5>1, <2>1, <2>5, <3>1, <3>5
      <4> QED BY <3>4, <4>1, <4>2
    <3>7. ASSUME NEW i \in (b + 1)..(l + 1), NEW j \in (b + 1)..(l + 1), i < j PROVE more[i] < more[j]
      <4>1. i \in (b + 1)..l
        BY <3>4, <3>7, <1>1, <2>5
      <4>2. more[i] = pos[i] /\ pos[i] \in 1..(k - 1)
        BY <4>1, <2>5, <3>5
      <4>3. CASE j = l + 1
        BY <4>2, <4>3, <2>1, <3>5
      <4>4. CASE j \in (b + 1)..l
        BY <4>1, <4>2, <4>4, <2>5, <3>5, <3>7
      <4> QED BY <3>4, <4>3, <4>4
    <3>8. Thinned(new, base, v, k, more)
      BY <3>1, <3>2, <3>3, <3>6, <3>7 DEF Thinned
    <3> QED BY <2>1, <2>2, <3>8
  <2> QED BY <2>3, <2>6, <2>7
<1>4. \A k \in 0..n : k \in A
  <2> HIDE DEF A
  <2> QED BY <1>2, <1>3, RangeInduction
<1>5. n \in A
  BY <1>4
<1> QED BY <1>5

\* At most three system messages, and n messages after them.
Headed(ms, n) ==
  \E h \in 0..3 : h <= Len(ms) /\ Len(ms) - h <= n /\ \A i \in 1..h : ms[i].role = "system"

\* What is left of a conversation with such a head has one.
LEMMA HeadWalk ==
  ASSUME NEW n \in Nat, NEW outs \in [0..n -> Seq(Sound)], NEW v \in [1..n -> Sound],
         KeepsSome(outs, <<>>, v, n), NEW h \in 0..3, h <= n, \A i \in 1..h : v[i].role = "system", NEW m, n - h <= m,
         m \in Nat
  PROVE  Headed(outs[n], m)
<1> DEFINE Behind(k) == IF k < h THEN 0 ELSE k - h
           A == {k \in 0..n : \E g \in 0..h : /\ g <= Len(outs[k]) /\ Len(outs[k]) - g <= Behind(k)
                                              /\ \A i \in 1..g : outs[k][i].role = "system"}
<1>1. 0 \in A
  <2>1. outs[0] = <<>> /\ Len(outs[0]) = 0
    BY DEF KeepsSome
  <2>2. Behind(0) \in Nat /\ 0 \in 0..h /\ 0 \in 0..n
    OBVIOUS
  <2>3. 0 <= Len(outs[0]) /\ Len(outs[0]) - 0 <= Behind(0) /\ \A i \in 1..0 : outs[0][i].role = "system"
    BY <2>1, <2>2
  <2> HIDE DEF Behind
  <2> QED BY <2>2, <2>3
<1>2. ASSUME NEW k \in 1..n, k - 1 \in A PROVE k \in A
  <2>1. k \in Nat /\ k \in 0..n /\ k - 1 \in 0..n /\ v[k] \in Sound
    OBVIOUS
  <2>2. PICK old, new : old = outs[k - 1] /\ new = outs[k]
    OBVIOUS
  <2>3. old \in Seq(Sound) /\ Len(old) \in Nat /\ (new = old \/ new = Append(old, v[k]))
    <3>1. old \in Seq(Sound)
      BY <2>1, <2>2
    <3>2. outs[k] = outs[k - 1] \/ outs[k] = Append(outs[k - 1], v[k])
      BY Zenon DEF KeepsSome
    <3> QED BY <2>2, <3>1, <3>2
  <2>4. PICK g \in 0..h : g <= Len(old) /\ Len(old) - g <= Behind(k - 1) /\ \A i \in 1..g : old[i].role = "system"
    BY <1>2, <2>2
  <2>5. CASE new = old
    <3>1. Behind(k - 1) <= Behind(k) /\ Behind(k - 1) \in Nat /\ Behind(k) \in Nat
      BY <2>1
    <3>2. Len(new) - g <= Behind(k)
      <4> HIDE DEF Behind
      <4> QED BY <2>3, <2>4, <2>5, <3>1
    <3> HIDE DEF Behind
    <3> QED BY <2>1, <2>2, <2>4, <2>5, <3>2
  <2>6. CASE new = Append(old, v[k])
    <3>1. Len(new) = Len(old) + 1 /\ new[Len(old) + 1] = v[k] /\ \A i \in 1..Len(old) : new[i] = old[i]
      BY <2>1, <2>3, <2>6
    <3>2. CASE k <= h
      <4>1. v[k].role = "system" /\ Behind(k - 1) = 0 /\ Behind(k) = 0
        BY <2>1, <3>2
      <4>2. Len(old) = g
        <5> HIDE DEF Behind
        <5> QED BY <2>3, <2>4, <4>1
      <4>3. g + 1 <= h
        <5> DEFINE B == {i \in 0..n : Len(outs[i]) <= i}
        <5>1. 0 \in B
          BY DEF KeepsSome
        <5>2. ASSUME NEW i \in 1..n, i - 1 \in B PROVE i \in B
          <6>1. i \in Nat /\ i \in 0..n /\ i - 1 \in 0..n /\ v[i] \in Sound
            OBVIOUS
          <6>2. PICK x, y : x = outs[i - 1] /\ y = outs[i]
            OBVIOUS
          <6>3. x \in Seq(Sound) /\ Len(x) \in Nat /\ (y = x \/ y = Append(x, v[i])) /\ Len(x) <= i - 1
            <7>1. x \in Seq(Sound)
              BY <6>1, <6>2
            <7>2. outs[i] = outs[i - 1] \/ outs[i] = Append(outs[i - 1], v[i])
              BY Zenon DEF KeepsSome
            <7> QED BY <5>2, <6>2, <7>1, <7>2
          <6>4. Len(y) <= i
            BY <6>1, <6>3
          <6> QED BY <6>1, <6>2, <6>4
        <5>3. \A i \in 0..n : i \in B
          <6> HIDE DEF B
          <6> QED BY <5>1, <5>2, RangeInduction
        <5>4. Len(old) <= k - 1
          BY <2>1, <2>2, <5>3
        <5> QED BY <2>1, <3>2, <4>2, <5>4
      <4>4. \A i \in 1..(g + 1) : new[i].role = "system"
        <5>1. \A i \in 1..(g + 1) : i = g + 1 \/ i \in 1..g
          OBVIOUS
        <5> QED BY <2>4, <3>1, <4>1, <4>2, <5>1
      <4>5. g + 1 \in 0..h /\ g + 1 <= Len(new) /\ Len(new) - (g + 1) <= Behind(k)
        <5> HIDE DEF Behind
        <5> QED BY <3>1, <4>1, <4>2, <4>3
      <4> HIDE DEF Behind
      <4> QED BY <2>1, <2>2, <4>4, <4>5
    <3>3. CASE ~(k <= h)
      <4>1. Behind(k) = Behind(k - 1) + 1 /\ Behind(k - 1) \in Nat
        BY <2>1, <3>3
      <4>2. g <= Len(new) /\ Len(new) - g <= Behind(k)
        <5> HIDE DEF Behind
        <5> QED BY <2>3, <2>4, <3>1, <4>1
      <4>3. \A i \in 1..g : new[i].role = "system"
        <5>1. \A i \in 1..g : i \in 1..Len(old)
          BY <2>3, <2>4
        <5> QED BY <2>4, <3>1, <5>1
      <4> HIDE DEF Behind
      <4> QED BY <2>1, <2>2, <4>2, <4>3
    <3> QED BY <3>2, <3>3
  <2> QED BY <2>3, <2>5, <2>6
<1>3. \A k \in 0..n : k \in A
  <2> HIDE DEF A
  <2> QED BY <1>1, <1>2, RangeInduction
<1>4. n \in A /\ Behind(n) = n - h
  BY <1>3
<1>5. PICK g \in 0..h : /\ g <= Len(outs[n]) /\ Len(outs[n]) - g <= n - h
                        /\ \A i \in 1..g : outs[n][i].role = "system"
  BY <1>4
<1>6. Len(outs[n]) \in Nat /\ g \in 0..3 /\ Len(outs[n]) - g <= m
  BY <1>5
<1> QED BY <1>5, <1>6 DEF Headed

-----------------------------------------------------------------------------
(* The frame: the sanitizer and the latest user message                    *)

Cleaning == [open : SUBSET Calls, out : Seq(Sound)]
NoneOpen == [open |-> {}, out |-> <<>>]
SanitizeStep(acc, m) ==
  CASE m.role = "assistant" -> [open |-> m.calls, out |-> Append(acc.out, m)]
    [] m.role = "tool" /\ m.text \in acc.open -> [open |-> acc.open \ {m.text}, out |-> Append(acc.out, m)]
    [] m.role = "tool" /\ m.text \notin acc.open -> acc
    [] OTHER -> [open |-> {}, out |-> Append(acc.out, m)]
Sanitizing(ms) == FoldLeft(SanitizeStep, NoneOpen, ms)

LEMMA SanitizeStepIs ==
  ASSUME NEW acc \in Cleaning, NEW m \in Sound
  PROVE  /\ SanitizeStep(acc, m) \in Cleaning
         /\ SanitizeStep(acc, m).out = acc.out \/ SanitizeStep(acc, m).out = Append(acc.out, m)
<1>1. acc.open \in SUBSET Calls /\ acc.out \in Seq(Sound)
  BY DEF Cleaning
<1>2. m.calls \in SUBSET Calls /\ m.role \in {"user", "assistant", "tool", "system"}
  BY SoundIs
<1>3. PICK more : more = Append(acc.out, m)
  OBVIOUS
<1>4. more \in Seq(Sound)
  BY <1>1, <1>3
<1>5. CASE m.role = "assistant"
  <2>1. SanitizeStep(acc, m) = [open |-> m.calls, out |-> more]
    BY <1>3, <1>5 DEF SanitizeStep
  <2> QED BY <1>2, <1>3, <1>4, <2>1 DEF Cleaning
<1>6. CASE m.role = "tool" /\ m.text \in acc.open
  <2>1. SanitizeStep(acc, m) = [open |-> acc.open \ {m.text}, out |-> more]
    BY <1>3, <1>6 DEF SanitizeStep
  <2>2. acc.open \ {m.text} \in SUBSET Calls
    BY <1>1
  <2> QED BY <1>3, <1>4, <2>1, <2>2 DEF Cleaning
<1>7. CASE m.role = "tool" /\ m.text \notin acc.open
  BY <1>7 DEF SanitizeStep
<1>8. CASE m.role \in {"user", "system"}
  <2>1. SanitizeStep(acc, m) = [open |-> {}, out |-> more]
    BY <1>3, <1>8 DEF SanitizeStep
  <2>2. {} \in SUBSET Calls
    OBVIOUS
  <2> QED BY <1>3, <1>4, <2>1, <2>2 DEF Cleaning
<1> QED BY <1>2, <1>5, <1>6, <1>7, <1>8

SanitizeRule(h, ms) ==
  /\ h[0] = NoneOpen /\ Sanitizing(ms) = h[Len(ms)]
  /\ \A k \in 1..Len(ms) : h[k] = SanitizeStep(h[k - 1], ms[k])

LEMMA SanitizeSteps ==
  ASSUME NEW ms \in Seq(Sound)
  PROVE  \E h \in [0..Len(ms) -> Cleaning] : SanitizeRule(h, ms)
<1> DEFINE n == Len(ms)
           T == Cleaning
           G == [k \in 1..n |-> [a \in T |-> SanitizeStep(a, ms[k])]]
           P(iter) == iter = [v \in SUBSET (1..n) |->
                                IF v = {} THEN NoneOpen ELSE SanitizeStep(iter[v \ {Max(v)}], ms[Max(v)])]
           f == CHOOSE iter : P(iter)
<1>1. n \in Nat /\ 1..n \in SUBSET (0..n) /\ DOMAIN ms = 1..n /\ NoneOpen \in T
  BY DEF NoneOpen, Cleaning
<1>2. Sanitizing(ms) = f[1..n]
  BY <1>1, Zenon DEF Sanitizing, FoldLeft, MapThenFoldSet
<1>3. \A k \in 1..n, a \in T : SanitizeStep(a, ms[k]) \in T
  <2>1. \A k \in 1..n : ms[k] \in Sound
    OBVIOUS
  <2> QED BY <2>1, SanitizeStepIs
<1>4. G \in [1..n -> [T -> T]]
  <2> HIDE DEF T
  <2> QED BY <1>3
<1>5. ASSUME NEW v \in SUBSET (1..n), v # {}, NEW a \in T
      PROVE  G[Max(v)][a] = SanitizeStep(a, ms[Max(v)])
  <2>1. Max(v) \in 1..n
    BY <1>1, <1>5, MaxIs
  <2> HIDE DEF T
  <2> QED BY <2>1
<1>6. \E iter : P(iter)
  <2>1. PICK iter \in [SUBSET (1..n) -> T] : FoldRule(1..n, NoneOpen, G, iter)
    <3> HIDE DEF G, n, T
    <3> QED BY <1>1, <1>4, FoldExists, Zenon
  <2>2. \A v \in SUBSET (1..n) : iter[v \ {Max(v)}] \in T
    <3> HIDE DEF T, n
    <3> QED BY <2>1
  <2>3. P(iter)
    <3> HIDE DEF G, T
    <3> QED BY <1>5, <2>1, <2>2 DEF FoldRule
  <2> QED BY <2>3
<1>7. P(f)
  BY <1>6, Zenon
<1> HIDE DEF f
<1>8. Folds(f, n, T, NoneOpen, G)
  <2> HIDE DEF G, T
  <2> QED BY <1>5, <1>7 DEF Folds
<1>9. PICK h \in [0..n -> T] : Walks(h, n, NoneOpen, G) /\ h[n] = f[1..n]
  <2>1. Walked(f, n, T, NoneOpen, G)
    <3> HIDE DEF G, T, n
    <3> QED BY <1>1, <1>4, <1>8, FoldWalk, Zenon
  <2> QED BY <2>1, Zenon DEF Walked
<1>10. SanitizeRule(h, ms)
  <2>1. h[0] = NoneOpen /\ \A k \in 1..n : h[k] = G[k][h[k - 1]]
    BY <1>9, Zenon DEF Walks
  <2>2. \A k \in 1..n : h[k - 1] \in T
    <3> HIDE DEF T
    <3> QED BY <1>1, <1>9
  <2>3. \A k \in 1..n : \A a \in T : G[k][a] = SanitizeStep(a, ms[k])
    <3> HIDE DEF T
    <3> QED OBVIOUS
  <2>4. \A k \in 1..n : h[k] = SanitizeStep(h[k - 1], ms[k])
    <3> HIDE DEF T, G
    <3> QED BY <2>1, <2>2, <2>3, Zenon
  <2> HIDE DEF T, G
  <2> QED BY <1>2, <1>9, <2>1, <2>4 DEF SanitizeRule
<1> QED BY <1>9, <1>10

LEMMA SanitizeIs ==
  ASSUME NEW ms \in Seq(Sound)
  PROVE  /\ Sanitize(ms) \in Seq(Sound) /\ Len(Sanitize(ms)) <= Len(ms)
         /\ \A n \in Nat : Headed(ms, n) => Headed(Sanitize(ms), n)
<1> DEFINE n == Len(ms)
<1>1. n \in Nat /\ ms \in [1..n -> Sound]
  OBVIOUS
<1>2. PICK h \in [0..n -> Cleaning] : SanitizeRule(h, ms)
  BY SanitizeSteps, Zenon
<1>3. h[0] = NoneOpen /\ Sanitizing(ms) = h[n] /\ \A k \in 1..n : h[k] = SanitizeStep(h[k - 1], ms[k])
  BY <1>2 DEF SanitizeRule
<1>4. Sanitize(ms) = Sanitizing(ms).out
  BY Zenon DEF Sanitize, Sanitizing, SanitizeStep, NoneOpen
<1> HIDE DEF n
<1> DEFINE outs == [k \in 0..n |-> h[k].out]
<1>5. outs \in [0..n -> Seq(Sound)] /\ \A k \in 0..n : outs[k] = h[k].out
  <2>1. \A k \in 0..n : h[k] \in Cleaning
    BY <1>2
  <2> QED BY <2>1 DEF Cleaning
<1>6. KeepsSome(outs, <<>>, ms, n)
  <2>1. 0 \in 0..n /\ outs[0] = <<>>
    BY <1>1, <1>3, <1>5 DEF NoneOpen
  <2>2. ASSUME NEW k \in 1..n PROVE outs[k] = outs[k - 1] \/ outs[k] = Append(outs[k - 1], ms[k])
    <3>1. k \in 0..n /\ k - 1 \in 0..n /\ h[k - 1] \in Cleaning /\ ms[k] \in Sound
      BY <1>1, <1>2
    <3>2. PICK before : before = h[k - 1]
      OBVIOUS
    <3>3. SanitizeStep(before, ms[k]).out = before.out \/ SanitizeStep(before, ms[k]).out = Append(before.out, ms[k])
      BY <3>1, <3>2, SanitizeStepIs, Zenon
    <3>4. outs[k] = SanitizeStep(before, ms[k]).out /\ outs[k - 1] = before.out
      BY <1>3, <1>5, <3>1, <3>2
    <3> QED BY <3>3, <3>4
  <2> HIDE DEF outs
  <2> QED BY <2>1, <2>2, Zenon DEF KeepsSome
<1>7. outs[n] = Sanitize(ms) /\ n \in 0..n
  BY <1>1, <1>3, <1>4, <1>5
<1> HIDE DEF outs
<1>8. outs[n] \in Seq(Sound)
  BY <1>5, <1>7
<1>9. Len(outs[n]) <= n
  <2>1. <<>> \in Seq(Sound) /\ Len(<<>>) = 0
    OBVIOUS
  <2>2. PICK pos : Thinned(outs[n], <<>>, ms, n, pos)
    BY <1>1, <1>5, <1>6, <2>1, ThinWalk, Zenon
  <2> QED BY <1>1, <2>1, <2>2 DEF Thinned
<1>10. ASSUME NEW m \in Nat, Headed(ms, m) PROVE Headed(outs[n], m)
  <2>1. PICK g \in 0..3 : g <= n /\ n - g <= m /\ \A i \in 1..g : ms[i].role = "system"
    BY <1>10 DEF Headed, n
  <2> QED BY <1>1, <1>5, <1>6, <2>1, HeadWalk, Zenon
<1> QED BY <1>7, <1>8, <1>9, <1>10 DEF n

LEMMA LatestIs ==
  ASSUME NEW ms \in Seq(Sound)
  PROVE  /\ LatestUser(ms) \in 0..Len(ms)
         /\ LatestUser(ms) # 0 => Real(ms[LatestUser(ms)])
         /\ LatestUser(ms) = 0 => \A i \in 1..Len(ms) : ~Real(ms[i])
<1> DEFINE users == {i \in 1..Len(ms) : Real(ms[i])}
<1>1. LatestUser(ms) = IF users # {} THEN Max(users) ELSE 0
  BY DEF LatestUser, SelectLastInSeq
<1>2. Len(ms) \in Nat /\ users \in SUBSET (0..Len(ms))
  OBVIOUS
<1>3. users # {} => Max(users) \in users
  <2> HIDE DEF users
  <2> QED BY <1>2, MaxIs
<1>4. \A i \in users : i \in 1..Len(ms) /\ i # 0 /\ i \in 0..Len(ms)
  BY <1>2
<1> QED BY <1>1, <1>2, <1>3, <1>4

LEMMA FailedAreCalls ==
  ASSUME NEW ms \in Seq(Sound)
  PROVE  Failed(ms) \subseteq Calls
<1>1. ASSUME NEW i \in 1..Len(ms), ms[i].role = "tool" PROVE ms[i].text \in Calls
  <2>1. ms[i] \in Sound
    OBVIOUS
  <2>2. Worded(ms[i])
    BY <2>1, SoundIs
  <2> QED BY <1>1, <2>2 DEF Worded
<1> QED BY <1>1 DEF Failed

-----------------------------------------------------------------------------
(* The frame: the request                                                  *)

Asking == [latest : Words, asked : Words]
NothingAsked == [latest |-> "none", asked |-> "none"]
ReadStep(acc, m) ==
  IF m.role # "user" \/ Synthetic(m) THEN acc
  ELSE [latest |-> m.text, asked |-> IF m.kind = "weak" THEN acc.asked ELSE m.text]

LEMMA UserWords ==
  ASSUME NEW m \in Sound, m.role = "user"
  PROVE  /\ m.kind \in {"request", "quote", "weak", "synthetic"} /\ m.text \in Words
         /\ m.kind \in {"request", "quote"} => m.text # "none"
         /\ m.kind = "weak" => m.text = "go on"
<1>1. Worded(m)
  BY SoundIs
<1> QED BY <1>1, FrameAssumption DEF Worded, Words

LEMMA ReadStepIs ==
  ASSUME NEW acc \in Asking, NEW m \in Sound
  PROVE  ReadStep(acc, m) \in Asking
<1>1. CASE m.role # "user" \/ Synthetic(m)
  BY <1>1 DEF ReadStep
<1>2. CASE ~(m.role # "user" \/ Synthetic(m))
  <2>1. PICK asked : asked = (IF m.kind = "weak" THEN acc.asked ELSE m.text)
    OBVIOUS
  <2>2. m.text \in Words
    BY <1>2, UserWords
  <2>3. asked \in Words
    BY <2>1, <2>2 DEF Asking
  <2>4. ReadStep(acc, m) = [latest |-> m.text, asked |-> asked]
    BY <1>2, <2>1 DEF ReadStep
  <2> QED BY <2>2, <2>3, <2>4 DEF Asking
<1> QED BY <1>1, <1>2

ReadRule(h, ms) ==
  /\ h[0] = NothingAsked /\ ReadRequest(ms) = h[Len(ms)]
  /\ \A k \in 1..Len(ms) : h[k] = ReadStep(h[k - 1], ms[k])

LEMMA ReadSteps ==
  ASSUME NEW ms \in Seq(Sound)
  PROVE  \E h \in [0..Len(ms) -> Asking] : ReadRule(h, ms)
<1> DEFINE n == Len(ms)
           T == Asking
           G == [k \in 1..n |-> [a \in T |-> ReadStep(a, ms[k])]]
           P(iter) == iter = [v \in SUBSET (1..n) |->
                                IF v = {} THEN NothingAsked ELSE ReadStep(iter[v \ {Max(v)}], ms[Max(v)])]
           f == CHOOSE iter : P(iter)
<1>1. n \in Nat /\ 1..n \in SUBSET (0..n) /\ DOMAIN ms = 1..n /\ NothingAsked \in T
  BY DEF NothingAsked, Asking, Words
<1>2. ReadRequest(ms) = f[1..n]
  BY <1>1, Zenon DEF ReadRequest, FoldLeft, MapThenFoldSet, ReadStep, NothingAsked
<1>3. \A k \in 1..n, a \in T : ReadStep(a, ms[k]) \in T
  <2>1. \A k \in 1..n : ms[k] \in Sound
    OBVIOUS
  <2> QED BY <2>1, ReadStepIs
<1>4. G \in [1..n -> [T -> T]]
  <2> HIDE DEF T
  <2> QED BY <1>3
<1>5. ASSUME NEW v \in SUBSET (1..n), v # {}, NEW a \in T
      PROVE  G[Max(v)][a] = ReadStep(a, ms[Max(v)])
  <2>1. Max(v) \in 1..n
    BY <1>1, <1>5, MaxIs
  <2> HIDE DEF T
  <2> QED BY <2>1
<1>6. \E iter : P(iter)
  <2>1. PICK iter \in [SUBSET (1..n) -> T] : FoldRule(1..n, NothingAsked, G, iter)
    <3> HIDE DEF G, n, T
    <3> QED BY <1>1, <1>4, FoldExists, Zenon
  <2>2. \A v \in SUBSET (1..n) : iter[v \ {Max(v)}] \in T
    <3> HIDE DEF T, n
    <3> QED BY <2>1
  <2>3. P(iter)
    <3> HIDE DEF G, T
    <3> QED BY <1>5, <2>1, <2>2 DEF FoldRule
  <2> QED BY <2>3
<1>7. P(f)
  BY <1>6, Zenon
<1> HIDE DEF f
<1>8. Folds(f, n, T, NothingAsked, G)
  <2> HIDE DEF G, T
  <2> QED BY <1>5, <1>7 DEF Folds
<1>9. PICK h \in [0..n -> T] : Walks(h, n, NothingAsked, G) /\ h[n] = f[1..n]
  <2>1. Walked(f, n, T, NothingAsked, G)
    <3> HIDE DEF G, T, n
    <3> QED BY <1>1, <1>4, <1>8, FoldWalk, Zenon
  <2> QED BY <2>1, Zenon DEF Walked
<1>10. ReadRule(h, ms)
  <2>1. h[0] = NothingAsked /\ \A k \in 1..n : h[k] = G[k][h[k - 1]]
    BY <1>9, Zenon DEF Walks
  <2>2. \A k \in 1..n : h[k - 1] \in T
    <3> HIDE DEF T
    <3> QED BY <1>1, <1>9
  <2>3. \A k \in 1..n : \A a \in T : G[k][a] = ReadStep(a, ms[k])
    <3> HIDE DEF T
    <3> QED OBVIOUS
  <2>4. \A k \in 1..n : h[k] = ReadStep(h[k - 1], ms[k])
    <3> HIDE DEF T, G
    <3> QED BY <2>1, <2>2, <2>3, Zenon
  <2> HIDE DEF T, G
  <2> QED BY <1>2, <1>9, <2>1, <2>4 DEF ReadRule
<1> QED BY <1>9, <1>10

LEMMA FrameIs ==
  ASSUME NEW ms \in Seq(Sound)
  PROVE  Frame(ms) \in Sound /\ Frame(ms).role = "system" /\ Frame(ms).size = 3
<1>1. PICK h \in [0..Len(ms) -> Asking] : ReadRule(h, ms)
  BY ReadSteps, Zenon
<1>2. Len(ms) \in 0..Len(ms) /\ ReadRequest(ms) = h[Len(ms)]
  BY <1>1 DEF ReadRule
<1>3. ReadRequest(ms) \in Asking
  BY <1>1, <1>2
<1>4. ReadRequest(ms).latest \in Words /\ Requested(ms) \in Words
  BY <1>3 DEF Asking, Requested
<1>5. PICK words : words = <<ReadRequest(ms).latest, Requested(ms)>>
  OBVIOUS
<1>6. words \in AnyText
  BY <1>4, <1>5 DEF AnyText
<1>7. System("frame", words, 3) \in Sound /\ System("frame", words, 3).role = "system" /\ System("frame", words, 3).size = 3
  BY <1>6, SystemSound
<1> QED BY <1>5, <1>7 DEF Frame

SaidAt(ms, i) == ms[i].role = "user" /\ ms[i].kind \in {"request", "quote"}
WeakAt(ms, i) == ms[i].role = "user" /\ ms[i].kind = "weak"

\* What the first k messages ask for.
AskedBy(acc, ms, k) ==
  \/ \E m \in 1..k : SaidAt(ms, m) /\ (\A j \in 1..k : SaidAt(ms, j) => j <= m) /\ acc.asked = ms[m].text
  \/ /\ \A j \in 1..k : ~SaidAt(ms, j)
     /\ acc.asked = "none"
     /\ acc.latest = IF \E j \in 1..k : WeakAt(ms, j) THEN "go on" ELSE "none"

LEMMA RequestRead ==
  ASSUME NEW ms \in Seq(Sound)
  PROVE  AskedBy(ReadRequest(ms), ms, Len(ms))
<1> DEFINE n == Len(ms)
<1>1. n \in Nat /\ \A k \in 1..n : ms[k] \in Sound
  OBVIOUS
<1>2. PICK h \in [0..n -> Asking] : ReadRule(h, ms)
  BY ReadSteps, Zenon
<1>3. h[0] = NothingAsked /\ ReadRequest(ms) = h[n] /\ \A k \in 1..n : h[k] = ReadStep(h[k - 1], ms[k])
  BY <1>2 DEF ReadRule
<1> HIDE DEF n
<1> DEFINE A == {k \in 0..n : AskedBy(h[k], ms, k)}
<1>4. 0 \in A
  <2>1. 1..0 = {} /\ h[0].asked = "none" /\ h[0].latest = "none"
    BY <1>3 DEF NothingAsked
  <2>2. AskedBy(h[0], ms, 0)
    BY <2>1 DEF AskedBy
  <2> QED BY <1>1, <2>2
<1>5. ASSUME NEW k \in 1..n, k - 1 \in A PROVE k \in A
  <2>1. k \in Nat /\ k \in 0..n /\ k - 1 \in 0..n /\ ms[k] \in Sound /\ k \in 1..k /\ 1..(k - 1) \subseteq 1..k
    BY <1>1
  <2>2. \A j \in 1..k : j = k \/ j \in 1..(k - 1)
    BY <2>1
  <2>3. PICK old, new : old = h[k - 1] /\ new = h[k]
    OBVIOUS
  <2>4. AskedBy(old, ms, k - 1) /\ new = ReadStep(old, ms[k])
    BY <1>3, <1>5, <2>3
  <2>5. CASE SaidAt(ms, k)
    <3>1. new.asked = ms[k].text
      BY <2>4, <2>5 DEF SaidAt, ReadStep, Synthetic
    <3>2. \A j \in 1..k : j <= k
      BY <2>1
    <3>3. AskedBy(new, ms, k)
      BY <2>1, <2>5, <3>1, <3>2 DEF AskedBy
    <3> QED BY <2>1, <2>3, <3>3
  <2>6. CASE ~SaidAt(ms, k)
    <3>1. new.asked = old.asked
      <4>1. ms[k].role = "user" => ms[k].kind \in {"weak", "synthetic"}
        BY <2>1, <2>6, UserWords DEF SaidAt
      <4> QED BY <2>4, <4>1 DEF ReadStep, Synthetic
    <3>2. new.latest = IF WeakAt(ms, k) THEN "go on" ELSE old.latest
      <4>1. ms[k].role = "user" => ms[k].kind \in {"weak", "synthetic"} /\ (ms[k].kind = "weak" => ms[k].text = "go on")
        BY <2>1, <2>6, UserWords DEF SaidAt
      <4>2. CASE WeakAt(ms, k)
        BY <2>4, <4>1, <4>2 DEF ReadStep, Synthetic, WeakAt
      <4>3. CASE ~WeakAt(ms, k)
        BY <2>4, <4>1, <4>3 DEF ReadStep, Synthetic, WeakAt
      <4> QED BY <4>2, <4>3
    <3>3. CASE \E m \in 1..(k - 1) : SaidAt(ms, m) /\ (\A j \in 1..(k - 1) : SaidAt(ms, j) => j <= m) /\ old.asked = ms[m].text
      <4>1. PICK m \in 1..(k - 1) : SaidAt(ms, m) /\ (\A j \in 1..(k - 1) : SaidAt(ms, j) => j <= m) /\ old.asked = ms[m].text
        BY <3>3
      <4>2. \A j \in 1..k : SaidAt(ms, j) => j <= m
        BY <2>2, <2>6, <4>1
      <4>3. AskedBy(new, ms, k)
        BY <2>1, <3>1, <4>1, <4>2 DEF AskedBy
      <4> QED BY <2>1, <2>3, <4>3
    <3>4. CASE /\ \A j \in 1..(k - 1) : ~SaidAt(ms, j)
               /\ old.asked = "none"
               /\ old.latest = IF \E j \in 1..(k - 1) : WeakAt(ms, j) THEN "go on" ELSE "none"
      <4>1. \A j \in 1..k : ~SaidAt(ms, j)
        BY <2>2, <2>6, <3>4
      <4>2. (\E j \in 1..k : WeakAt(ms, j)) <=> WeakAt(ms, k) \/ \E j \in 1..(k - 1) : WeakAt(ms, j)
        BY <2>1, <2>2
      <4>3. new.latest = IF \E j \in 1..k : WeakAt(ms, j) THEN "go on" ELSE "none"
        BY <3>2, <3>4, <4>2
      <4>4. AskedBy(new, ms, k)
        BY <3>1, <3>4, <4>1, <4>3 DEF AskedBy
      <4> QED BY <2>1, <2>3, <4>4
    <3> QED BY <2>4, <3>3, <3>4 DEF AskedBy
  <2> QED BY <2>5, <2>6
<1>6. \A k \in 0..n : k \in A
  <2> HIDE DEF A
  <2> QED BY <1>1, <1>4, <1>5, RangeInduction
<1>7. n \in 0..n /\ n \in A
  BY <1>1, <1>6
<1> QED BY <1>3, <1>7 DEF n

LEMMA RequestIsRead == msgs \in Seq(Sound) => RequestIsTheUsers
<1> SUFFICES ASSUME msgs \in Seq(Sound) PROVE RequestIsTheUsers
  OBVIOUS
<1> DEFINE by(kinds) == {m \in ToSet(msgs) : m.role = "user" /\ m.kind \in kinds}
           requests == Only(msgs, by({"request", "quote"}))
           n == Len(msgs)
           r == ReadRequest(msgs)
<1>1. n \in Nat /\ DOMAIN msgs = 1..n /\ \A k \in 1..n : msgs[k] \in Sound
  OBVIOUS
<1>2. AskedBy(r, msgs, n)
  BY RequestRead, Zenon
<1>3. \A k \in 1..n : SaidAt(msgs, k) <=> msgs[k] \in by({"request", "quote"})
  BY <1>1 DEF SaidAt, ToSet
<1>4. by({"weak"}) = {} <=> ~\E j \in 1..n : WeakAt(msgs, j)
  BY <1>1 DEF WeakAt, ToSet
<1>5. Requested(msgs) = IF r.asked = "none" THEN r.latest ELSE r.asked
  BY DEF Requested
<1> HIDE DEF r, by
<1>6. PICK out : out = requests
  OBVIOUS
<1>7. out \in Seq(Sound)
  BY <1>6, OnlyIs
<1>8. PICK pos : Picks(out, msgs, by({"request", "quote"}), n, pos)
  BY <1>6, OnlyIs
<1> HIDE DEF requests
<1>9. /\ Len(out) \in Nat /\ out # <<>> <=> Len(out) # 0
      /\ \A i \in 1..Len(out) : pos[i] \in 1..n /\ out[i] = msgs[pos[i]] /\ SaidAt(msgs, pos[i])
      /\ \A i, j \in 1..Len(out) : i < j => pos[i] < pos[j]
      /\ \A k \in 1..n : SaidAt(msgs, k) => \E i \in 1..Len(out) : pos[i] = k
  <2>1. Len(out) \in Nat /\ (out # <<>> <=> Len(out) # 0)
    BY <1>7
  <2>2. \A i \in 1..Len(out) : pos[i] \in 1..n /\ out[i] = msgs[pos[i]] /\ msgs[pos[i]] \in by({"request", "quote"})
    BY <1>8 DEF Picks
  <2>3. \A i, j \in 1..Len(out) : i < j => pos[i] < pos[j]
    BY <1>8, Zenon DEF Picks
  <2>4. \A k \in 1..n : msgs[k] \in by({"request", "quote"}) => \E i \in 1..Len(out) : pos[i] = k
    BY <1>8, Zenon DEF Picks
  <2> QED BY <1>3, <2>1, <2>2, <2>3, <2>4
<1>10. ASSUME out # <<>> PROVE Requested(msgs) = out[Len(out)].text
  <2>1. PICK l : l = Len(out)
    OBVIOUS
  <2>2. l \in 1..l /\ l \in Nat /\ pos[l] \in 1..n /\ out[l] = msgs[pos[l]] /\ SaidAt(msgs, pos[l])
    BY <1>9, <1>10, <2>1
  <2>3. PICK m \in 1..n : SaidAt(msgs, m) /\ (\A j \in 1..n : SaidAt(msgs, j) => j <= m) /\ r.asked = msgs[m].text
    BY <1>2, <2>2 DEF AskedBy
  <2>4. PICK i \in 1..l : pos[i] = m
    BY <1>9, <2>1, <2>3
  <2>5. i < l => pos[i] < pos[l]
    BY <1>9, <2>1, <2>2
  <2>6. pos[l] = m
    BY <2>2, <2>3, <2>4, <2>5
  <2>7. msgs[m] \in Sound /\ msgs[m].text # "none"
    BY <1>1, <2>3, UserWords DEF SaidAt
  <2> QED BY <1>5, <2>1, <2>2, <2>3, <2>6, <2>7
<1>11. ASSUME out = <<>> PROVE Requested(msgs) = IF by({"weak"}) = {} THEN "none" ELSE "go on"
  <2>1. \A k \in 1..n : ~SaidAt(msgs, k)
    <3>1. 1..Len(out) = {}
      BY <1>9, <1>11
    <3> QED BY <1>9, <3>1
  <2>2. r.asked = "none" /\ r.latest = IF \E j \in 1..n : WeakAt(msgs, j) THEN "go on" ELSE "none"
    BY <1>2, <2>1 DEF AskedBy
  <2> QED BY <1>4, <1>5, <2>2
<1> QED BY <1>6, <1>10, <1>11, Zenon DEF RequestIsTheUsers, requests, by

-----------------------------------------------------------------------------
(* The frame: the tail                                                     *)

TailStep(out, m, budget) ==
  IF ~Kept(m) \/ m.kind = "quote" THEN out
  ELSE IF Len(out) > 1 /\ Size(out) + Cleaned(m).size > budget THEN out
  ELSE Append(out, Cleaned(m))
Tailed(list, first, budget) == FoldLeft(LAMBDA out, m : TailStep(out, m, budget), <<first>>, list)

LEMMA TailStepIs ==
  ASSUME NEW out \in Seq(Sound), NEW m \in Sound, NEW budget \in Nat
  PROVE  /\ TailStep(out, m, budget) \in Seq(Sound)
         /\ TailStep(out, m, budget) = out \/ TailStep(out, m, budget) = Append(out, Cleaned(m))
<1>1. Cleaned(m) \in Sound
  BY CleanedIs
<1>2. PICK c : c = Cleaned(m)
  OBVIOUS
<1>3. Append(out, c) \in Seq(Sound)
  BY <1>1, <1>2
<1>4. TailStep(out, m, budget) = out \/ TailStep(out, m, budget) = Append(out, c)
  BY <1>2, Zenon DEF TailStep
<1> QED BY <1>2, <1>3, <1>4

TailRule(h, list, first, budget) ==
  /\ h[0] = <<first>> /\ Tailed(list, first, budget) = h[Len(list)]
  /\ \A k \in 1..Len(list) : h[k] = TailStep(h[k - 1], list[k], budget)

LEMMA TailSteps ==
  ASSUME NEW list \in Seq(Sound), NEW first \in Sound, NEW budget \in Nat
  PROVE  \E h \in [0..Len(list) -> Seq(Sound)] : TailRule(h, list, first, budget)
<1> DEFINE n == Len(list)
           T == Seq(Sound)
           G == [k \in 1..n |-> [a \in T |-> TailStep(a, list[k], budget)]]
           P(iter) == iter = [v \in SUBSET (1..n) |->
                                IF v = {} THEN <<first>> ELSE TailStep(iter[v \ {Max(v)}], list[Max(v)], budget)]
           f == CHOOSE iter : P(iter)
<1>1. n \in Nat /\ 1..n \in SUBSET (0..n) /\ DOMAIN list = 1..n /\ <<first>> \in T
  OBVIOUS
<1>2. Tailed(list, first, budget) = f[1..n]
  BY <1>1, Zenon DEF Tailed, FoldLeft, MapThenFoldSet
<1>3. \A k \in 1..n, a \in T : TailStep(a, list[k], budget) \in T
  <2>1. \A k \in 1..n : list[k] \in Sound
    OBVIOUS
  <2> QED BY <2>1, TailStepIs
<1>4. G \in [1..n -> [T -> T]]
  <2> HIDE DEF T
  <2> QED BY <1>3
<1>5. ASSUME NEW v \in SUBSET (1..n), v # {}, NEW a \in T
      PROVE  G[Max(v)][a] = TailStep(a, list[Max(v)], budget)
  <2>1. Max(v) \in 1..n
    BY <1>1, <1>5, MaxIs
  <2> HIDE DEF T
  <2> QED BY <2>1
<1>6. \E iter : P(iter)
  <2>1. PICK iter \in [SUBSET (1..n) -> T] : FoldRule(1..n, <<first>>, G, iter)
    <3> HIDE DEF G, n, T
    <3> QED BY <1>1, <1>4, FoldExists, Zenon
  <2>2. \A v \in SUBSET (1..n) : iter[v \ {Max(v)}] \in T
    <3> HIDE DEF T, n
    <3> QED BY <2>1
  <2>3. P(iter)
    <3> HIDE DEF G, T
    <3> QED BY <1>5, <2>1, <2>2 DEF FoldRule
  <2> QED BY <2>3
<1>7. P(f)
  BY <1>6, Zenon
<1> HIDE DEF f
<1>8. Folds(f, n, T, <<first>>, G)
  <2> HIDE DEF G, T
  <2> QED BY <1>5, <1>7 DEF Folds
<1>9. PICK h \in [0..n -> T] : Walks(h, n, <<first>>, G) /\ h[n] = f[1..n]
  <2>1. Walked(f, n, T, <<first>>, G)
    <3> HIDE DEF G, T, n
    <3> QED BY <1>1, <1>4, <1>8, FoldWalk, Zenon
  <2> QED BY <2>1, Zenon DEF Walked
<1>10. TailRule(h, list, first, budget)
  <2>1. h[0] = <<first>> /\ \A k \in 1..n : h[k] = G[k][h[k - 1]]
    BY <1>9, Zenon DEF Walks
  <2>2. \A k \in 1..n : h[k - 1] \in T
    <3> HIDE DEF T
    <3> QED BY <1>1, <1>9
  <2>3. \A k \in 1..n : \A a \in T : G[k][a] = TailStep(a, list[k], budget)
    <3> HIDE DEF T
    <3> QED OBVIOUS
  <2>4. \A k \in 1..n : h[k] = TailStep(h[k - 1], list[k], budget)
    <3> HIDE DEF T, G
    <3> QED BY <2>1, <2>2, <2>3, Zenon
  <2> HIDE DEF T, G
  <2> QED BY <1>2, <1>9, <2>1, <2>4 DEF TailRule
<1> QED BY <1>9, <1>10

\* The messages of out that are not the engine's own are, cleaned, those of
\* list at the positions pos, in this order.
Places(out, list, pos) ==
  /\ \A i \in 1..Len(out) : out[i].role # "system" => pos[i] \in 1..Len(list) /\ out[i] = Cleaned(list[pos[i]])
  /\ \A i, j \in 1..Len(out) : i < j /\ out[i].role # "system" /\ out[j].role # "system" => pos[i] < pos[j]
Embeds(out, list) == \E pos : Places(out, list, pos)

TailHolds(out, list, first, budget) ==
  /\ out \in Seq(Sound) /\ 1 <= Len(out) /\ Len(out) <= 1 + Len(list) /\ out[1] = first
  /\ Embeds(out, list)
  /\ 19 <= budget => Size(out) <= budget

LEMMA TailIs ==
  ASSUME NEW list \in Seq(Sound), NEW first \in Sound, NEW budget \in Nat,
         first.role = "system", first.size = 3, NEW out, out = Tailed(list, first, budget)
  PROVE  TailHolds(out, list, first, budget)
<1> DEFINE n == Len(list)
           v == [k \in 1..n |-> Cleaned(list[k])]
           base == <<first>>
<1>1. n \in Nat /\ \A k \in 1..n : list[k] \in Sound
  OBVIOUS
<1>2. PICK h \in [0..n -> Seq(Sound)] : TailRule(h, list, first, budget)
  BY TailSteps, Zenon
<1>3. h[0] = base /\ out = h[n] /\ \A k \in 1..n : h[k] = TailStep(h[k - 1], list[k], budget)
  BY <1>2 DEF TailRule
<1>4. base \in Seq(Sound) /\ Len(base) = 1 /\ base[1] = first
  OBVIOUS
<1> HIDE DEF n, base
<1>5. v \in [1..n -> Sound] /\ \A k \in 1..n : v[k] = Cleaned(list[k])
  BY <1>1, CleanedIs
<1> HIDE DEF v
<1>6. \A k \in 1..n : h[k] = h[k - 1] \/ h[k] = Append(h[k - 1], v[k])
  <2> SUFFICES ASSUME NEW k \in 1..n PROVE h[k] = h[k - 1] \/ h[k] = Append(h[k - 1], v[k])
    OBVIOUS
  <2>1. PICK before, m : before = h[k - 1] /\ m = list[k]
    OBVIOUS
  <2>2. before \in Seq(Sound) /\ m \in Sound
    BY <1>1, <1>2, <2>1
  <2>3. TailStep(before, m, budget) = before \/ TailStep(before, m, budget) = Append(before, Cleaned(m))
    BY <2>2, TailStepIs, Zenon
  <2>4. h[k] = TailStep(before, m, budget) /\ v[k] = Cleaned(m)
    BY <1>3, <1>5, <2>1
  <2> QED BY <2>1, <2>3, <2>4
<1>7. KeepsSome(h, base, v, n)
  BY <1>3, <1>6, Zenon DEF KeepsSome
<1>8. PICK pos : Thinned(out, base, v, n, pos)
  <2>1. \E pos : Thinned(h[n], base, v, n, pos)
    BY <1>1, <1>2, <1>4, <1>5, <1>7, ThinWalk, Zenon
  <2> QED BY <1>3, <2>1
<1>9. out \in Seq(Sound) /\ Len(out) \in Nat
  <2>1. n \in 0..n
    BY <1>1
  <2>2. out \in Seq(Sound)
    BY <1>2, <1>3, <2>1
  <2> QED BY <2>2
<1>10. /\ 1 <= Len(out) /\ Len(out) <= 1 + n /\ out[1] = first
       /\ \A i \in 2..Len(out) : pos[i] \in 1..n /\ out[i] = v[pos[i]]
       /\ \A i, j \in 2..Len(out) : i < j => pos[i] < pos[j]
  BY <1>4, <1>8 DEF Thinned
<1>11. Embeds(out, list)
  <2>1. \A i \in 1..Len(out) : out[i].role # "system" => i \in 2..Len(out)
    BY <1>9, <1>10
  <2>2. \A i \in 2..Len(out) : pos[i] \in 1..n /\ out[i] = Cleaned(list[pos[i]])
    BY <1>5, <1>10
  <2>3. Places(out, list, pos)
    BY <1>10, <2>1, <2>2, Zenon DEF Places, n
  <2> QED BY <2>3 DEF Embeds
<1>12. ASSUME 19 <= budget PROVE Size(out) <= budget
  <2> DEFINE A == {k \in 0..n : Size(h[k]) <= budget /\ (h[k] = base \/ Len(h[k]) > 1)}
  <2>1. Size(base) = 3
    BY SizeOfOne, Zenon DEF base
  <2>2. 0 \in A
    BY <1>1, <1>3, <1>12, <2>1
  <2>3. ASSUME NEW k \in 1..n, k - 1 \in A PROVE k \in A
    <3>1. PICK before, c : before = h[k - 1] /\ c = Cleaned(list[k])
      OBVIOUS
    <3>2. before \in Seq(Sound) /\ c \in Sound /\ c.size <= 16 /\ c.size \in Nat /\ k \in 0..n
      <4>1. list[k] \in Sound
        BY <1>1
      <4>2. c \in Sound /\ c.size <= 16
        BY <3>1, <4>1, CleanedIs
      <4>3. before \in Seq(Sound) /\ k \in 0..n
        BY <1>1, <1>2, <3>1
      <4> QED BY <4>2, <4>3, SoundIs
    <3>3. Size(before) <= budget /\ (before = base \/ Len(before) > 1) /\ Size(before) \in Nat
      BY <2>3, <3>1, <3>2, SizeTyped
    <3>4. h[k] = before \/ (h[k] = Append(before, c) /\ ~(Len(before) > 1 /\ Size(before) + c.size > budget))
      <4>1. h[k] = TailStep(before, list[k], budget)
        BY <1>3, <3>1
      <4> QED BY <3>1, <4>1, Zenon DEF TailStep
    <3>5. CASE h[k] = before
      BY <3>1, <3>2, <3>3, <3>5
    <3>6. CASE h[k] = Append(before, c) /\ ~(Len(before) > 1 /\ Size(before) + c.size > budget)
      <4>1. Size(h[k]) = Size(before) + c.size
        BY <3>2, <3>6, SizeAppend
      <4>2. Size(h[k]) <= budget
        <5>1. CASE before = base
          <6>1. Size(before) = 3
            BY <2>1, <5>1
          <6> QED BY <1>12, <3>2, <4>1, <6>1
        <5>2. CASE Len(before) > 1
          BY <3>2, <3>3, <3>6, <4>1, <5>2
        <5> QED BY <3>3, <5>1, <5>2
      <4>3. Len(before) \in Nat /\ Len(before) >= 1
        <5>1. Len(before) \in Nat
          BY <3>2
        <5>2. before = base => Len(before) = 1
          BY <1>4
        <5>3. Len(before) = 1 \/ Len(before) > 1
          BY <3>3, <5>2, Zenon
        <5>4. PICK l : l = Len(before)
          OBVIOUS
        <5>5. l \in Nat /\ (l = 1 \/ l > 1)
          BY <5>1, <5>3, <5>4, Zenon
        <5>6. l >= 1
          BY <5>5
        <5> QED BY <5>1, <5>4, <5>6, Zenon
      <4>4. Len(h[k]) = Len(before) + 1
        <5>1. Len(Append(before, c)) = Len(before) + 1
          BY <3>2
        <5> QED BY <3>6, <5>1
      <4> QED BY <3>2, <4>2, <4>3, <4>4
    <3> QED BY <3>4, <3>5, <3>6
  <2>4. \A k \in 0..n : k \in A
    <3> HIDE DEF A
    <3> QED BY <1>1, <2>2, <2>3, RangeInduction
  <2>5. n \in 0..n /\ n \in A
    BY <1>1, <2>4
  <2> QED BY <1>3, <2>5
<1> QED BY <1>9, <1>10, <1>11, <1>12 DEF n, TailHolds

-----------------------------------------------------------------------------
(* The frame: the capsule and the assembly                                 *)

Walking == [items : Seq(Sound), size : Nat, turns : Nat, seen : SUBSET Words]
NothingListed == [items |-> <<>>, size |-> 0, turns |-> 0, seen |-> {}]
WalkedBack(list, room) == FoldLeft(LAMBDA acc, m : Listed(acc, m, room), NothingListed, list)

LEMMA ListedIs ==
  ASSUME NEW acc \in Walking, NEW m \in Sound, NEW room
  PROVE  Listed(acc, m, room) \in Walking
<1>1. acc.items \in Seq(Sound) /\ acc.size \in Nat /\ acc.turns \in Nat /\ acc.seen \in SUBSET Words
  BY DEF Walking
<1>2. Cleaned(m) \in Sound
  BY CleanedIs
<1>3. Cleaned(m).size \in Nat
  BY <1>2, SoundIs
<1>4. LineSize(Cleaned(m)) \in Nat
  BY <1>3, CapIs DEF LineSize
<1>5. PICK items, size, turns, seen :
        /\ items = <<m>> \o acc.items /\ size = acc.size + LineSize(Cleaned(m))
        /\ turns = (IF m.role \in {"user", "assistant"} THEN acc.turns + 1 ELSE acc.turns)
        /\ seen = (IF m.role = "user" THEN acc.seen \cup {m.text} ELSE acc.seen)
  OBVIOUS
<1>6. items \in Seq(Sound) /\ size \in Nat /\ turns \in Nat
  <2>1. items \in Seq(Sound)
    BY <1>1, <1>5
  <2>2. size \in Nat
    BY <1>1, <1>4, <1>5
  <2>3. turns \in Nat
    BY <1>1, <1>5
  <2> QED BY <2>1, <2>2, <2>3
<1>7. seen \in SUBSET Words
  BY <1>1, <1>5, UserWords
<1>8. [items |-> items, size |-> size, turns |-> turns, seen |-> seen] \in Walking
  BY <1>6, <1>7 DEF Walking
<1>9. Listed(acc, m, room) \in {acc, [items |-> items, size |-> size, turns |-> turns, seen |-> seen]}
  BY <1>5, Zenon DEF Listed
<1> QED BY <1>8, <1>9

BackRule(h, list, room) ==
  /\ h[0] = NothingListed /\ WalkedBack(list, room) = h[Len(list)]
  /\ \A k \in 1..Len(list) : h[k] = Listed(h[k - 1], list[k], room)

LEMMA BackSteps ==
  ASSUME NEW list \in Seq(Sound), NEW room
  PROVE  \E h \in [0..Len(list) -> Walking] : BackRule(h, list, room)
<1> DEFINE n == Len(list)
           T == Walking
           G == [k \in 1..n |-> [a \in T |-> Listed(a, list[k], room)]]
           P(iter) == iter = [v \in SUBSET (1..n) |->
                                IF v = {} THEN NothingListed ELSE Listed(iter[v \ {Max(v)}], list[Max(v)], room)]
           f == CHOOSE iter : P(iter)
<1>1. n \in Nat /\ 1..n \in SUBSET (0..n) /\ DOMAIN list = 1..n /\ NothingListed \in T
  BY DEF NothingListed, Walking
<1>2. WalkedBack(list, room) = f[1..n]
  BY <1>1, Zenon DEF WalkedBack, FoldLeft, MapThenFoldSet
<1>3. \A k \in 1..n, a \in T : Listed(a, list[k], room) \in T
  <2>1. \A k \in 1..n : list[k] \in Sound
    OBVIOUS
  <2> QED BY <2>1, ListedIs
<1>4. G \in [1..n -> [T -> T]]
  <2> HIDE DEF T
  <2> QED BY <1>3
<1>5. ASSUME NEW v \in SUBSET (1..n), v # {}, NEW a \in T
      PROVE  G[Max(v)][a] = Listed(a, list[Max(v)], room)
  <2>1. Max(v) \in 1..n
    BY <1>1, <1>5, MaxIs
  <2> HIDE DEF T
  <2> QED BY <2>1
<1>6. \E iter : P(iter)
  <2>1. PICK iter \in [SUBSET (1..n) -> T] : FoldRule(1..n, NothingListed, G, iter)
    <3> HIDE DEF G, n, T
    <3> QED BY <1>1, <1>4, FoldExists, Zenon
  <2>2. \A v \in SUBSET (1..n) : iter[v \ {Max(v)}] \in T
    <3> HIDE DEF T, n
    <3> QED BY <2>1
  <2>3. P(iter)
    <3> HIDE DEF G, T
    <3> QED BY <1>5, <2>1, <2>2 DEF FoldRule
  <2> QED BY <2>3
<1>7. P(f)
  BY <1>6, Zenon
<1> HIDE DEF f
<1>8. Folds(f, n, T, NothingListed, G)
  <2> HIDE DEF G, T
  <2> QED BY <1>5, <1>7 DEF Folds
<1>9. PICK h \in [0..n -> T] : Walks(h, n, NothingListed, G) /\ h[n] = f[1..n]
  <2>1. Walked(f, n, T, NothingListed, G)
    <3> HIDE DEF G, T, n
    <3> QED BY <1>1, <1>4, <1>8, FoldWalk, Zenon
  <2> QED BY <2>1, Zenon DEF Walked
<1>10. BackRule(h, list, room)
  <2>1. h[0] = NothingListed /\ \A k \in 1..n : h[k] = G[k][h[k - 1]]
    BY <1>9, Zenon DEF Walks
  <2>2. \A k \in 1..n : h[k - 1] \in T
    <3> HIDE DEF T
    <3> QED BY <1>1, <1>9
  <2>3. \A k \in 1..n : \A a \in T : G[k][a] = Listed(a, list[k], room)
    <3> HIDE DEF T
    <3> QED OBVIOUS
  <2>4. \A k \in 1..n : h[k] = Listed(h[k - 1], list[k], room)
    <3> HIDE DEF T, G
    <3> QED BY <2>1, <2>2, <2>3, Zenon
  <2> HIDE DEF T, G
  <2> QED BY <1>2, <1>9, <2>1, <2>4 DEF BackRule
<1> QED BY <1>9, <1>10

CapsuleHolds(out, tail, budget) ==
  \/ out = <<>>
  \/ \E item \in Sound : out = <<item>> /\ item.role = "system" /\ Size(tail) + item.size <= budget

LEMMA CapsuleIs ==
  ASSUME NEW ms \in Seq(Sound), NEW latest \in 1..Len(ms), NEW budget \in Nat, NEW tail \in Seq(Sound),
         NEW out, out = Capsule(ms, latest, budget, tail)
  PROVE  CapsuleHolds(out, tail, budget)
<1> DEFINE left == budget - Size(tail)
           r == Cap(budget \div 5, 37)
           room == Cap(IF r < 2 THEN 2 ELSE r, left)
           list == Reverse(SubSeq(ms, 1, latest - 1))
           walk == WalkedBack(list, room)
           item == System("capsule", walk.seen, CapsuleHeader + walk.size)
           none == \/ latest = 1 \/ budget < 8 \/ Size(tail) + 4 > budget \/ walk.items = <<>>
                   \/ Size(tail) + item.size > budget
<1>1. out = IF none THEN <<>> ELSE <<item>>
  BY Zenon DEF Capsule, WalkedBack, NothingListed
<1>2. list \in Seq(Sound)
  <2>1. PICK before : before = SubSeq(ms, 1, latest - 1)
    OBVIOUS
  <2>2. before \in Seq(Sound)
    BY <2>1
  <2>3. Reverse(before) \in Seq(Sound)
    <3>1. \A i \in 1..Len(before) : (Len(before) - i) + 1 \in 1..Len(before)
      BY <2>2
    <3>2. \A i \in 1..Len(before) : before[(Len(before) - i) + 1] \in Sound
      BY <2>2, <3>1
    <3>3. Reverse(before) \in [1..Len(before) -> Sound] /\ Len(before) \in Nat
      BY <2>2, <3>2 DEF Reverse
    <3> QED BY <3>3, ListTyped
  <2> QED BY <2>1, <2>3
<1> HIDE DEF room, list
<1>3. walk \in Walking
  <2>1. PICK h \in [0..Len(list) -> Walking] : BackRule(h, list, room)
    BY <1>2, BackSteps, Zenon
  <2>2. Len(list) \in 0..Len(list) /\ walk = h[Len(list)]
    BY <1>2, <2>1 DEF BackRule
  <2> QED BY <2>1, <2>2
<1> HIDE DEF walk
<1>4. walk.seen \in AnyText /\ CapsuleHeader + walk.size \in Nat
  BY <1>3 DEF Walking, AnyText, CapsuleHeader
<1>5. item \in Sound /\ item.role = "system"
  BY <1>4, SystemSound
<1>6. item.size \in Nat /\ Size(tail) \in Nat
  BY <1>5, SizeTyped, SoundIs
<1> HIDE DEF item
<1>7. CASE none
  BY <1>1, <1>7 DEF CapsuleHolds
<1>8. CASE ~none
  <2>1. out = <<item>> /\ ~(Size(tail) + item.size > budget)
    BY <1>1, <1>8
  <2> QED BY <1>5, <1>6, <2>1 DEF CapsuleHolds
<1> QED BY <1>7, <1>8

\* What is made of the messages of list: h messages of the engine in front, and
\* of the others some.
Framed(out, list, h) ==
  /\ out \in Seq(Sound) /\ Embeds(out, list) /\ h \in 0..3 /\ h <= Len(out) /\ Len(out) - h <= Len(list)
  /\ \A i \in 1..h : out[i].role = "system"

LEMMA PutBefore ==
  ASSUME NEW out, NEW list, Len(list) \in Nat, NEW h \in 0..2, Framed(out, list, h),
         NEW m \in Sound, m.role = "system", NEW new, new = <<m>> \o out
  PROVE  Framed(new, list, h + 1) /\ Size(new) = m.size + Size(out)
<1>1. out \in Seq(Sound) /\ Len(out) \in Nat /\ h <= Len(out) /\ Len(out) - h <= Len(list) /\ \A i \in 1..h : out[i].role = "system"
  BY DEF Framed
<1>2. <<m>> \in Seq(Sound) /\ Size(<<m>>) = m.size
  BY SizeOfOne
<1>3. new \in Seq(Sound) /\ Len(new) = Len(out) + 1 /\ new[1] = m /\ \A i \in 1..Len(out) : new[i + 1] = out[i]
  BY <1>1, <1>2
<1>4. Size(new) = m.size + Size(out)
  BY <1>1, <1>2, SizeConcat
<1>5. PICK pos : Places(out, list, pos)
  BY DEF Framed, Embeds
<1> DEFINE l == Len(out)
           more == [i \in 1..(l + 1) |-> pos[i - 1]]
<1>6. \A i \in 1..l : out[i].role # "system" => pos[i] \in 1..Len(list) /\ out[i] = Cleaned(list[pos[i]])
  BY <1>5 DEF Places
<1>7. \A i, j \in 1..l : i < j /\ out[i].role # "system" /\ out[j].role # "system" => pos[i] < pos[j]
  BY <1>5, Zenon DEF Places
<1>8. l \in Nat /\ Len(new) = l + 1 /\ new[1] = m /\ \A i \in 1..l : new[i + 1] = out[i]
  BY <1>1, <1>3
<1> HIDE DEF l
<1>9. \A i \in 1..(l + 1) : new[i].role # "system" => i - 1 \in 1..l /\ new[i] = out[i - 1] /\ more[i] = pos[i - 1]
  <2> SUFFICES ASSUME NEW i \in 1..(l + 1), new[i].role # "system"
               PROVE  i - 1 \in 1..l /\ new[i] = out[i - 1] /\ more[i] = pos[i - 1]
    OBVIOUS
  <2>1. i # 1
    BY <1>8
  <2>2. i - 1 \in 1..l /\ (i - 1) + 1 = i
    BY <1>8, <2>1
  <2> QED BY <1>8, <2>2
<1> HIDE DEF more
<1>10. \A i \in 1..(l + 1) : new[i].role # "system" => more[i] \in 1..Len(list) /\ new[i] = Cleaned(list[more[i]])
  BY <1>6, <1>9
<1>11. ASSUME NEW i \in 1..(l + 1), NEW j \in 1..(l + 1), i < j, new[i].role # "system", new[j].role # "system"
       PROVE  more[i] < more[j]
  <2>1. i - 1 \in 1..l /\ j - 1 \in 1..l /\ i - 1 < j - 1
    BY <1>8, <1>9, <1>11
  <2>2. pos[i - 1] < pos[j - 1]
    BY <1>7, <1>9, <1>11, <2>1
  <2> QED BY <1>9, <1>11, <2>2
<1>12. Embeds(new, list)
  <2>1. Places(new, list, more)
    BY <1>8, <1>10, <1>11 DEF Places
  <2> QED BY <2>1 DEF Embeds
<1>13. h + 1 \in 0..3 /\ h + 1 <= Len(new) /\ Len(new) - (h + 1) <= Len(list)
  BY <1>1, <1>3
<1>14. \A i \in 1..(h + 1) : new[i].role = "system"
  <2> SUFFICES ASSUME NEW i \in 1..(h + 1) PROVE new[i].role = "system"
    OBVIOUS
  <2>1. CASE i = 1
    BY <1>8, <2>1
  <2>2. CASE i # 1
    <3>1. i - 1 \in 1..h /\ i - 1 \in 1..l /\ (i - 1) + 1 = i
      BY <1>1, <2>2 DEF l
    <3> QED BY <1>1, <1>8, <3>1
  <2> QED BY <2>1, <2>2
<1> QED BY <1>3, <1>4, <1>12, <1>13, <1>14 DEF Framed

-----------------------------------------------------------------------------
(* The frame: what compress assembles                                      *)

Joins(c, a, b, E) ==
  /\ c \in Seq(E) /\ Len(c) = Len(a) + Len(b)
  /\ \A i \in 1..Len(c) : c[i] = IF i <= Len(a) THEN a[i] ELSE b[i - Len(a)]

LEMMA ConcatIs ==
  ASSUME NEW E, NEW a \in Seq(E), NEW b \in Seq(E), NEW c, c = a \o b
  PROVE  Joins(c, a, b, E)
BY DEF Joins

LEMMA OneAfterAnother ==
  ASSUME NEW E, NEW a \in Seq(E), NEW b \in Seq(E), NEW c \in Seq(E)
  PROVE  (a \o b) \o c = a \o (b \o c)
<1>1. PICK ab, bc : ab = a \o b /\ bc = b \o c
  OBVIOUS
<1>2. /\ ab \in Seq(E) /\ Len(ab) = Len(a) + Len(b)
      /\ \A i \in 1..Len(ab) : ab[i] = IF i <= Len(a) THEN a[i] ELSE b[i - Len(a)]
  BY <1>1
<1>3. /\ bc \in Seq(E) /\ Len(bc) = Len(b) + Len(c)
      /\ \A i \in 1..Len(bc) : bc[i] = IF i <= Len(b) THEN b[i] ELSE c[i - Len(b)]
  BY <1>1
<1>4. PICK l, r : l = ab \o c /\ r = a \o bc
  OBVIOUS
<1>5. /\ l \in Seq(E) /\ Len(l) = Len(ab) + Len(c)
      /\ \A i \in 1..Len(l) : l[i] = IF i <= Len(ab) THEN ab[i] ELSE c[i - Len(ab)]
  <2>1. Joins(l, ab, c, E)
    BY <1>2, <1>4, ConcatIs
  <2> QED BY <2>1 DEF Joins
<1>6. /\ r \in Seq(E) /\ Len(r) = Len(a) + Len(bc)
      /\ \A i \in 1..Len(r) : r[i] = IF i <= Len(a) THEN a[i] ELSE bc[i - Len(a)]
  <2>1. Joins(r, a, bc, E)
    BY <1>3, <1>4, ConcatIs
  <2> QED BY <2>1 DEF Joins
<1>7. PICK x, y, z : x = Len(a) /\ y = Len(b) /\ z = Len(c)
  OBVIOUS
<1>8. x \in Nat /\ y \in Nat /\ z \in Nat
  BY <1>7
<1>9. Len(ab) = x + y /\ Len(bc) = y + z /\ Len(l) = x + y + z /\ Len(r) = x + y + z
  BY <1>2, <1>3, <1>5, <1>6, <1>7, <1>8
<1>10. ASSUME NEW i \in 1..(x + y + z) PROVE l[i] = r[i]
  <2>1. CASE i <= x
    <3>1. l[i] = ab[i] /\ ab[i] = a[i] /\ r[i] = a[i]
      <4>1. i <= x + y /\ i \in 1..(x + y)
        BY <1>8, <2>1
      <4> QED BY <1>2, <1>5, <1>6, <1>7, <1>9, <2>1, <4>1
    <3> QED BY <3>1
  <2>2. CASE ~(i <= x) /\ i <= x + y
    <3>1. i \in 1..(x + y) /\ i - x \in 1..(y + z) /\ i - x <= y
      BY <1>8, <2>2
    <3>2. l[i] = ab[i] /\ ab[i] = b[i - x]
      BY <1>2, <1>5, <1>7, <1>9, <2>2, <3>1
    <3>3. r[i] = bc[i - x] /\ bc[i - x] = b[i - x]
      BY <1>3, <1>6, <1>7, <1>9, <2>2, <3>1
    <3> QED BY <3>2, <3>3
  <2>3. CASE ~(i <= x + y)
    <3>1. ~(i <= x) /\ i - x \in 1..(y + z) /\ ~(i - x <= y) /\ i - (x + y) = (i - x) - y
      BY <1>8, <2>3
    <3>2. l[i] = c[i - (x + y)]
      BY <1>5, <1>9, <2>3
    <3>3. r[i] = bc[i - x] /\ bc[i - x] = c[(i - x) - y]
      BY <1>3, <1>6, <1>7, <1>9, <3>1
    <3> QED BY <3>1, <3>2, <3>3
  <2> QED BY <2>1, <2>2, <2>3
<1>11. l \in [1..(x + y + z) -> E] /\ r \in [1..(x + y + z) -> E]
  <2>1. l \in [1..Len(l) -> E] /\ r \in [1..Len(r) -> E]
    BY <1>5, <1>6
  <2> QED BY <1>9, <2>1
<1>12. l = r
  <2>1. l = [i \in 1..(x + y + z) |-> l[i]] /\ r = [i \in 1..(x + y + z) |-> r[i]]
    BY <1>11
  <2>2. [i \in 1..(x + y + z) |-> l[i]] = [i \in 1..(x + y + z) |-> r[i]]
    BY <1>10, Zenon
  <2> QED BY <2>1, <2>2, Zenon
<1> QED BY <1>1, <1>4, <1>12

\* The current turn of a sanitized conversation.
Turn(ms) == IF LatestUser(ms) = 0 THEN <<>> ELSE SubSeq(ms, LatestUser(ms), Len(ms))

LEMMA TurnIs ==
  ASSUME NEW ms \in Seq(Sound)
  PROVE  Turn(ms) \in Seq(Sound) /\ Len(Turn(ms)) \in Nat
<1>1. LatestUser(ms) \in 0..Len(ms)
  BY LatestIs
<1>2. CASE LatestUser(ms) = 0
  BY <1>2 DEF Turn
<1>3. CASE LatestUser(ms) # 0
  <2>1. PICK latest : latest = LatestUser(ms)
    OBVIOUS
  <2>2. latest \in 1..Len(ms)
    BY <1>1, <1>3, <2>1
  <2>3. SubSeq(ms, latest, Len(ms)) \in Seq(Sound)
    BY <2>2
  <2> QED BY <1>3, <2>1, <2>3 DEF Turn
<1> QED BY <1>2, <1>3

\* Without its first message the tail is some of the turn.
LEMMA RestIs ==
  ASSUME NEW list \in Seq(Sound), NEW out \in Seq(Sound), 1 <= Len(out), Len(out) <= 1 + Len(list),
         Embeds(out, list), NEW rest, rest = Tail(out)
  PROVE  Framed(rest, list, 0) /\ out = <<out[1]>> \o rest /\ out[1] \in Sound
<1> DEFINE l == Len(out) - 1
<1>1. Len(out) \in Nat /\ Len(list) \in Nat /\ out[1] \in Sound
  OBVIOUS
<1>2. rest \in Seq(Sound) /\ Len(rest) = l /\ l \in Nat /\ \A i \in 1..l : rest[i] = out[i + 1]
  OBVIOUS
<1>3. PICK pos : Places(out, list, pos)
  BY DEF Embeds
<1> DEFINE less == [i \in 1..l |-> pos[i + 1]]
<1>4. \A i \in 1..l : i + 1 \in 1..Len(out) /\ less[i] = pos[i + 1] /\ rest[i] = out[i + 1]
  BY <1>1, <1>2
<1>5. \A i \in 1..l : rest[i].role # "system" => less[i] \in 1..Len(list) /\ rest[i] = Cleaned(list[less[i]])
  BY <1>3, <1>4 DEF Places
<1>6. ASSUME NEW i \in 1..l, NEW j \in 1..l, i < j, rest[i].role # "system", rest[j].role # "system"
      PROVE  less[i] < less[j]
  <2>1. i + 1 < j + 1 /\ i + 1 \in 1..Len(out) /\ j + 1 \in 1..Len(out)
    BY <1>2, <1>4, <1>6
  <2>2. pos[i + 1] < pos[j + 1]
    BY <1>3, <1>4, <1>6, <2>1 DEF Places
  <2> QED BY <1>4, <2>2
<1> HIDE DEF less
<1>7. Places(rest, list, less)
  <2>1. Len(rest) = l
    BY <1>2
  <2> QED BY <1>5, <1>6, <2>1, Zenon DEF Places
<1>8. Embeds(rest, list)
  BY <1>7 DEF Embeds
<1>9. 0 \in 0..3 /\ 0 <= Len(rest) /\ Len(rest) - 0 <= Len(list) /\ \A i \in 1..0 : rest[i].role = "system"
  BY <1>1, <1>2
<1>10. Framed(rest, list, 0)
  BY <1>2, <1>8, <1>9 DEF Framed
<1>11. out = <<out[1]>> \o rest
  OBVIOUS
<1> QED BY <1>1, <1>10, <1>11

LEMMA PendingIs ==
  ASSUME NEW ms \in Seq(Sound), Pending(ms) # <<>>
  PROVE  Pending(ms)[1] \in Sound /\ Pending(ms)[1].role = "system" /\ Pending(ms)[1].size <= 2
<1> DEFINE set == {m \in ToSet(ms) : m.role = "system" /\ m.kind = "pending"}
<1>1. PICK out : out = Pending(ms)
  OBVIOUS
<1>2. out \in Seq(Sound) /\ ToSet(out) = ToSet(ms) \cap set
  <2>1. out = Only(ms, set)
    BY <1>1 DEF Pending
  <2> QED BY <2>1, OnlySet, Zenon
<1>3. out[1] \in Sound /\ out[1] \in ToSet(out)
  <2>1. 1 \in DOMAIN out
    BY <1>1, <1>2
  <2> QED BY <1>2, <2>1 DEF ToSet
<1>4. out[1].role = "system" /\ out[1].kind = "pending"
  BY <1>2, <1>3
<1>5. Worded(out[1])
  BY <1>3, SoundIs
<1>6. out[1].size <= 2
  BY <1>4, <1>5 DEF Worded
<1> QED BY <1>1, <1>3, <1>4, <1>6

LEMMA MessageBudgetIs ==
  ASSUME NEW request \in Nat
  PROVE  MessageBudget(request) \in Nat /\ (request = 0 => MessageBudget(request) = 64)
BY DEF MessageBudget, NoBudget, Cap

\* The frame before a pending message is put in front.
Bare(clean, latest, budget) ==
  LET tail == CurrentTail(clean, latest, budget) IN
  IF latest = 0 THEN <<>> ELSE <<Head(tail)>> \o Capsule(clean, latest, budget, tail) \o Tail(tail)

LEMMA BareIs ==
  ASSUME NEW clean \in Seq(Sound), NEW latest, latest = LatestUser(clean), NEW budget \in Nat,
         NEW out, out = Bare(clean, latest, budget)
  PROVE  /\ \E h \in 0..2 : Framed(out, Turn(clean), h)
         /\ 19 <= budget => Size(out) <= budget
<1>1. latest \in 0..Len(clean)
  BY LatestIs
<1>2. CASE latest = 0
  <2>1. out = <<>> /\ Turn(clean) = <<>>
    BY <1>2, Zenon DEF Bare, Turn
  <2>2. Size(out) = 0
    BY <2>1, SizeOfNone
  <2>3. Places(<<>>, <<>>, <<>>)
    BY DEF Places
  <2>4. Framed(out, Turn(clean), 0)
    BY <2>1, <2>3 DEF Framed, Embeds
  <2> QED BY <2>2, <2>4
<1>3. CASE latest # 0
  <2> DEFINE list == Turn(clean)
             first == Frame(clean)
  <2>1. list = SubSeq(clean, latest, Len(clean))
    BY <1>3, Zenon DEF Turn
  <2>2. list \in Seq(Sound) /\ Len(list) \in Nat
    BY TurnIs
  <2>3. first \in Sound /\ first.role = "system" /\ first.size = 3
    BY FrameIs
  <2> HIDE DEF list, first
  <2>4. PICK tail : tail = CurrentTail(clean, latest, budget)
    OBVIOUS
  <2>5. tail = Tailed(list, first, budget)
    BY <2>1, <2>4, Zenon DEF CurrentTail, Tailed, TailStep, first
  <2>6. /\ tail \in Seq(Sound) /\ 1 <= Len(tail) /\ Len(tail) <= 1 + Len(list) /\ tail[1] = first
        /\ Embeds(tail, list)
        /\ 19 <= budget => Size(tail) <= budget
    <3>1. TailHolds(tail, list, first, budget)
      BY <2>2, <2>3, <2>5, TailIs, Zenon
    <3> QED BY <3>1 DEF TailHolds
  <2>7. PICK rest : rest = Tail(tail)
    OBVIOUS
  <2>8. Framed(rest, list, 0) /\ tail = <<tail[1]>> \o rest
    BY <2>2, <2>6, <2>7, RestIs, Zenon
  <2>9. rest \in Seq(Sound) /\ Size(rest) \in Nat /\ first.size \in Nat
    BY <2>3, <2>8, SizeTyped DEF Framed
  <2>10. Size(tail) = first.size + Size(rest)
    <3>1. <<first>> \in Seq(Sound) /\ Size(<<first>>) = first.size
      BY <2>3, SizeOfOne
    <3> QED BY <2>6, <2>8, <2>9, <3>1, SizeConcat
  <2>11. PICK capsule : capsule = Capsule(clean, latest, budget, tail)
    OBVIOUS
  <2>12. \/ capsule = <<>>
         \/ \E item \in Sound : capsule = <<item>> /\ item.role = "system" /\ Size(tail) + item.size <= budget
    <3>1. latest \in 1..Len(clean)
      BY <1>1, <1>3
    <3>2. CapsuleHolds(capsule, tail, budget)
      BY <2>6, <2>11, <3>1, CapsuleIs, Zenon
    <3> QED BY <3>2 DEF CapsuleHolds
  <2>13. out = (<<first>> \o capsule) \o rest
    <3>1. Head(tail) = first
      BY <2>6
    <3> QED BY <1>3, <2>4, <2>7, <2>11, <3>1, Zenon DEF Bare
  <2>14. CASE capsule = <<>>
    <3>1. out = <<first>> \o rest
      <4>1. <<first>> \o <<>> = <<first>>
        OBVIOUS
      <4> QED BY <2>13, <2>14, <4>1
    <3>2. Framed(out, list, 0 + 1) /\ Size(out) = first.size + Size(rest)
      <4>1. 0 \in 0..2
        OBVIOUS
      <4> QED BY <2>2, <2>3, <2>8, <3>1, <4>1, PutBefore, Zenon
    <3>3. 0 + 1 \in 0..2
      OBVIOUS
    <3> QED BY <2>6, <2>10, <3>2, <3>3, Zenon DEF list
  <2>15. CASE \E item \in Sound : capsule = <<item>> /\ item.role = "system" /\ Size(tail) + item.size <= budget
    <3>1. PICK item \in Sound : capsule = <<item>> /\ item.role = "system" /\ Size(tail) + item.size <= budget
      BY <2>15
    <3>2. PICK more : more = <<item>> \o rest
      OBVIOUS
    <3>3. Framed(more, list, 0 + 1) /\ Size(more) = item.size + Size(rest)
      <4>1. 0 \in 0..2
        OBVIOUS
      <4> QED BY <2>2, <2>8, <3>1, <3>2, <4>1, PutBefore, Zenon
    <3>4. out = <<first>> \o more
      <4>1. <<first>> \in Seq(Sound) /\ <<item>> \in Seq(Sound)
        BY <2>3
      <4>2. (<<first>> \o <<item>>) \o rest = <<first>> \o (<<item>> \o rest)
        BY <2>9, <4>1, OneAfterAnother
      <4> QED BY <2>13, <3>1, <3>2, <4>2, Zenon
    <3>5. Framed(out, list, (0 + 1) + 1) /\ Size(out) = first.size + Size(more)
      <4>1. PICK h : h = 0 + 1
        OBVIOUS
      <4>2. h \in 0..2
        BY <4>1
      <4>3. Framed(more, list, h) /\ Len(list) \in Nat
        BY <2>2, <3>3, <4>1
      <4> QED BY <2>3, <3>4, <4>1, <4>2, <4>3, PutBefore
    <3>6. item.size \in Nat
      BY SoundIs
    <3>7. Size(out) = Size(tail) + item.size
      BY <2>9, <2>10, <3>3, <3>5, <3>6
    <3>8. (0 + 1) + 1 \in 0..2
      OBVIOUS
    <3> QED BY <3>1, <3>5, <3>7, <3>8, Zenon DEF list
  <2> QED BY <2>12, <2>14, <2>15
<1> QED BY <1>2, <1>3

LEMMA AssembledIs ==
  ASSUME NEW ms \in Seq(Sound), NEW request \in Nat, NEW out, out = Assembled(ms, request)
  PROVE  /\ \E h \in 0..3 : Framed(out, Turn(Sanitize(ms)), h)
         /\ request = 0 => Size(out) <= 64
<1>1. PICK clean, budget : clean = Sanitize(ms) /\ budget = MessageBudget(request)
  OBVIOUS
<1>2. clean \in Seq(Sound) /\ budget \in Nat /\ (request = 0 => budget = 64)
  BY <1>1, SanitizeIs, MessageBudgetIs
<1>3. PICK frame : frame = Bare(clean, LatestUser(clean), budget)
  OBVIOUS
<1>4. /\ \E h \in 0..2 : Framed(frame, Turn(clean), h)
      /\ 19 <= budget => Size(frame) <= budget
  BY <1>2, <1>3, BareIs, Zenon
<1>5. PICK h \in 0..2 : Framed(frame, Turn(clean), h)
  BY <1>4
<1>6. Len(Turn(clean)) \in Nat
  BY <1>2, TurnIs
<1>7. Size(frame) \in Nat
  BY <1>5, SizeTyped DEF Framed
<1>8. PICK p : p = Pending(clean)
  OBVIOUS
<1>9. \/ out = frame
      \/ p # <<>> /\ (frame = <<>> \/ Size(frame) + p[1].size <= budget) /\ out = <<p[1]>> \o frame
  BY <1>1, <1>3, <1>8, Zenon DEF Assembled, Bare
<1>10. CASE out = frame
  <2>1. h \in 0..3
    OBVIOUS
  <2>2. request = 0 => Size(out) <= 64
    BY <1>2, <1>4, <1>10
  <2> QED BY <1>1, <1>5, <1>10, <2>1, <2>2
<1>11. CASE p # <<>> /\ (frame = <<>> \/ Size(frame) + p[1].size <= budget) /\ out = <<p[1]>> \o frame
  <2>1. p[1] \in Sound /\ p[1].role = "system" /\ p[1].size <= 2
    BY <1>2, <1>8, <1>11, PendingIs
  <2>2. Framed(out, Turn(clean), h + 1) /\ Size(out) = p[1].size + Size(frame)
    BY <1>5, <1>6, <1>11, <2>1, PutBefore, Zenon
  <2>3. h + 1 \in 0..3
    OBVIOUS
  <2>4. p[1].size \in Nat
    BY <2>1, SoundIs
  <2>5. request = 0 => Size(out) <= 64
    <3>1. CASE frame = <<>>
      BY <2>1, <2>2, <2>4, <3>1, SizeOfNone
    <3>2. CASE Size(frame) + p[1].size <= budget
      BY <1>2, <1>7, <2>2, <2>4, <3>2
    <3> QED BY <1>11, <3>1, <3>2
  <2> QED BY <1>1, <2>2, <2>3, <2>5
<1> QED BY <1>9, <1>10, <1>11

-----------------------------------------------------------------------------
(* The frame: what is dropped until it fits                                *)

FramedOf(out, list) == \E h \in 0..3 : Framed(out, list, h)

\* Any message may go.
LEMMA RemoveKeeps ==
  ASSUME NEW out, NEW list, Len(list) \in Nat, FramedOf(out, list), NEW i \in 1..Len(out), NEW new, new = RemoveAt(out, i)
  PROVE  FramedOf(new, list) /\ Len(new) = Len(out) - 1 /\ Size(new) <= Size(out)
<1>1. PICK h \in 0..3 : Framed(out, list, h)
  BY DEF FramedOf
<1>2. out \in Seq(Sound) /\ Len(out) \in Nat /\ h <= Len(out) /\ Len(out) - h <= Len(list)
      /\ \A j \in 1..h : out[j].role = "system"
  BY <1>1 DEF Framed
<1>3. Size(new) <= Size(out)
  BY <1>2, SizeWithout
<1> DEFINE l == Len(out) - 1
           At(j) == IF j < i THEN j ELSE j + 1
<1>4. /\ new \in Seq(Sound) /\ Len(new) = l /\ l \in Nat
      /\ \A j \in 1..l : new[j] = IF j < i THEN out[j] ELSE out[j + 1]
  <2>1. l \in Nat
    BY <1>2
  <2>2. /\ RemoveAt(out, i) \in Seq(Sound) /\ Len(RemoveAt(out, i)) = Len(out) - 1
        /\ \A j \in 1..(Len(out) - 1) : RemoveAt(out, i)[j] = IF j < i THEN out[j] ELSE out[j + 1]
    BY <1>2, RemoveAtIs, Zenon
  <2> QED BY <2>1, <2>2, Zenon
<1>5. \A j \in 1..l : At(j) \in 1..Len(out) /\ new[j] = out[At(j)]
  <2>1. \A j \in 1..l : At(j) \in 1..Len(out)
    BY <1>2
  <2>2. \A j \in 1..l : new[j] = out[At(j)]
    <3> SUFFICES ASSUME NEW j \in 1..l PROVE new[j] = out[At(j)]
      OBVIOUS
    <3>1. CASE j < i
      BY <1>4, <3>1
    <3>2. CASE ~(j < i)
      BY <1>4, <3>2
    <3> QED BY <3>1, <3>2
  <2> QED BY <2>1, <2>2
<1>6. \A j, k \in 1..l : j < k => At(j) < At(k)
  BY <1>2
<1>7. PICK pos : Places(out, list, pos)
  BY <1>1 DEF Framed, Embeds
<1> DEFINE less == [j \in 1..l |-> pos[At(j)]]
<1>8. \A j \in 1..l : less[j] = pos[At(j)]
  OBVIOUS
<1> HIDE DEF less, At
<1>9. \A j \in 1..l : new[j].role # "system" => less[j] \in 1..Len(list) /\ new[j] = Cleaned(list[less[j]])
  BY <1>5, <1>7, <1>8 DEF Places
<1>10. ASSUME NEW j \in 1..l, NEW k \in 1..l, j < k, new[j].role # "system", new[k].role # "system"
       PROVE  less[j] < less[k]
  BY <1>5, <1>6, <1>7, <1>8, <1>10 DEF Places
<1>11. Embeds(new, list)
  <2>1. Places(new, list, less)
    BY <1>4, <1>9, <1>10, Zenon DEF Places
  <2> QED BY <2>1 DEF Embeds
<1>12. CASE i <= h
  <2>1. h - 1 \in 0..3 /\ h - 1 <= Len(new) /\ Len(new) - (h - 1) <= Len(list)
    BY <1>2, <1>4, <1>12
  <2>2. \A j \in 1..(h - 1) : new[j].role = "system"
    <3> SUFFICES ASSUME NEW j \in 1..(h - 1) PROVE new[j].role = "system"
      OBVIOUS
    <3>1. j \in 1..l /\ At(j) \in 1..h
      BY <1>2, <1>4, <1>12 DEF At
    <3> QED BY <1>2, <1>5, <3>1
  <2>3. Framed(new, list, h - 1)
    BY <1>4, <1>11, <2>1, <2>2 DEF Framed
  <2> QED BY <1>3, <1>4, <2>1, <2>3 DEF FramedOf
<1>13. CASE ~(i <= h)
  <2>1. h <= Len(new) /\ Len(new) - h <= Len(list)
    BY <1>2, <1>4, <1>13
  <2>2. \A j \in 1..h : new[j].role = "system"
    <3> SUFFICES ASSUME NEW j \in 1..h PROVE new[j].role = "system"
      OBVIOUS
    <3>1. j \in 1..l /\ At(j) = j
      BY <1>2, <1>4, <1>13 DEF At
    <3> QED BY <1>2, <1>5, <3>1
  <2>3. Framed(new, list, h)
    BY <1>4, <1>11, <2>1, <2>2 DEF Framed
  <2> QED BY <1>3, <1>4, <2>3 DEF FramedOf
<1> QED BY <1>12, <1>13

\* The message that goes is one of the list.
LEMMA DropAt ==
  ASSUME NEW ms \in Seq(Sound), 1 <= Len(ms)
  PROVE  \E i \in 1..Len(ms) : DropOne(ms) = RemoveAt(ms, i)
<1> DEFINE rest == {j \in 1..Len(ms) : ms[j].role # "system"}
           first == SelectInSeq(ms, LAMBDA m : m.role # "system")
           i == IF first = 0 THEN Len(ms) ELSE first
<1>1. first = IF rest # {} THEN Min(rest) ELSE 0
  BY Zenon DEF SelectInSeq
<1>2. rest # {} => Min(rest) \in rest
  <2> SUFFICES ASSUME rest # {} PROVE Min(rest) \in rest
    OBVIOUS
  <2>1. rest \in SUBSET Nat
    OBVIOUS
  <2>2. \E x \in rest : \A y \in rest : x <= y
    <3> HIDE DEF rest
    <3> QED BY <2>1, LeastNumber
  <2> HIDE DEF rest
  <2> QED BY <2>2, Zenon DEF Min
<1>3. Len(ms) \in 1..Len(ms)
  OBVIOUS
<1>4. first # 0 => first \in 1..Len(ms)
  <2>1. rest \subseteq 1..Len(ms)
    OBVIOUS
  <2> HIDE DEF rest, first
  <2> QED BY <1>1, <1>2, <2>1
<1>5. i \in 1..Len(ms)
  <2> HIDE DEF first
  <2> QED BY <1>3, <1>4
<1>6. DropOne(ms) = RemoveAt(ms, i)
  BY Zenon DEF DropOne
<1> QED
  <2> HIDE DEF i
  <2> QED BY <1>5, <1>6

LEMMA DropTyped ==
  ASSUME NEW ms \in Seq(Sound), 1 <= Len(ms)
  PROVE  DropOne(ms) \in Seq(Sound)
<1>1. PICK i \in 1..Len(ms) : DropOne(ms) = RemoveAt(ms, i)
  BY DropAt
<1> QED BY <1>1, RemoveAtIs

LEMMA DropIs ==
  ASSUME NEW out, NEW list, Len(list) \in Nat, FramedOf(out, list), 1 <= Len(out), NEW new, new = DropOne(out)
  PROVE  FramedOf(new, list) /\ Len(new) = Len(out) - 1 /\ Size(new) <= Size(out)
<1>1. out \in Seq(Sound)
  BY DEF FramedOf, Framed
<1>2. PICK i \in 1..Len(out) : new = RemoveAt(out, i)
  BY <1>1, DropAt
<1> QED BY <1>2, RemoveKeeps

FitStep(f, request) == IF Len(f) > 1 /\ Size(f) > request THEN DropOne(f) ELSE f
Fitting(frame, request) == FoldLeft(LAMBDA f, i : FitStep(f, request), frame, frame)

FitRule(h, frame, request) ==
  /\ h[0] = frame /\ Fitting(frame, request) = h[Len(frame)]
  /\ \A k \in 1..Len(frame) : h[k] = FitStep(h[k - 1], request)

LEMMA FitSteps ==
  ASSUME NEW frame \in Seq(Sound), NEW request
  PROVE  \E h \in [0..Len(frame) -> Seq(Sound)] : FitRule(h, frame, request)
<1> DEFINE n == Len(frame)
           T == Seq(Sound)
           G == [k \in 1..n |-> [a \in T |-> FitStep(a, request)]]
           P(iter) == iter = [v \in SUBSET (1..n) |->
                                IF v = {} THEN frame ELSE FitStep(iter[v \ {Max(v)}], request)]
           f == CHOOSE iter : P(iter)
<1>1. n \in Nat /\ 1..n \in SUBSET (0..n) /\ DOMAIN frame = 1..n /\ frame \in T
  OBVIOUS
<1>2. Fitting(frame, request) = f[1..n]
  BY <1>1, Zenon DEF Fitting, FoldLeft, MapThenFoldSet
<1>3. \A k \in 1..n, a \in T : FitStep(a, request) \in T
  <2> SUFFICES ASSUME NEW a \in T PROVE FitStep(a, request) \in T
    OBVIOUS
  <2>1. Len(a) \in Nat /\ (Len(a) > 1 => 1 <= Len(a))
    OBVIOUS
  <2>2. Len(a) > 1 => DropOne(a) \in T
    BY <2>1, DropTyped
  <2> HIDE DEF T
  <2> QED BY <2>2, Zenon DEF FitStep
<1>4. G \in [1..n -> [T -> T]]
  <2> HIDE DEF T
  <2> QED BY <1>3
<1>5. ASSUME NEW v \in SUBSET (1..n), v # {}, NEW a \in T
      PROVE  G[Max(v)][a] = FitStep(a, request)
  <2>1. Max(v) \in 1..n
    BY <1>1, <1>5, MaxIs
  <2> HIDE DEF T
  <2> QED BY <2>1
<1>6. \E iter : P(iter)
  <2>1. PICK iter \in [SUBSET (1..n) -> T] : FoldRule(1..n, frame, G, iter)
    <3> HIDE DEF G, n, T
    <3> QED BY <1>1, <1>4, FoldExists, Zenon
  <2>2. \A v \in SUBSET (1..n) : iter[v \ {Max(v)}] \in T
    <3> HIDE DEF T, n
    <3> QED BY <2>1
  <2>3. P(iter)
    <3> HIDE DEF G, T
    <3> QED BY <1>5, <2>1, <2>2 DEF FoldRule
  <2> QED BY <2>3
<1>7. P(f)
  BY <1>6, Zenon
<1> HIDE DEF f
<1>8. Folds(f, n, T, frame, G)
  <2> HIDE DEF G, T
  <2> QED BY <1>5, <1>7 DEF Folds
<1>9. PICK h \in [0..n -> T] : Walks(h, n, frame, G) /\ h[n] = f[1..n]
  <2>1. Walked(f, n, T, frame, G)
    <3> HIDE DEF G, T, n
    <3> QED BY <1>1, <1>4, <1>8, FoldWalk, Zenon
  <2> QED BY <2>1, Zenon DEF Walked
<1>10. FitRule(h, frame, request)
  <2>1. h[0] = frame /\ \A k \in 1..n : h[k] = G[k][h[k - 1]]
    BY <1>9, Zenon DEF Walks
  <2>2. \A k \in 1..n : h[k - 1] \in T
    <3> HIDE DEF T
    <3> QED BY <1>1, <1>9
  <2>3. \A k \in 1..n : \A a \in T : G[k][a] = FitStep(a, request)
    <3> HIDE DEF T
    <3> QED OBVIOUS
  <2>4. \A k \in 1..n : h[k] = FitStep(h[k - 1], request)
    <3> HIDE DEF T, G
    <3> QED BY <2>1, <2>2, <2>3, Zenon
  <2> HIDE DEF T, G
  <2> QED BY <1>2, <1>9, <2>1, <2>4 DEF FitRule
<1> QED BY <1>9, <1>10

LEMMA FittedIs ==
  ASSUME NEW frame, NEW list, Len(list) \in Nat, FramedOf(frame, list), NEW request \in Nat, NEW out,
         out = Fitted(frame, request)
  PROVE  /\ FramedOf(out, list) /\ Size(out) <= Size(frame)
         /\ request # 0 => Len(out) <= 1 \/ Size(out) <= request
<1>0. frame \in Seq(Sound) /\ Size(frame) \in Nat
  BY SizeTyped DEF FramedOf, Framed
<1>1. CASE request = 0
  <2>1. out = frame
    BY <1>1 DEF Fitted
  <2> QED BY <1>0, <1>1, <2>1
<1>2. CASE request # 0
  <2> DEFINE n == Len(frame)
  <2>1. n \in Nat
    BY <1>0
  <2>2. PICK h \in [0..n -> Seq(Sound)] : FitRule(h, frame, request)
    BY <1>0, FitSteps, Zenon
  <2>3. out = Fitting(frame, request)
    BY <1>2, Zenon DEF Fitted, Fitting, FitStep
  <2>4. h[0] = frame /\ out = h[n] /\ \A k \in 1..n : h[k] = FitStep(h[k - 1], request)
    BY <2>2, <2>3, Zenon DEF FitRule
  <2> HIDE DEF n
  <2> DEFINE A == {k \in 0..n : /\ FramedOf(h[k], list) /\ Size(h[k]) <= Size(frame)
                                /\ Size(h[k]) <= request \/ Len(h[k]) <= 1 \/ Len(h[k]) <= n - k}
  <2>5. 0 \in A
    BY <1>0, <2>1, <2>4 DEF n
  <2>6. ASSUME NEW k \in 1..n, k - 1 \in A PROVE k \in A
    <3>1. PICK old, new : old = h[k - 1] /\ new = h[k]
      OBVIOUS
    <3>2. /\ FramedOf(old, list) /\ Size(old) <= Size(frame)
          /\ Size(old) <= request \/ Len(old) <= 1 \/ Len(old) <= n - (k - 1)
      BY <2>6, <3>1
    <3>3. new = FitStep(old, request) /\ k \in Nat /\ k \in 0..n
      BY <2>1, <2>4, <3>1
    <3>4. old \in Seq(Sound) /\ Len(old) \in Nat /\ Size(old) \in Nat
      BY <3>2, SizeTyped DEF FramedOf, Framed
    <3>5. CASE Len(old) > 1 /\ Size(old) > request
      <4>1. new = DropOne(old) /\ 1 <= Len(old)
        BY <3>3, <3>4, <3>5 DEF FitStep
      <4>2. FramedOf(new, list) /\ Len(new) = Len(old) - 1 /\ Size(new) <= Size(old)
        BY <3>2, <4>1, DropIs, Zenon
      <4>3. Size(new) \in Nat
        BY <4>2, SizeTyped DEF FramedOf, Framed
      <4>4. Len(new) <= n - k /\ Size(new) <= Size(frame)
        BY <1>0, <2>1, <3>2, <3>3, <3>4, <3>5, <4>2, <4>3
      <4> QED BY <3>1, <3>3, <4>2, <4>4
    <3>6. CASE ~(Len(old) > 1 /\ Size(old) > request)
      <4>1. new = old
        BY <3>3, <3>6, Zenon DEF FitStep
      <4>2. Size(new) <= request \/ Len(new) <= 1
        BY <3>4, <3>6, <4>1
      <4> QED BY <3>1, <3>2, <3>3, <4>1, <4>2
    <3> QED BY <3>5, <3>6
  <2>7. \A k \in 0..n : k \in A
    <3> HIDE DEF A
    <3> QED BY <2>1, <2>5, <2>6, RangeInduction
  <2>8. n \in 0..n /\ n \in A /\ n - n = 0
    BY <2>1, <2>7
  <2>9. /\ FramedOf(out, list) /\ Size(out) <= Size(frame)
        /\ Size(out) <= request \/ Len(out) <= 1 \/ Len(out) <= 0
    BY <2>4, <2>8
  <2>10. Len(out) \in Nat
    BY <2>9 DEF FramedOf, Framed
  <2> QED BY <2>9, <2>10
<1> QED BY <1>1, <1>2

CompressedHolds(out, list, request) ==
  /\ FramedOf(out, list)
  /\ request # 0 => Len(out) <= 1 \/ Size(out) <= request
  /\ request = 0 => Size(out) <= 64

LEMMA CompressedIs ==
  ASSUME NEW ms \in Seq(Sound), NEW request \in Nat
  PROVE  CompressedHolds(Compressed(ms, request), Turn(Sanitize(ms)), request)
<1>1. PICK list, made, frame, out :
        /\ list = Turn(Sanitize(ms)) /\ made = Assembled(ms, request) /\ frame = Converged(ms, made)
        /\ out = Fitted(frame, request)
  OBVIOUS
<1>2. Len(list) \in Nat
  BY <1>1, SanitizeIs, TurnIs
<1>3. FramedOf(made, list) /\ (request = 0 => Size(made) <= 64)
  BY <1>1, AssembledIs, Zenon DEF FramedOf
<1>4. made \in Seq(Sound) /\ Size(made) \in Nat
  BY <1>3, SizeTyped DEF FramedOf, Framed
<1>5. FramedOf(frame, list) /\ Size(frame) <= Size(made)
  <2>1. CASE Len(made) >= Len(ms) /\ Len(made) > 1 /\ \E i \in 1..Len(made) : made[i].role # "system"
    <3>1. frame = DropOne(made)
      BY <1>1, <2>1, Zenon DEF Converged
    <3>2. 1 <= Len(made)
      BY <1>4, <2>1
    <3> QED BY <1>2, <1>3, <3>1, <3>2, DropIs
  <2>2. CASE ~(Len(made) >= Len(ms) /\ Len(made) > 1 /\ \E i \in 1..Len(made) : made[i].role # "system")
    <3>1. frame = made
      BY <1>1, <2>2, Zenon DEF Converged
    <3> QED BY <1>3, <1>4, <3>1
  <2> QED BY <2>1, <2>2
<1>6. /\ FramedOf(out, list) /\ Size(out) <= Size(frame)
      /\ request # 0 => Len(out) <= 1 \/ Size(out) <= request
  BY <1>1, <1>2, <1>5, FittedIs, Zenon
<1>7. Size(frame) \in Nat /\ Size(out) \in Nat
  BY <1>5, <1>6, SizeTyped DEF FramedOf, Framed
<1>8. request = 0 => Size(out) <= 64
  BY <1>3, <1>4, <1>5, <1>6, <1>7
<1>9. out = Compressed(ms, request)
  BY <1>1, Zenon DEF Compressed
<1> QED BY <1>1, <1>6, <1>8, <1>9, Zenon DEF CompressedHolds

LEMMA FailsAlone ==
  ASSUME NEW ms \in Seq(Sound), NEW request \in Nat, Fails(ms, request)
  PROVE  Len(Compressed(ms, request)) = 1
<1>1. PICK out, list : out = Compressed(ms, request) /\ list = Turn(Sanitize(ms))
  OBVIOUS
<1>2. CompressedHolds(out, list, request)
  BY <1>1, CompressedIs
<1>3. out \in Seq(Sound) /\ Len(out) \in Nat /\ Size(out) \in Nat
  BY <1>2, SizeTyped DEF CompressedHolds, FramedOf, Framed
<1>4. Size(out) > Limit(request)
  BY <1>1 DEF Fails
<1>5. request # 0
  BY <1>2, <1>3, <1>4 DEF CompressedHolds, Limit, Threshold
<1>6. Len(out) <= 1
  BY <1>2, <1>3, <1>4, <1>5 DEF CompressedHolds, Limit
<1>7. Len(out) # 0
  <2> SUFFICES ASSUME Len(out) = 0 PROVE FALSE
    OBVIOUS
  <2>1. out = <<>>
    BY <1>3
  <2>2. Size(out) = 0
    BY <2>1, SizeOfNone
  <2> QED BY <1>4, <1>5, <2>2 DEF Limit
<1> QED BY <1>1, <1>3, <1>6, <1>7

-----------------------------------------------------------------------------
(* The frame: what it holds is the current turn's, in its order            *)

MatchStep(rest, m) == IF rest # <<>> /\ Cleaned(m) = Head(rest) THEN Tail(rest) ELSE rest
Unmatched(out, ms) == FoldLeft(MatchStep, out, ms)

LEMMA TailOf ==
  ASSUME NEW rest \in Seq(Sound), rest # <<>>, NEW less, less = Tail(rest)
  PROVE  /\ less \in Seq(Sound) /\ Len(less) = Len(rest) - 1 /\ Len(rest) \in Nat \ {0} /\ Head(rest) = rest[1]
         /\ \A j \in 1..Len(less) : less[j] = rest[j + 1]
<1>1. Len(rest) \in Nat /\ Len(rest) # 0
  OBVIOUS
<1>2. less \in Seq(Sound) /\ Len(less) = Len(rest) - 1 /\ Head(rest) = rest[1]
  OBVIOUS
<1>3. \A j \in 1..Len(less) : less[j] = rest[j + 1]
  BY <1>1, <1>2
<1> QED BY <1>1, <1>2, <1>3

MatchRule(h, out, ms) ==
  /\ h[0] = out /\ Unmatched(out, ms) = h[Len(ms)]
  /\ \A k \in 1..Len(ms) : h[k] = MatchStep(h[k - 1], ms[k])

LEMMA MatchSteps ==
  ASSUME NEW out \in Seq(Sound), NEW ms \in Seq(Sound)
  PROVE  \E h \in [0..Len(ms) -> Seq(Sound)] : MatchRule(h, out, ms)
<1> DEFINE n == Len(ms)
           T == Seq(Sound)
           G == [k \in 1..n |-> [a \in T |-> MatchStep(a, ms[k])]]
           P(iter) == iter = [v \in SUBSET (1..n) |->
                                IF v = {} THEN out ELSE MatchStep(iter[v \ {Max(v)}], ms[Max(v)])]
           f == CHOOSE iter : P(iter)
<1>1. n \in Nat /\ 1..n \in SUBSET (0..n) /\ DOMAIN ms = 1..n /\ out \in T
  OBVIOUS
<1>2. Unmatched(out, ms) = f[1..n]
  BY <1>1, Zenon DEF Unmatched, FoldLeft, MapThenFoldSet
<1>3. \A k \in 1..n, a \in T : MatchStep(a, ms[k]) \in T
  <2> SUFFICES ASSUME NEW k \in 1..n, NEW a \in T PROVE MatchStep(a, ms[k]) \in T
    OBVIOUS
  <2>1. a # <<>> => Tail(a) \in T
    BY TailOf
  <2> HIDE DEF T
  <2> QED BY <2>1, Zenon DEF MatchStep
<1>4. G \in [1..n -> [T -> T]]
  <2> HIDE DEF T
  <2> QED BY <1>3
<1>5. ASSUME NEW v \in SUBSET (1..n), v # {}, NEW a \in T
      PROVE  G[Max(v)][a] = MatchStep(a, ms[Max(v)])
  <2>1. Max(v) \in 1..n
    BY <1>1, <1>5, MaxIs
  <2> HIDE DEF T
  <2> QED BY <2>1
<1>6. \E iter : P(iter)
  <2>1. PICK iter \in [SUBSET (1..n) -> T] : FoldRule(1..n, out, G, iter)
    <3> HIDE DEF G, n, T
    <3> QED BY <1>1, <1>4, FoldExists, Zenon
  <2>2. \A v \in SUBSET (1..n) : iter[v \ {Max(v)}] \in T
    <3> HIDE DEF T, n
    <3> QED BY <2>1
  <2>3. P(iter)
    <3> HIDE DEF G, T
    <3> QED BY <1>5, <2>1, <2>2 DEF FoldRule
  <2> QED BY <2>3
<1>7. P(f)
  BY <1>6, Zenon
<1> HIDE DEF f
<1>8. Folds(f, n, T, out, G)
  <2> HIDE DEF G, T
  <2> QED BY <1>5, <1>7 DEF Folds
<1>9. PICK h \in [0..n -> T] : Walks(h, n, out, G) /\ h[n] = f[1..n]
  <2>1. Walked(f, n, T, out, G)
    <3> HIDE DEF G, T, n
    <3> QED BY <1>1, <1>4, <1>8, FoldWalk, Zenon
  <2> QED BY <2>1, Zenon DEF Walked
<1>10. MatchRule(h, out, ms)
  <2>1. h[0] = out /\ \A k \in 1..n : h[k] = G[k][h[k - 1]]
    BY <1>9, Zenon DEF Walks
  <2>2. \A k \in 1..n : h[k - 1] \in T
    <3> HIDE DEF T
    <3> QED BY <1>1, <1>9
  <2>3. \A k \in 1..n : \A a \in T : G[k][a] = MatchStep(a, ms[k])
    <3> HIDE DEF T
    <3> QED OBVIOUS
  <2>4. \A k \in 1..n : h[k] = MatchStep(h[k - 1], ms[k])
    <3> HIDE DEF T, G
    <3> QED BY <2>1, <2>2, <2>3, Zenon
  <2> HIDE DEF T, G
  <2> QED BY <1>2, <1>9, <2>1, <2>4 DEF MatchRule
<1> QED BY <1>9, <1>10

\* What is left of a: its elements from the one after c on.
LeftFrom(rest, a, c) ==
  /\ rest \in Seq(Sound) /\ c \in 0..Len(a) /\ Len(rest) = Len(a) - c
  /\ \A j \in 1..Len(rest) : rest[j] = a[c + j]

\* A sequence whose elements are, cleaned, at rising places of another.
LEMMA MatchAll ==
  ASSUME NEW a \in Seq(Sound), NEW b \in Seq(Sound), NEW z,
         \A i \in 1..Len(a) : z[i] \in 1..Len(b) /\ a[i] = Cleaned(b[z[i]]),
         \A i, j \in 1..Len(a) : i < j => z[i] < z[j]
  PROVE  Within(a, b)
<1> DEFINE n == Len(b)
           l == Len(a)
           Past(k, c) == \A i \in 1..l : z[i] <= k => i <= c
<1>1. n \in Nat /\ l \in Nat /\ \A i \in 1..l : z[i] \in 1..n
  OBVIOUS
<1>2. PICK h \in [0..n -> Seq(Sound)] : MatchRule(h, a, b)
  BY MatchSteps, Zenon
<1>3. h[0] = a /\ Unmatched(a, b) = h[n] /\ \A k \in 1..n : h[k] = MatchStep(h[k - 1], b[k])
  BY <1>2 DEF MatchRule
<1> DEFINE A == {k \in 0..n : \E c : LeftFrom(h[k], a, c) /\ Past(k, c)}
<1>4. 0 \in A
  <2>1. LeftFrom(h[0], a, 0)
    BY <1>1, <1>3 DEF LeftFrom
  <2>2. Past(0, 0)
    BY <1>1
  <2> HIDE DEF Past
  <2> QED BY <1>1, <2>1, <2>2
<1>5. ASSUME NEW k \in 1..n, k - 1 \in A PROVE k \in A
  <2>1. PICK c, old, new : LeftFrom(old, a, c) /\ Past(k - 1, c) /\ old = h[k - 1] /\ new = h[k]
    BY <1>5
  <2>2. /\ old \in Seq(Sound) /\ c \in 0..l /\ Len(old) = l - c
        /\ \A j \in 1..Len(old) : old[j] = a[c + j]
    BY <2>1 DEF LeftFrom
  <2>3. new = MatchStep(old, b[k]) /\ k \in Nat /\ k \in 0..n
    BY <1>1, <1>3, <2>1
  <2>4. \A i \in 1..l : z[i] <= k - 1 => i <= c
    BY <2>1
  <2>5. \A i \in 1..l : z[i] <= k => i <= c \/ i = c + 1
    <3> SUFFICES ASSUME NEW i \in 1..l, z[i] <= k, ~(i <= c), i # c + 1 PROVE FALSE
      OBVIOUS
    <3>1. c + 1 \in 1..l /\ c + 1 < i
      BY <1>1, <2>2
    <3>2. z[c + 1] < z[i] /\ z[c + 1] \in 1..n /\ z[i] \in 1..n
      BY <1>1, <3>1
    <3>3. z[c + 1] <= k - 1
      BY <1>1, <2>3, <3>2
    <3>4. c + 1 <= c
      BY <2>4, <3>1, <3>3
    <3> QED BY <2>2, <3>4
  <2>6. CASE old # <<>> /\ Cleaned(b[k]) = Head(old)
    <3>1. new = Tail(old)
      BY <2>3, <2>6, Zenon DEF MatchStep
    <3>2. /\ new \in Seq(Sound) /\ Len(new) = Len(old) - 1 /\ Len(old) \in Nat \ {0}
          /\ \A j \in 1..Len(new) : new[j] = old[j + 1]
      BY <2>2, <2>6, <3>1, TailOf
    <3>3. c + 1 \in 0..l /\ Len(new) = l - (c + 1)
      BY <1>1, <2>2, <3>2
    <3>4. \A j \in 1..Len(new) : new[j] = a[(c + 1) + j]
      <4> SUFFICES ASSUME NEW j \in 1..Len(new) PROVE new[j] = a[(c + 1) + j]
        OBVIOUS
      <4>1. j + 1 \in 1..Len(old) /\ c + (j + 1) = (c + 1) + j
        BY <2>2, <3>2
      <4> QED BY <2>2, <3>2, <4>1
    <3>5. LeftFrom(new, a, c + 1)
      BY <3>2, <3>3, <3>4 DEF LeftFrom
    <3>6. Past(k, c + 1)
      <4> SUFFICES ASSUME NEW i \in 1..l, z[i] <= k PROVE i <= c + 1
        OBVIOUS
      <4>1. i <= c \/ i = c + 1
        BY <2>5
      <4> QED BY <1>1, <2>2, <4>1
    <3> HIDE DEF Past
    <3> QED BY <2>1, <2>3, <3>5, <3>6
  <2>7. CASE ~(old # <<>> /\ Cleaned(b[k]) = Head(old))
    <3>1. new = old
      BY <2>3, <2>7, Zenon DEF MatchStep
    <3>2. Past(k, c)
      <4> SUFFICES ASSUME NEW i \in 1..l, z[i] <= k, ~(i <= c) PROVE FALSE
        OBVIOUS
      <4>1. i = c + 1
        BY <2>5
      <4>2. z[i] = k
        <5>1. ~(z[i] <= k - 1)
          BY <2>4
        <5> QED BY <1>1, <2>3, <5>1
      <4>3. old # <<>> /\ 1 \in 1..Len(old)
        BY <1>1, <2>2, <4>1
      <4>4. Head(old) = a[c + 1]
        BY <2>2, <4>3
      <4>5. a[c + 1] = Cleaned(b[k])
        BY <4>1, <4>2
      <4> QED BY <2>7, <4>3, <4>4, <4>5
    <3> HIDE DEF Past
    <3> QED BY <2>1, <2>3, <3>1, <3>2
  <2> QED BY <2>6, <2>7
<1>6. \A k \in 0..n : k \in A
  <2> HIDE DEF A
  <2> QED BY <1>1, <1>4, <1>5, RangeInduction
<1>7. PICK c : LeftFrom(h[n], a, c) /\ Past(n, c)
  <2>1. n \in A
    BY <1>1, <1>6
  <2> QED BY <2>1
<1>8. c = l
  <2> SUFFICES ASSUME c # l PROVE FALSE
    OBVIOUS
  <2>1. c \in 0..l /\ l \in 1..l
    BY <1>1, <1>7 DEF LeftFrom
  <2>2. z[l] <= n
    BY <1>1, <2>1
  <2>3. l <= c
    BY <1>7, <2>1, <2>2
  <2> QED BY <1>1, <2>1, <2>3
<1>9. h[n] = <<>>
  <2>1. h[n] \in Seq(Sound) /\ Len(h[n]) = l - l
    BY <1>7, <1>8 DEF LeftFrom
  <2> QED BY <1>1, <2>1
<1>10. Unmatched(a, b) = <<>>
  BY <1>3, <1>9
<1> QED BY <1>10, Zenon DEF Within, Unmatched, MatchStep

\* The turns of a sequence: what Only picks, without the set.
TurnsAt(out, ms, pos) ==
  /\ \A i \in 1..Len(out) : pos[i] \in 1..Len(ms) /\ out[i] = ms[pos[i]] /\ out[i].role # "system"
  /\ \A i, j \in 1..Len(out) : i < j => pos[i] < pos[j]
  /\ \A k \in 1..Len(ms) : ms[k].role # "system" => \E i \in 1..Len(out) : pos[i] = k

LEMMA TurnsAre ==
  ASSUME NEW ms \in Seq(Sound)
  PROVE  Turns(ms) \in Seq(Sound) /\ \E pos : TurnsAt(Turns(ms), ms, pos)
<1> DEFINE set == {m \in ToSet(ms) : m.role # "system"}
<1>1. PICK out : out = Turns(ms)
  OBVIOUS
<1>2. out = Only(ms, set)
  BY <1>1 DEF Turns
<1>3. DOMAIN ms = 1..Len(ms)
  OBVIOUS
<1>4. \A k \in 1..Len(ms) : ms[k] \in set <=> ms[k].role # "system"
  <2>1. \A k \in 1..Len(ms) : ms[k] \in ToSet(ms)
    BY <1>3 DEF ToSet
  <2> QED BY <2>1
<1> HIDE DEF set
<1>5. out \in Seq(Sound) /\ \E pos : Picks(out, ms, set, Len(ms), pos)
  BY <1>2, OnlyIs, Zenon
<1>6. PICK pos : Picks(out, ms, set, Len(ms), pos)
  BY <1>5
<1>7. /\ \A i \in 1..Len(out) : pos[i] \in 1..Len(ms) /\ out[i] = ms[pos[i]] /\ ms[pos[i]] \in set
      /\ \A i, j \in 1..Len(out) : i < j => pos[i] < pos[j]
      /\ \A k \in 1..Len(ms) : ms[k] \in set => \E i \in 1..Len(out) : pos[i] = k
  BY <1>6 DEF Picks
<1>8. \A i \in 1..Len(out) : pos[i] \in 1..Len(ms) /\ out[i] = ms[pos[i]] /\ out[i].role # "system"
  BY <1>4, <1>7
<1>9. \A k \in 1..Len(ms) : ms[k].role # "system" => \E i \in 1..Len(out) : pos[i] = k
  BY <1>4, <1>7
<1>10. TurnsAt(out, ms, pos)
  BY <1>7, <1>8, <1>9 DEF TurnsAt
<1> QED BY <1>1, <1>5, <1>10

LEMMA WithinIs ==
  ASSUME NEW out \in Seq(Sound), NEW list \in Seq(Sound), Embeds(out, list)
  PROVE  Within(Turns(out), Turns(list))
<1>1. PICK a, b : a = Turns(out) /\ b = Turns(list)
  OBVIOUS
<1>2. PICK p : TurnsAt(a, out, p)
  BY <1>1, TurnsAre
<1>3. PICK q : TurnsAt(b, list, q)
  BY <1>1, TurnsAre
<1>4. PICK pos : Places(out, list, pos)
  BY DEF Embeds
<1>5. a \in Seq(Sound) /\ b \in Seq(Sound)
  BY <1>1, TurnsAre
<1>6. \A i \in 1..Len(a) : pos[p[i]] \in 1..Len(list) /\ a[i] = Cleaned(list[pos[p[i]]])
  BY <1>2, <1>4 DEF Places, TurnsAt
<1>7. \A i, j \in 1..Len(a) : i < j => pos[p[i]] < pos[p[j]]
  BY <1>2, <1>4 DEF Places, TurnsAt
<1>8. \A i \in 1..Len(a) : \E j \in 1..Len(b) : q[j] = pos[p[i]]
  <2> SUFFICES ASSUME NEW i \in 1..Len(a) PROVE \E j \in 1..Len(b) : q[j] = pos[p[i]]
    OBVIOUS
  <2>1. list[pos[p[i]]] \in Sound
    BY <1>6
  <2>2. list[pos[p[i]]].role # "system"
    BY <1>2, <1>6, <2>1, CleanedIs DEF TurnsAt
  <2> QED BY <1>3, <1>6, <2>2 DEF TurnsAt
<1> DEFINE z == [i \in 1..Len(a) |-> CHOOSE j \in 1..Len(b) : q[j] = pos[p[i]]]
<1>9. \A i \in 1..Len(a) : z[i] \in 1..Len(b) /\ q[z[i]] = pos[p[i]]
  BY <1>8
<1> HIDE DEF z
<1>10. \A i \in 1..Len(a) : z[i] \in 1..Len(b) /\ a[i] = Cleaned(b[z[i]])
  <2> SUFFICES ASSUME NEW i \in 1..Len(a) PROVE a[i] = Cleaned(b[z[i]])
    BY <1>9
  <2>1. b[z[i]] = list[q[z[i]]]
    BY <1>3, <1>9 DEF TurnsAt
  <2>2. b[z[i]] = list[pos[p[i]]]
    BY <1>9, <2>1
  <2> QED BY <1>6, <2>2
<1>11. \A i, j \in 1..Len(a) : i < j => z[i] < z[j]
  <2> SUFFICES ASSUME NEW i \in 1..Len(a), NEW j \in 1..Len(a), i < j, ~(z[i] < z[j]) PROVE FALSE
    OBVIOUS
  <2>1. q[z[i]] < q[z[j]]
    BY <1>7, <1>9
  <2>2. z[i] \in 1..Len(b) /\ z[j] \in 1..Len(b)
    BY <1>9
  <2>3. q[z[i]] \in 1..Len(list) /\ q[z[j]] \in 1..Len(list)
    BY <1>3, <2>2 DEF TurnsAt
  <2>4. CASE z[j] < z[i]
    <3>1. q[z[j]] < q[z[i]]
      BY <1>3, <2>2, <2>4 DEF TurnsAt
    <3> QED BY <2>1, <2>3, <3>1
  <2>5. CASE z[j] = z[i]
    BY <2>1, <2>3, <2>5
  <2> QED BY <2>2, <2>4, <2>5
<1> QED BY <1>1, <1>5, <1>10, <1>11, MatchAll

-----------------------------------------------------------------------------
(* The frame: the conversation                                             *)

\* Every message is one the host or the engine makes, the engine's own are in
\* front, and what compress has taken out the archive was told of.
FrameInv ==
  /\ msgs \in Seq(Sound) /\ Headed(msgs, MaxMessages)
  /\ tried \subseteq Calls /\ removed \subseteq tried

LEMMA CtxStart == ContextInit => FrameInv
<1> SUFFICES ASSUME ContextInit PROVE FrameInv
  OBVIOUS
<1>1. msgs = <<>> /\ tried = {} /\ removed = {}
  BY DEF ContextInit, CtxInit
<1>2. Headed(msgs, MaxMessages)
  BY <1>1, FrameAssumption DEF Headed
<1> QED BY <1>1, <1>2 DEF FrameInv

\* The turn comes after the engine's own messages.
LEMMA TurnIsShort ==
  ASSUME NEW ms \in Seq(Sound), NEW n \in Nat, Headed(ms, n)
  PROVE  Len(Turn(ms)) <= n
<1>1. PICK h \in 0..3 : h <= Len(ms) /\ Len(ms) - h <= n /\ \A i \in 1..h : ms[i].role = "system"
  BY DEF Headed
<1>2. PICK latest : latest = LatestUser(ms)
  OBVIOUS
<1>3. latest \in 0..Len(ms) /\ (latest # 0 => Real(ms[latest]))
  BY <1>2, LatestIs
<1>4. CASE latest = 0
  BY <1>2, <1>4 DEF Turn
<1>5. CASE latest # 0
  <2>1. ms[latest].role = "user"
    BY <1>3, <1>5 DEF Real
  <2>2. ~(latest <= h)
    BY <1>1, <1>3, <1>5, <2>1
  <2>3. Turn(ms) = SubSeq(ms, latest, Len(ms))
    BY <1>2, <1>5, Zenon DEF Turn
  <2>4. Len(SubSeq(ms, latest, Len(ms))) = Len(ms) - latest + 1
    BY <1>3, <1>5
  <2>5. Len(ms) \in Nat
    OBVIOUS
  <2> QED BY <1>1, <1>3, <2>2, <2>3, <2>4, <2>5
<1> QED BY <1>4, <1>5

LEMMA SayHolds ==
  ASSUME FrameInv, NEW m \in Sayings, Say(m)
  PROVE  FrameInv'
<1>1. m \in Sound /\ msgs \in Seq(Sound) /\ Len(msgs) < MaxMessages /\ msgs' = Append(msgs, m)
      /\ tried' = tried /\ removed' = removed
  BY SayingsSound DEF FrameInv, Say
<1>2. msgs' \in Seq(Sound) /\ Len(msgs') = Len(msgs) + 1
  BY <1>1
<1>3. 0 \in 0..3 /\ 0 <= Len(msgs') /\ Len(msgs') - 0 <= MaxMessages /\ \A i \in 1..0 : msgs'[i].role = "system"
  BY <1>1, <1>2, FrameAssumption
<1>4. Headed(msgs', MaxMessages)
  BY <1>3 DEF Headed
<1> QED BY <1>1, <1>2, <1>4 DEF FrameInv

LEMMA CompressHolds ==
  ASSUME FrameInv, NEW request \in Budgets, Compress(request)
  PROVE  FrameInv'
<1>1. request \in Nat /\ MaxMessages \in Nat
  BY FrameAssumption
<1>2. PICK clean, out, latest : clean = Sanitize(msgs) /\ out = Compressed(msgs, request) /\ latest = LatestUser(clean)
  OBVIOUS
<1>3. msgs \in Seq(Sound) /\ Headed(msgs, MaxMessages) /\ tried \subseteq Calls /\ removed \subseteq tried
  BY DEF FrameInv
<1>4. clean \in Seq(Sound) /\ Headed(clean, MaxMessages)
  BY <1>1, <1>2, <1>3, SanitizeIs
<1>5. out \in Seq(Sound) /\ Headed(out, MaxMessages)
  <2>1. CompressedHolds(out, Turn(clean), request)
    BY <1>1, <1>2, <1>3, CompressedIs
  <2>2. PICK h \in 0..3 : Framed(out, Turn(clean), h)
    BY <2>1 DEF CompressedHolds, FramedOf
  <2>3. out \in Seq(Sound) /\ h <= Len(out) /\ Len(out) - h <= Len(Turn(clean)) /\ \A i \in 1..h : out[i].role = "system"
    BY <2>2 DEF Framed
  <2>4. Len(Turn(clean)) <= MaxMessages /\ Len(Turn(clean)) \in Nat
    BY <1>1, <1>4, TurnIsShort, TurnIs
  <2>5. Len(out) \in Nat
    BY <2>3
  <2>6. Len(out) - h <= MaxMessages
    BY <1>1, <2>3, <2>4, <2>5
  <2> QED BY <2>3, <2>6 DEF Headed
<1>6. Archived(msgs) = IF latest = 0 THEN {} ELSE Failed(clean)
  BY <1>2, Zenon DEF Archived
<1>7. Failed(clean) \subseteq Calls
  BY <1>4, FailedAreCalls
<1>8. /\ tried' = tried \cup Archived(msgs)
      /\ \/ msgs' = msgs /\ removed' = removed
         \/ /\ msgs' = out
            /\ removed' = IF latest = 0 THEN removed ELSE removed \cup (Failed(clean) \ Failed(out))
  BY <1>2, Zenon DEF Compress
<1>9. msgs' \in Seq(Sound) /\ Headed(msgs', MaxMessages)
  BY <1>3, <1>5, <1>8, Zenon
<1>10. tried' \subseteq Calls /\ removed' \subseteq tried'
  BY <1>3, <1>6, <1>7, <1>8
<1> QED BY <1>9, <1>10 DEF FrameInv

LEMMA FrameKept == FrameInv /\ [ContextNext]_contextVars => FrameInv'
<1> SUFFICES ASSUME FrameInv, [ContextNext]_contextVars PROVE FrameInv'
  OBVIOUS
<1>1. ASSUME ctxVars' = ctxVars PROVE FrameInv'
  <2>1. msgs' = msgs /\ tried' = tried /\ removed' = removed
    BY <1>1 DEF ctxVars
  <2> QED BY <2>1 DEF FrameInv
<1>2. ASSUME CtxNext PROVE FrameInv'
  <2>1. ASSUME ResetEngine PROVE FrameInv'
    <3>1. msgs' = <<>> /\ tried' = {} /\ removed' = {}
      BY <2>1 DEF ResetEngine
    <3>2. Headed(msgs', MaxMessages)
      BY <3>1, FrameAssumption DEF Headed
    <3> QED BY <3>1, <3>2 DEF FrameInv
  <2> QED BY <1>2, <2>1, SayHolds, CompressHolds, Zenon DEF CtxNext
<1>3. CtxNext \/ ctxVars' = ctxVars
  BY Zenon DEF ContextNext, RunFrame, RunDialogue, RunRecall, RunShadow, RunLineage, contextVars
<1> QED BY <1>1, <1>2, <1>3

LEMMA FrameHolds == FrameInv => CtxTypeOK /\ FrameIsCurrent /\ RequestIsTheUsers /\ FailsOnlyAlone /\ EvidenceKept
<1> SUFFICES ASSUME FrameInv PROVE CtxTypeOK /\ FrameIsCurrent /\ RequestIsTheUsers /\ FailsOnlyAlone /\ EvidenceKept
  OBVIOUS
<1>1. msgs \in Seq(Sound) /\ Headed(msgs, MaxMessages) /\ tried \subseteq Calls /\ removed \subseteq tried
  BY DEF FrameInv
<1>2. Budgets \subseteq Nat /\ MaxMessages \in Nat
  BY FrameAssumption
<1>3. CtxTypeOK
  <2>1. Len(msgs) <= MaxMessages + 3
    <3>1. PICK h \in 0..3 : h <= Len(msgs) /\ Len(msgs) - h <= MaxMessages
      BY <1>1 DEF Headed
    <3>2. Len(msgs) \in Nat
      BY <1>1
    <3> QED BY <1>2, <3>1, <3>2
  <2>2. \A i \in 1..Len(msgs) : msgs[i].role \in {"user", "assistant", "tool", "system"}
    <3>1. \A i \in 1..Len(msgs) : msgs[i] \in Sound
      BY <1>1
    <3> QED BY <3>1, SoundIs
  <2> QED BY <1>1, <2>1, <2>2 DEF CtxTypeOK
<1>4. FrameIsCurrent
  <2>1. ASSUME NEW request \in Budgets, NEW clean, clean = Sanitize(msgs), NEW latest, latest = LatestUser(clean),
               latest # 0
        PROVE  Within(Turns(Compressed(msgs, request)), Turns(SubSeq(clean, latest, Len(clean))))
    <3>1. PICK out, list : out = Compressed(msgs, request) /\ list = Turn(clean)
      OBVIOUS
    <3>2. CompressedHolds(out, list, request)
      BY <1>1, <1>2, <2>1, <3>1, CompressedIs
    <3>3. out \in Seq(Sound) /\ Embeds(out, list)
      BY <3>2 DEF CompressedHolds, FramedOf, Framed
    <3>4. list \in Seq(Sound)
      BY <1>1, <2>1, <3>1, SanitizeIs, TurnIs
    <3>5. list = SubSeq(clean, latest, Len(clean))
      BY <2>1, <3>1, Zenon DEF Turn
    <3>6. Within(Turns(out), Turns(list))
      BY <3>3, <3>4, WithinIs
    <3> QED BY <3>1, <3>5, <3>6
  <2> QED BY <2>1, Zenon DEF FrameIsCurrent
<1>5. RequestIsTheUsers
  BY <1>1, RequestIsRead
<1>6. FailsOnlyAlone
  BY <1>1, <1>2, FailsAlone DEF FailsOnlyAlone
<1>7. EvidenceKept
  BY <1>1 DEF EvidenceKept
<1> QED BY <1>3, <1>4, <1>5, <1>6, <1>7

\* Whatever has been said, in whatever order, and whatever the budget: compress
\* keeps nothing of an earlier turn, names a request of the user's, refuses only
\* a frame that is alone, and takes no failed call out of the conversation that
\* the archive was not told of.
THEOREM FrameIsSafe == ContextSpec => []FrameSafe
<1>1. RecallInv => RecallTypeOK
  BY DEF RecallInv, RecallTyped, RecallTypeOK, Recalls, Items, Rows
<1>2. RecallInv /\ FrameInv => FrameSafe
  BY <1>1, FrameHolds, Zenon DEF FrameSafe
<1> QED BY <1>2, RecallStart, RecallKept, CtxStart, FrameKept, PTL DEF ContextSpec

=============================================================================

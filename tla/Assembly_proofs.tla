-------------------------- MODULE Assembly_proofs ----------------------------
(* Proofs about the assembly of a block, for any height of three bytes, any *)
(* number of transactions and any length of what GenerateWork is given.     *)
EXTENDS BlockAssembly, SequenceTheorems, WellFoundedInduction, TLAPS

(***************************************************************************)
(* Recursion over 0..n                                                     *)
(***************************************************************************)
LEMMA UpTo ==
  ASSUME NEW n \in Nat, NEW Good, 0 \in Good,
         \A m \in 0..n : m \in Good /\ m # n => m + 1 \in Good
  PROVE  \A m \in 0..n : m \in Good
<1> DEFINE Bad == {m \in 0..n : m \notin Good}
<1> SUFFICES ASSUME Bad # {} PROVE FALSE
  OBVIOUS
<1>1. Bad \subseteq Nat
  OBVIOUS
<1>2. PICK m \in Bad : \A k \in Bad : ~(<<k, m>> \in OpToRel(<, Nat))
  <2> HIDE DEF Bad
  <2> QED BY <1>1, NatLessThanWellFounded, WFMin
<1>3. \A k \in Bad : ~(k < m)
  BY <1>1, <1>2 DEF OpToRel
<1>4. m \in 0..n /\ m # 0 /\ m - 1 \in 0..n /\ m - 1 # n /\ m - 1 < m
  OBVIOUS
<1>5. m - 1 \in Good
  BY <1>3, <1>4
<1>6. (m - 1) + 1 \in Good /\ (m - 1) + 1 = m
  BY <1>4, <1>5
<1> QED BY <1>6

(* The rows of a merkle tree.                                               *)
AreRows(nodes, n, f) == f = [k \in 0..n |-> IF k = 0 THEN nodes ELSE Above(f[k - 1])]
rowsOf(nodes, n) == CHOOSE f : AreRows(nodes, n, f)

LEMMA RowsExist ==
  ASSUME NEW nodes, NEW n \in Nat
  PROVE  AreRows(nodes, n, rowsOf(nodes, n))
<1> DEFINE Good == {m \in 0..n : \E f : AreRows(nodes, m, f)}
<1>1. 0 \in Good
  <2>1. AreRows(nodes, 0, [k \in 0..0 |-> nodes])
    BY DEF AreRows
  <2> QED BY <2>1
<1>2. ASSUME NEW m \in 0..n, m \in Good, m # n PROVE m + 1 \in Good
  <2>1. PICK f : AreRows(nodes, m, f)
    BY <1>2
  <2> DEFINE g == [k \in 0..(m + 1) |-> IF k = m + 1 THEN Above(f[m]) ELSE f[k]]
  <2>2. ASSUME NEW k \in 0..(m + 1)
        PROVE  g[k] = IF k = 0 THEN nodes ELSE Above(g[k - 1])
    <3>1. CASE k = m + 1
      <4>1. g[k] = Above(f[m]) /\ k # 0 /\ k - 1 = m /\ g[m] = f[m]
        BY <3>1
      <4> QED BY <4>1
    <3>2. CASE k = 0
      BY <2>1, <3>2 DEF AreRows
    <3>3. CASE k \in 1..m
      <4>1. k \in 0..m /\ k - 1 \in 0..m /\ k # 0
        BY <3>3
      <4>2. f[k] = Above(f[k - 1])
        BY <2>1, <4>1 DEF AreRows
      <4>3. g[k] = f[k] /\ g[k - 1] = f[k - 1]
        BY <4>1
      <4> QED BY <4>1, <4>2, <4>3
    <3> QED BY <3>1, <3>2, <3>3
  <2>3. g = [k \in 0..(m + 1) |-> g[k]]
    OBVIOUS
  <2> HIDE DEF g
  <2>4. AreRows(nodes, m + 1, g)
    BY <2>2, <2>3 DEF AreRows
  <2>5. m + 1 \in 0..n
    BY <1>2
  <2> QED BY <2>4, <2>5
<1>3. n \in Good
  <2> HIDE DEF Good
  <2>1. \A m \in 0..n : m \in Good
    BY <1>1, <1>2, UpTo
  <2> QED BY <2>1
<1>4. \E f : AreRows(nodes, n, f)
  BY <1>3
<1> QED BY <1>4 DEF rowsOf

LEMMA RootIs ==
  ASSUME NEW nodes
  PROVE  LET row == rowsOf(nodes, Len(nodes))
         IN  TreeRoot(nodes) = row[CHOOSE n \in 0..Len(nodes) : Len(row[n]) = 1][1]
  BY DEF TreeRoot, rowsOf, AreRows

(* What a list is joined to, step by step.                                  *)
AreJoins(node, list, n, f) ==
  f = [k \in 0..n |-> IF k = 0 THEN node ELSE <<f[k - 1], list[k]>>]
joinsOf(node, list, n) == CHOOSE f : AreJoins(node, list, n, f)

LEMMA JoinsExist ==
  ASSUME NEW node, NEW list, NEW n \in Nat
  PROVE  AreJoins(node, list, n, joinsOf(node, list, n))
<1> DEFINE Good == {m \in 0..n : \E f : AreJoins(node, list, m, f)}
<1>1. 0 \in Good
  <2>1. AreJoins(node, list, 0, [k \in 0..0 |-> node])
    BY DEF AreJoins
  <2> QED BY <2>1
<1>2. ASSUME NEW m \in 0..n, m \in Good, m # n PROVE m + 1 \in Good
  <2>1. PICK f : AreJoins(node, list, m, f)
    BY <1>2
  <2> DEFINE g == [k \in 0..(m + 1) |-> IF k = m + 1 THEN <<f[m], list[m + 1]>> ELSE f[k]]
  <2>2. ASSUME NEW k \in 0..(m + 1)
        PROVE  g[k] = IF k = 0 THEN node ELSE <<g[k - 1], list[k]>>
    <3>1. CASE k = m + 1
      <4>1. g[k] = <<f[m], list[k]>> /\ k # 0 /\ k - 1 = m /\ g[m] = f[m]
        BY <3>1
      <4> QED BY <4>1
    <3>2. CASE k = 0
      BY <2>1, <3>2 DEF AreJoins
    <3>3. CASE k \in 1..m
      <4>1. k \in 0..m /\ k - 1 \in 0..m /\ k # 0
        BY <3>3
      <4>2. f[k] = <<f[k - 1], list[k]>>
        BY <2>1, <4>1 DEF AreJoins
      <4>3. g[k] = f[k] /\ g[k - 1] = f[k - 1]
        BY <4>1
      <4> QED BY <4>1, <4>2, <4>3
    <3> QED BY <3>1, <3>2, <3>3
  <2>3. g = [k \in 0..(m + 1) |-> g[k]]
    OBVIOUS
  <2> HIDE DEF g
  <2>4. AreJoins(node, list, m + 1, g)
    BY <2>2, <2>3 DEF AreJoins
  <2>5. m + 1 \in 0..n
    BY <1>2
  <2> QED BY <2>4, <2>5
<1>3. n \in Good
  <2> HIDE DEF Good
  <2>1. \A m \in 0..n : m \in Good
    BY <1>1, <1>2, UpTo
  <2> QED BY <2>1
<1>4. \E f : AreJoins(node, list, n, f)
  BY <1>3
<1> QED BY <1>4 DEF joinsOf

LEMMA FoldedIs ==
  ASSUME NEW node, NEW list
  PROVE  Folded(node, list) = joinsOf(node, list, Len(list))[Len(list)]
  BY DEF Folded, joinsOf, AreJoins

(* The value of the upper bytes.                                            *)
AreValues(bytes, n, f) ==
  f = [k \in 0..n |-> IF k = 0 THEN 0 ELSE f[k - 1] * 256 + bytes[Len(bytes) - k + 1]]
valuesOf(bytes, n) == CHOOSE f : AreValues(bytes, n, f)

LEMMA ValuesExist ==
  ASSUME NEW bytes, NEW n \in Nat
  PROVE  AreValues(bytes, n, valuesOf(bytes, n))
<1> DEFINE Good == {m \in 0..n : \E f : AreValues(bytes, m, f)}
           byte(k) == bytes[Len(bytes) - k + 1]
<1>1. 0 \in Good
  <2>1. AreValues(bytes, 0, [k \in 0..0 |-> 0])
    BY DEF AreValues
  <2> QED BY <2>1
<1>2. ASSUME NEW m \in 0..n, m \in Good, m # n PROVE m + 1 \in Good
  <2>1. PICK f : AreValues(bytes, m, f)
    BY <1>2
  <2> DEFINE g == [k \in 0..(m + 1) |-> IF k = m + 1 THEN f[m] * 256 + byte(m + 1) ELSE f[k]]
  <2> HIDE DEF byte
  <2>2. ASSUME NEW k \in 0..(m + 1)
        PROVE  g[k] = IF k = 0 THEN 0 ELSE g[k - 1] * 256 + byte(k)
    <3>1. CASE k = m + 1
      <4>1. g[k] = f[m] * 256 + byte(k) /\ k # 0 /\ k - 1 = m /\ g[m] = f[m]
        BY <3>1
      <4> QED BY <4>1
    <3>2. CASE k = 0
      BY <2>1, <3>2 DEF AreValues
    <3>3. CASE k \in 1..m
      <4>1. k \in 0..m /\ k - 1 \in 0..m /\ k # 0
        BY <3>3
      <4>2. f[k] = f[k - 1] * 256 + byte(k)
        BY <2>1, <4>1 DEF AreValues, byte
      <4>3. g[k] = f[k] /\ g[k - 1] = f[k - 1]
        BY <4>1
      <4> QED BY <4>1, <4>2, <4>3
    <3> QED BY <3>1, <3>2, <3>3
  <2>3. g = [k \in 0..(m + 1) |-> g[k]]
    OBVIOUS
  <2> HIDE DEF g
  <2>4. AreValues(bytes, m + 1, g)
    BY <2>2, <2>3 DEF AreValues, byte
  <2>5. m + 1 \in 0..n
    BY <1>2
  <2> QED BY <2>4, <2>5
<1>3. n \in Good
  <2> HIDE DEF Good
  <2>1. \A m \in 0..n : m \in Good
    BY <1>1, <1>2, UpTo
  <2> QED BY <2>1
<1>4. \E f : AreValues(bytes, n, f)
  BY <1>3
<1> QED BY <1>4 DEF valuesOf

LEMMA ValueIs ==
  ASSUME NEW bytes
  PROVE  FromBytes(bytes) = valuesOf(bytes, Len(bytes))[Len(bytes)]
  BY DEF FromBytes, valuesOf, AreValues

(***************************************************************************)
(* Merkle trees                                                            *)
(***************************************************************************)
IsList(l) == \E S : l \in Seq(S)

LEMMA ListLength ==
  ASSUME NEW l, IsList(l)
  PROVE  Len(l) \in Nat
  BY DEF IsList

(* One row from the row below.                                              *)
LEMMA PairsOf ==
  ASSUME NEW S, NEW l \in Seq(S)
  PROVE  /\ Pairs(l) \in Seq(S \X S)
         /\ Len(Pairs(l)) = Len(l) \div 2
         /\ \A k \in 1..(Len(l) \div 2) : Pairs(l)[k] = <<l[2 * k - 1], l[2 * k]>>
<1> DEFINE n == Len(l) \div 2
<1>1. Len(l) \in Nat /\ n \in Nat /\ 2 * n <= Len(l) /\ \A k \in 1..Len(l) : l[k] \in S
  BY ElementOfSeq
<1>2. ASSUME NEW k \in 1..n PROVE <<l[2 * k - 1], l[2 * k]>> \in S \X S
  <2>1. 2 * k - 1 \in 1..Len(l) /\ 2 * k \in 1..Len(l)
    BY <1>1
  <2> QED BY <1>1, <2>1
<1>3. Pairs(l) = [k \in 1..n |-> <<l[2 * k - 1], l[2 * k]>>]
  BY DEF Pairs
<1> HIDE DEF n
<1>4. Pairs(l) \in [1..n -> S \X S]
  BY <1>2, <1>3
<1>5. Pairs(l) \in Seq(S \X S)
  BY <1>1, <1>4, SeqDef
<1>6. Len(Pairs(l)) = n
  BY <1>1, <1>4, <1>5
<1> QED BY <1>3, <1>5, <1>6 DEF n

LEMMA OddOneOf ==
  ASSUME NEW S, NEW l \in Seq(S), Len(l) >= 1
  PROVE  /\ OddOne(l) \in Seq(S \X S)
         /\ Len(OddOne(l)) = Len(l) % 2
         /\ Len(l) % 2 = 1 => OddOne(l)[1] = <<l[Len(l)], l[Len(l)]>>
<1>1. Len(l) \in Nat /\ Len(l) % 2 \in {0, 1} /\ l[Len(l)] \in S
  BY ElementOfSeq
<1>2. CASE Len(l) % 2 = 1
  <2>1. <<l[Len(l)], l[Len(l)]>> \in S \X S
    BY <1>1
  <2>2. OddOne(l) = << <<l[Len(l)], l[Len(l)]>> >>
    BY <1>2 DEF OddOne
  <2> QED BY <1>2, <2>1, <2>2
<1>3. CASE Len(l) % 2 = 0
  <2>1. OddOne(l) = <<>>
    BY <1>3 DEF OddOne
  <2> QED BY <1>3, <2>1
<1> QED BY <1>1, <1>2, <1>3

LEMMA Joined ==
  ASSUME NEW S, NEW l \in Seq(S), NEW m \in Seq(S), NEW n, NEW o,
         Len(l) = n, Len(m) = o
  PROVE  /\ l \o m \in Seq(S) /\ Len(l \o m) = n + o
         /\ \A k \in 1..(n + o) : /\ k <= n => (l \o m)[k] = l[k]
                                  /\ ~(k <= n) => (l \o m)[k] = m[k - n]
  OBVIOUS

LEMMA AboveOf ==
  ASSUME NEW S, NEW l \in Seq(S), Len(l) >= 2
  PROVE  /\ Above(l) \in Seq(S \X S)
         /\ Len(Above(l)) = (Len(l) + 1) \div 2
         /\ \A k \in 1..((Len(l) + 1) \div 2) :
              Above(l)[k] = <<l[2 * k - 1], l[IF 2 * k <= Len(l) THEN 2 * k ELSE 2 * k - 1]>>
<1> DEFINE n == Len(l) \div 2
           o == Len(l) % 2
<1>1. Len(l) \in Nat /\ n \in Nat /\ o \in {0, 1} /\ Len(l) = 2 * n + o
      /\ (Len(l) + 1) \div 2 = n + o
  OBVIOUS
<1>o. /\ OddOne(l) \in Seq(S \X S) /\ Len(OddOne(l)) = o
      /\ o = 1 => OddOne(l)[1] = <<l[Len(l)], l[Len(l)]>>
  <2>1. Len(l) >= 1
    BY <1>1
  <2> QED BY <2>1, OddOneOf
<1>2. Above(l) = Pairs(l) \o OddOne(l)
  BY <1>1 DEF Above
<1>3. /\ Above(l) \in Seq(S \X S) /\ Len(Above(l)) = n + o
      /\ \A k \in 1..(n + o) : /\ k <= n => Above(l)[k] = Pairs(l)[k]
                               /\ ~(k <= n) => Above(l)[k] = OddOne(l)[k - n]
  <2>1. Pairs(l) \in Seq(S \X S) /\ Len(Pairs(l)) = n
    BY PairsOf
  <2>2. OddOne(l) \in Seq(S \X S) /\ Len(OddOne(l)) = o
    BY <1>o
  <2> HIDE DEF n, o
  <2> DEFINE p == Pairs(l)
             q == OddOne(l)
  <2>3. p \in Seq(S \X S) /\ Len(p) = n /\ q \in Seq(S \X S) /\ Len(q) = o
    BY <2>1, <2>2
  <2> HIDE DEF p, q
  <2>4. /\ p \o q \in Seq(S \X S) /\ Len(p \o q) = n + o
        /\ \A k \in 1..(n + o) : /\ k <= n => (p \o q)[k] = p[k]
                                 /\ ~(k <= n) => (p \o q)[k] = q[k - n]
    BY <2>3, Joined
  <2>5. Above(l) = p \o q
    BY <1>2 DEF p, q
  <2> QED BY <2>4, <2>5 DEF p, q
<1>4. ASSUME NEW k \in 1..(n + o)
      PROVE  Above(l)[k] = <<l[2 * k - 1], l[IF 2 * k <= Len(l) THEN 2 * k ELSE 2 * k - 1]>>
  <2>1. CASE k <= n
    <3>1. k \in 1..n /\ 2 * k <= Len(l)
      BY <1>1, <2>1
    <3>2. Above(l)[k] = Pairs(l)[k] /\ Pairs(l)[k] = <<l[2 * k - 1], l[2 * k]>>
      BY <1>3, <2>1, <3>1, PairsOf
    <3> QED BY <3>1, <3>2
  <2>2. CASE ~(k <= n)
    <3>1. o = 1 /\ k = n + 1 /\ 2 * k - 1 = Len(l) /\ ~(2 * k <= Len(l)) /\ k - n = 1
      BY <1>1, <2>2
    <3>2. Above(l)[k] = OddOne(l)[k - n]
      <4> HIDE DEF n, o
      <4> QED BY <1>3, <2>2, Zenon
    <3>3. OddOne(l)[1] = <<l[Len(l)], l[Len(l)]>>
      BY <3>1, <1>o
    <3> QED BY <3>1, <3>2, <3>3
  <2> QED BY <2>1, <2>2
<1> QED BY <1>1, <1>3, <1>4

(* A tree grows narrower row by row, and stays as it is at its root.        *)
LEMMA RowSizes ==
  ASSUME NEW l, IsList(l), Len(l) >= 1
  PROVE  LET row == rowsOf(l, Len(l))
         IN  \A n \in 0..Len(l) : /\ IsList(row[n]) /\ Len(row[n]) \in Nat /\ Len(row[n]) >= 1
                                  /\ Len(row[n]) = 1 \/ Len(row[n]) + n <= Len(l)
<1> DEFINE row == rowsOf(l, Len(l))
           Good == {n \in 0..Len(l) : /\ IsList(row[n]) /\ Len(row[n]) \in Nat /\ Len(row[n]) >= 1
                                      /\ Len(row[n]) = 1 \/ Len(row[n]) + n <= Len(l)}
<1>0. Len(l) \in Nat
  BY ListLength
<1>1. AreRows(l, Len(l), row)
  BY <1>0, RowsExist
<1> HIDE DEF row
<1>2. 0 \in Good
  <2>1. row[0] = l
    BY <1>0, <1>1 DEF AreRows
  <2> QED BY <1>0, <2>1
<1>3. ASSUME NEW n \in 0..Len(l), n \in Good, n # Len(l) PROVE n + 1 \in Good
  <2>1. n + 1 \in 0..Len(l) /\ n + 1 # 0 /\ (n + 1) - 1 = n
    BY <1>0, <1>3
  <2>2. row[n + 1] = Above(row[n])
    BY <1>1, <2>1 DEF AreRows
  <2>g. /\ IsList(row[n]) /\ Len(row[n]) \in Nat /\ Len(row[n]) >= 1
        /\ Len(row[n]) = 1 \/ Len(row[n]) + n <= Len(l)
    BY <1>3
  <2>3. CASE Len(row[n]) = 1
    BY <1>3, <2>1, <2>2, <2>3 DEF Above
  <2>4. CASE Len(row[n]) # 1
    <3>1. PICK S : row[n] \in Seq(S)
      BY <2>g DEF IsList
    <3> DEFINE r == row[n]
               s == Len(r)
    <3>2. s \in Nat /\ s >= 1 /\ s # 1 /\ s + n <= Len(l)
      BY <2>g, <2>4
    <3>3. r \in Seq(S) /\ row[n + 1] = Above(r)
      BY <2>2, <3>1
    <3> HIDE DEF r
    <3>4. Len(r) >= 2
      <4> HIDE DEF s
      <4>1. s >= 2
        BY <3>2
      <4> QED BY <4>1 DEF s
    <3>5. Above(r) \in Seq(S \X S) /\ Len(Above(r)) = (s + 1) \div 2
      BY <3>3, <3>4, AboveOf
    <3>6. /\ (s + 1) \div 2 \in Nat /\ (s + 1) \div 2 >= 1
          /\ (s + 1) \div 2 + (n + 1) <= Len(l)
      <4> HIDE DEF s
      <4> QED BY <1>0, <3>2
    <3> HIDE DEF s
    <3> QED BY <2>1, <3>3, <3>5, <3>6 DEF IsList
  <2> QED BY <2>3, <2>4
<1>4. \A n \in 0..Len(l) : n \in Good
  <2> HIDE DEF Good
  <2> QED BY <1>0, <1>2, <1>3, UpTo
<1> QED BY <1>4 DEF row

LEMMA RowsStay ==
  ASSUME NEW l, IsList(l), NEW m \in 0..Len(l), Len(rowsOf(l, Len(l))[m]) = 1,
         NEW n \in 0..Len(l), m <= n
  PROVE  rowsOf(l, Len(l))[n] = rowsOf(l, Len(l))[m]
<1> DEFINE row == rowsOf(l, Len(l))
           Good == {k \in 0..Len(l) : m <= k => row[k] = row[m]}
<1>0. Len(l) \in Nat
  BY ListLength
<1>1. AreRows(l, Len(l), row)
  BY <1>0, RowsExist
<1>2. Len(row[m]) = 1
  OBVIOUS
<1> HIDE DEF row
<1>3. 0 \in Good
  BY <1>0
<1>4. ASSUME NEW k \in 0..Len(l), k \in Good, k # Len(l) PROVE k + 1 \in Good
  <2>1. k + 1 \in 0..Len(l) /\ k + 1 # 0 /\ (k + 1) - 1 = k
    BY <1>0, <1>4
  <2>2. row[k + 1] = Above(row[k])
    BY <1>1, <2>1 DEF AreRows
  <2>3. CASE m <= k
    BY <1>2, <1>4, <2>1, <2>2, <2>3 DEF Above
  <2>4. CASE ~(m <= k) /\ m <= k + 1
    <3>1. m = k + 1
      BY <1>0, <2>1, <2>4
    <3> QED BY <2>1, <3>1
  <2> QED BY <2>1, <2>3, <2>4
<1>5. \A k \in 0..Len(l) : k \in Good
  <2> HIDE DEF Good
  <2> QED BY <1>0, <1>3, <1>4, UpTo
<1> QED BY <1>5 DEF row

(* The root is in any row of one node.                                      *)
LEMMA RootAt ==
  ASSUME NEW l, IsList(l), NEW n \in 0..Len(l), Len(rowsOf(l, Len(l))[n]) = 1
  PROVE  TreeRoot(l) = rowsOf(l, Len(l))[n][1]
<1> DEFINE row == rowsOf(l, Len(l))
           c == CHOOSE k \in 0..Len(l) : Len(row[k]) = 1
<1>0. Len(l) \in Nat
  BY ListLength
<1>1. c \in 0..Len(l) /\ Len(row[c]) = 1
  OBVIOUS
<1>2. TreeRoot(l) = row[c][1]
  BY RootIs
<1> HIDE DEF c
<1>3. row[c] = row[n]
  <2>1. CASE c <= n
    BY <1>1, <2>1, RowsStay
  <2>2. CASE n <= c
    BY <1>1, <2>2, RowsStay
  <2> QED BY <1>0, <1>1, <2>1, <2>2
<1> QED BY <1>2, <1>3

LEMMA RootAlone ==
  ASSUME NEW S, NEW l \in Seq(S), Len(l) = 1
  PROVE  TreeRoot(l) = l[1]
<1>1. IsList(l) /\ 0 \in 0..Len(l)
  BY DEF IsList
<1>2. rowsOf(l, Len(l))[0] = l
  BY <1>1, RowsExist DEF AreRows
<1> QED BY <1>1, <1>2, RootAt

(* Joining a row keeps the root.                                            *)
LEMMA RootAbove ==
  ASSUME NEW S, NEW l \in Seq(S), Len(l) >= 2
  PROVE  TreeRoot(Above(l)) = TreeRoot(l)
<1> DEFINE a == Above(l)
           row == rowsOf(l, Len(l))
           up == rowsOf(a, Len(a))
           Good == {n \in 0..Len(a) : up[n] = row[n + 1]}
<1>0. Len(l) \in Nat /\ IsList(l)
  BY DEF IsList
<1>1. a \in Seq(S \X S) /\ Len(a) = (Len(l) + 1) \div 2
  BY AboveOf
<1>2. IsList(a) /\ Len(a) \in Nat \ {0} /\ Len(a) + 1 <= Len(l)
  BY <1>0, <1>1 DEF IsList
<1>3. AreRows(l, Len(l), row) /\ AreRows(a, Len(a), up)
  BY <1>0, <1>2, RowsExist
<1>4. 0 \in Good
  <2>1. 0 \in 0..Len(a) /\ 1 \in 0..Len(l) /\ 0 \in 0..Len(l)
    BY <1>0, <1>2
  <2>2. row[0] = l /\ row[1] = Above(row[1 - 1])
    BY <1>3, <2>1 DEF AreRows
  <2>3. up[0] = a
    BY <1>3, <2>1 DEF AreRows
  <2> HIDE DEF row, up
  <2> QED BY <2>1, <2>2, <2>3
<1> HIDE DEF row, up, a
<1>5. ASSUME NEW n \in 0..Len(a), n \in Good, n # Len(a) PROVE n + 1 \in Good
  <2>1. n + 1 \in 0..Len(a) /\ n + 1 # 0 /\ (n + 1) - 1 = n
        /\ (n + 1) + 1 \in 0..Len(l) /\ (n + 1) + 1 # 0 /\ ((n + 1) + 1) - 1 = n + 1
    BY <1>0, <1>2, <1>5
  <2>2. up[n + 1] = Above(up[n])
    BY <1>3, <2>1 DEF AreRows
  <2>3. row[(n + 1) + 1] = Above(row[n + 1])
    BY <1>3, <2>1 DEF AreRows
  <2> QED BY <1>5, <2>1, <2>2, <2>3
<1>6. \A n \in 0..Len(a) : n \in Good
  <2> HIDE DEF Good
  <2> QED BY <1>2, <1>4, <1>5, UpTo
<1>7. Len(a) - 1 \in 0..Len(a) /\ (Len(a) - 1) + 1 = Len(a) /\ Len(a) \in 0..Len(l)
  BY <1>0, <1>2
<1>8. Len(up[Len(a) - 1]) = 1
  <2> DEFINE s == Len(up[Len(a) - 1])
  <2>1. \A n \in 0..Len(a) : /\ Len(up[n]) \in Nat /\ Len(up[n]) >= 1
                             /\ Len(up[n]) = 1 \/ Len(up[n]) + n <= Len(a)
    <3>1. IsList(a) /\ Len(a) >= 1
      BY <1>2
    <3> QED BY <3>1, RowSizes DEF up
  <2>2. s \in Nat /\ s >= 1 /\ (s = 1 \/ s + (Len(a) - 1) <= Len(a))
    BY <1>7, <2>1
  <2> HIDE DEF s
  <2>3. s = 1
    BY <1>2, <2>2
  <2> QED BY <2>3 DEF s
<1>9. up[Len(a) - 1] = row[Len(a)]
  BY <1>6, <1>7
<1>10. TreeRoot(a) = up[Len(a) - 1][1]
  BY <1>2, <1>7, <1>8, RootAt DEF up
<1>11. TreeRoot(l) = row[Len(a)][1]
  BY <1>0, <1>7, <1>8, <1>9, RootAt DEF row
<1> QED BY <1>9, <1>10, <1>11 DEF a

(* The joins of a list: none, one more at its end, one at its beginning.    *)
LEMMA FoldedNone ==
  ASSUME NEW node
  PROVE  Folded(node, <<>>) = node
<1>1. Len(<<>>) = 0 /\ 0 \in 0..0
  OBVIOUS
<1>2. joinsOf(node, <<>>, 0)[0] = node
  <2>1. AreJoins(node, <<>>, 0, joinsOf(node, <<>>, 0))
    BY JoinsExist
  <2> QED BY <1>1, <2>1 DEF AreJoins
<1> QED BY <1>1, <1>2, FoldedIs

LEMMA FoldedAppend ==
  ASSUME NEW S, NEW l \in Seq(S), NEW x, NEW node
  PROVE  Folded(node, Append(l, x)) = <<Folded(node, l), x>>
<1> DEFINE n == Len(l)
           m == Append(l, x)
           f == joinsOf(node, l, n)
           g == joinsOf(node, m, n + 1)
           Good == {k \in 0..n : f[k] = g[k]}
<1>1. n \in Nat /\ Len(m) = n + 1 /\ m[n + 1] = x /\ \A k \in 1..n : m[k] = l[k]
  <2>1. l \in Seq(S \cup {x}) /\ x \in S \cup {x}
    BY SeqMonotonic
  <2> QED BY <2>1
<1>2. AreJoins(node, l, n, f) /\ AreJoins(node, m, n + 1, g)
  BY <1>1, JoinsExist
<1>f. Folded(node, l) = f[n] /\ Folded(node, m) = g[n + 1]
  BY <1>1, FoldedIs
<1> HIDE DEF f, g, m, n
<1>3. 0 \in Good
  <2>1. 0 \in 0..n /\ 0 \in 0..(n + 1)
    BY <1>1
  <2> QED BY <1>2, <2>1 DEF AreJoins
<1>4. ASSUME NEW k \in 0..n, k \in Good, k # n PROVE k + 1 \in Good
  <2>1. k + 1 \in 0..n /\ k + 1 \in 0..(n + 1) /\ k + 1 \in 1..n /\ k + 1 # 0
        /\ (k + 1) - 1 = k
    BY <1>1, <1>4
  <2>2. f[k + 1] = <<f[k], l[k + 1]>>
    BY <1>2, <2>1 DEF AreJoins
  <2>3. g[k + 1] = <<g[k], m[k + 1]>>
    BY <1>2, <2>1 DEF AreJoins
  <2> QED BY <1>1, <1>4, <2>1, <2>2, <2>3
<1>5. \A k \in 0..n : k \in Good
  <2> HIDE DEF Good
  <2> QED BY <1>1, <1>3, <1>4, UpTo
<1>6. g[n + 1] = <<g[n], m[n + 1]>>
  <2>1. n + 1 \in 0..(n + 1) /\ n + 1 # 0 /\ (n + 1) - 1 = n
    BY <1>1
  <2> QED BY <1>2, <2>1 DEF AreJoins
<1>7. f[n] = g[n]
  BY <1>1, <1>5
<1> QED BY <1>1, <1>f, <1>6, <1>7 DEF m

LEMMA FoldedTail ==
  ASSUME NEW S, NEW l \in Seq(S), l # <<>>, NEW node
  PROVE  Folded(<<node, Head(l)>>, Tail(l)) = Folded(node, l)
<1> DEFINE n == Len(Tail(l))
           m == Tail(l)
           f == joinsOf(<<node, Head(l)>>, m, n)
           g == joinsOf(node, l, n + 1)
           Good == {k \in 0..n : f[k] = g[k + 1]}
<1>1. n \in Nat /\ Len(l) = n + 1 /\ Head(l) = l[1] /\ \A k \in 1..n : m[k] = l[k + 1]
  OBVIOUS
<1>2. AreJoins(<<node, Head(l)>>, m, n, f) /\ AreJoins(node, l, n + 1, g)
  BY <1>1, JoinsExist
<1>f. Folded(node, l) = g[n + 1] /\ Folded(<<node, Head(l)>>, m) = f[n]
  BY <1>1, FoldedIs
<1> HIDE DEF f, g, m, n
<1>3. 0 \in Good
  <2>1. 0 \in 0..n /\ 0 \in 0..(n + 1) /\ 1 \in 0..(n + 1) /\ 1 - 1 = 0 /\ 0 + 1 = 1
    BY <1>1
  <2>2. f[0] = <<node, Head(l)>>
    BY <1>2, <2>1 DEF AreJoins
  <2>3. g[0] = node
    BY <1>2, <2>1 DEF AreJoins
  <2>4. g[1] = <<g[1 - 1], l[1]>>
    BY <1>2, <2>1 DEF AreJoins
  <2> QED BY <1>1, <2>1, <2>2, <2>3, <2>4
<1>4. ASSUME NEW k \in 0..n, k \in Good, k # n PROVE k + 1 \in Good
  <2>1. k + 1 \in 0..n /\ k + 1 \in 1..n /\ k + 1 # 0 /\ (k + 1) - 1 = k
        /\ (k + 1) + 1 \in 0..(n + 1) /\ (k + 1) + 1 # 0 /\ ((k + 1) + 1) - 1 = k + 1
    BY <1>1, <1>4
  <2>2. f[k + 1] = <<f[k], m[k + 1]>>
    BY <1>2, <2>1 DEF AreJoins
  <2>3. g[(k + 1) + 1] = <<g[k + 1], l[(k + 1) + 1]>>
    BY <1>2, <2>1 DEF AreJoins
  <2> QED BY <1>1, <1>4, <2>1, <2>2, <2>3
<1>5. \A k \in 0..n : k \in Good
  <2> HIDE DEF Good
  <2> QED BY <1>1, <1>3, <1>4, UpTo
<1> QED BY <1>1, <1>f, <1>5 DEF m

(***************************************************************************)
(* One round of templateMerkleBranchSteps is one row of the tree           *)
(***************************************************************************)
LEMMA EvenedOf ==
  ASSUME NEW S, NEW l \in Seq(S), NEW n \in Nat, Len(l) = n, n >= 2
  PROVE  /\ evened(l) \in Seq(S) /\ Len(evened(l)) = 2 * ((n + 1) \div 2)
         /\ \A j \in 1..(2 * ((n + 1) \div 2)) :
              evened(l)[j] = l[IF j <= n THEN j ELSE n]
<1>1. n % 2 \in {0, 1}
  OBVIOUS
<1>2. CASE n % 2 = 1
  <2>1. evened(l) = Append(l, l[n])
    BY <1>2 DEF evened
  <2>2. l[n] \in S
    BY ElementOfSeq
  <2>3. 2 * ((n + 1) \div 2) = n + 1
    BY <1>2
  <2>4. /\ Append(l, l[n]) \in Seq(S) /\ Len(Append(l, l[n])) = n + 1
        /\ \A j \in 1..(n + 1) : Append(l, l[n])[j] = l[IF j <= n THEN j ELSE n]
    BY <2>2
  <2> QED BY <2>1, <2>3, <2>4
<1>3. CASE n % 2 = 0
  <2>1. evened(l) = l
    BY <1>3 DEF evened
  <2>2. 2 * ((n + 1) \div 2) = n
    BY <1>3
  <2> QED BY <2>1, <2>2
<1> QED BY <1>1, <1>2, <1>3

LEMMA FirstReplaced ==
  ASSUME NEW S, NEW l \in Seq(S), NEW n \in Nat, Len(l) = n, n >= 1, NEW x
  PROVE  /\ <<x>> \o Tail(l) \in Seq(S \cup {x}) /\ Len(<<x>> \o Tail(l)) = n
         /\ (<<x>> \o Tail(l))[1] = x
         /\ \A j \in 2..n : (<<x>> \o Tail(l))[j] = l[j]
<1>1. l # <<>>
  OBVIOUS
<1>2. /\ Tail(l) \in Seq(S) /\ Len(Tail(l)) = n - 1
      /\ \A j \in 1..(n - 1) : Tail(l)[j] = l[j + 1]
  BY <1>1, HeadTailProperties
<1> DEFINE t == Tail(l)
<1>3. t \in Seq(S \cup {x}) /\ <<x>> \in Seq(S \cup {x}) /\ Len(<<x>>) = 1 /\ <<x>>[1] = x
  BY <1>2, SeqMonotonic
<1>4. Len(t) = n - 1 /\ \A j \in 1..(n - 1) : t[j] = l[j + 1]
  BY <1>2
<1> HIDE DEF t
<1>5. /\ <<x>> \o t \in Seq(S \cup {x}) /\ Len(<<x>> \o t) = n
      /\ \A j \in 1..n : /\ j <= 1 => (<<x>> \o t)[j] = <<x>>[j]
                         /\ ~(j <= 1) => (<<x>> \o t)[j] = t[j - 1]
  BY <1>3, <1>4, Joined
<1>6. \A j \in 2..n : (<<x>> \o t)[j] = l[j]
  <2> TAKE j \in 2..n
  <2>1. j \in 1..n /\ ~(j <= 1) /\ j - 1 \in 1..(n - 1) /\ (j - 1) + 1 = j
    OBVIOUS
  <2> QED BY <1>4, <1>5, <2>1
<1>7. (<<x>> \o t)[1] = x
  BY <1>3, <1>5
<1> QED BY <1>5, <1>6, <1>7 DEF t

joinedPairs(e) == [k \in 1..(Len(e) \div 2 - 1) |-> join(e[2 * k + 1], e[2 * k + 2])]

LEMMA RoundIsAbove ==
  ASSUME NEW S, NEW l \in Seq(S), NEW n \in Nat, Len(l) = n, n >= 2, NEW node
  PROVE  /\ joinedPairs(evened(l)) \in Seq(S \X S)
         /\ Len(joinedPairs(evened(l))) = (n + 1) \div 2 - 1
         /\ << <<node, l[2]>> >> \o joinedPairs(evened(l)) = Above(<<node>> \o Tail(l))
<1> DEFINE e == evened(l)
           m == (n + 1) \div 2
           p == joinedPairs(e)
           w == <<node>> \o Tail(l)
           T == S \cup {node}
           x == <<node, l[2]>>
<1>1. m \in Nat /\ m >= 1 /\ 2 * m >= n /\ 2 * m <= n + 1
  OBVIOUS
<1>2. e \in Seq(S) /\ Len(e) = 2 * m /\ \A j \in 1..(2 * m) : e[j] = l[IF j <= n THEN j ELSE n]
  BY EvenedOf
<1>3. w \in Seq(T) /\ Len(w) = n /\ w[1] = node /\ \A j \in 2..n : w[j] = l[j]
  BY FirstReplaced
<1>4. /\ Above(w) \in Seq(T \X T) /\ Len(Above(w)) = m
      /\ \A k \in 1..m : Above(w)[k] = <<w[2 * k - 1], w[IF 2 * k <= n THEN 2 * k ELSE 2 * k - 1]>>
  BY <1>3, AboveOf
<1> HIDE DEF e, m, w, T
<1>5. p = [k \in 1..(m - 1) |-> <<e[2 * k + 1], e[2 * k + 2]>>]
  <2>1. Len(e) \div 2 = m
    BY <1>1, <1>2
  <2> QED BY <2>1 DEF joinedPairs, join
<1>6. ASSUME NEW k \in 1..(m - 1)
      PROVE  <<e[2 * k + 1], e[2 * k + 2]>> \in S \X S
  <2>1. 2 * k + 1 \in 1..Len(e) /\ 2 * k + 2 \in 1..Len(e)
    BY <1>1, <1>2
  <2> QED BY <1>2, <2>1, ElementOfSeq
<1>7. p \in Seq(S \X S) /\ Len(p) = m - 1
  <2>1. p \in [1..(m - 1) -> S \X S] /\ m - 1 \in Nat
    BY <1>1, <1>5, <1>6
  <2>2. p \in Seq(S \X S)
    BY <2>1, SeqDef
  <2> QED BY <2>1, <2>2
<1>8. ASSUME NEW k \in 1..(m - 1) PROVE p[k] = Above(w)[k + 1]
  <2>1. k + 1 \in 1..m /\ 2 * (k + 1) - 1 = 2 * k + 1 /\ 2 * (k + 1) = 2 * k + 2
        /\ 2 * k + 1 \in 1..(2 * m) /\ 2 * k + 2 \in 1..(2 * m) /\ 2 * k + 1 \in 2..n
    BY <1>1
  <2>2. p[k] = <<e[2 * k + 1], e[2 * k + 2]>>
    BY <1>5
  <2>3. Above(w)[k + 1] = <<w[2 * k + 1], w[IF 2 * k + 2 <= n THEN 2 * k + 2 ELSE 2 * k + 1]>>
    BY <1>4, <2>1
  <2>4. e[2 * k + 1] = l[2 * k + 1] /\ w[2 * k + 1] = l[2 * k + 1]
    BY <1>2, <1>3, <2>1
  <2>5. CASE 2 * k + 2 <= n
    <3>1. 2 * k + 2 \in 2..n
      BY <2>5
    <3>2. e[2 * k + 2] = l[2 * k + 2] /\ w[2 * k + 2] = l[2 * k + 2]
      BY <1>2, <1>3, <2>1, <2>5, <3>1
    <3> QED BY <2>2, <2>3, <2>4, <2>5, <3>2
  <2>6. CASE ~(2 * k + 2 <= n)
    <3>1. 2 * k + 1 = n
      BY <1>1, <2>1, <2>6
    <3>2. e[2 * k + 2] = l[n]
      BY <1>2, <2>1, <2>6
    <3> QED BY <2>2, <2>3, <2>4, <2>6, <3>1, <3>2
  <2> QED BY <2>5, <2>6
<1>9. x = Above(w)[1] /\ x \in T \X T
  <2>1. 1 \in 1..m /\ 2 * 1 - 1 = 1 /\ 2 * 1 = 2 /\ 2 \in 2..n /\ 2 <= n
    BY <1>1
  <2>2. Above(w)[1] = <<w[1], w[2]>>
    BY <1>4, <2>1
  <2>3. l[2] \in S
    BY <2>1, ElementOfSeq
  <2> QED BY <1>3, <2>1, <2>2, <2>3 DEF T
<1> HIDE DEF p, x
<1>10. << x >> \o p = Above(w)
  <2>1. p \in Seq(T \X T) /\ << x >> \in Seq(T \X T)
    <3>1. S \X S \subseteq T \X T
      BY DEF T
    <3> QED BY <1>7, <1>9, <3>1, SeqMonotonic
  <2> DEFINE q == << x >> \o p
  <2>2. Len(<< x >>) = 1 /\ << x >>[1] = x
    OBVIOUS
  <2>3. /\ q \in Seq(T \X T) /\ Len(q) = 1 + (m - 1)
        /\ \A k \in 1..(1 + (m - 1)) : /\ k <= 1 => q[k] = << x >>[k]
                                       /\ ~(k <= 1) => q[k] = p[k - 1]
    BY <1>7, <2>1, <2>2, Joined
  <2> HIDE DEF q
  <2>4. 1 + (m - 1) = m
    BY <1>1
  <2>5. ASSUME NEW k \in 1..m PROVE q[k] = Above(w)[k]
    <3>1. CASE k = 1
      BY <1>9, <2>2, <2>3, <2>4, <3>1
    <3>2. CASE k # 1
      <4>1. ~(k <= 1) /\ k - 1 \in 1..(m - 1) /\ (k - 1) + 1 = k
        BY <1>1, <3>2
      <4> QED BY <1>8, <2>3, <2>4, <4>1
    <3> QED BY <3>1, <3>2
  <2>6. q = Above(w)
    BY <1>4, <2>3, <2>4, <2>5, SeqEqual
  <2> QED BY <2>6 DEF q
<1> QED BY <1>7, <1>10 DEF p, x, e, m, w

(***************************************************************************)
(* The types and the merkle root                                           *)
(***************************************************************************)
expectedRoot == TreeRoot(<<Coinbase>> \o Transactions)

(* What is left of a level with the steps taken from it is no more than the *)
(* transactions; joined, the steps and the rest have the root of them all.  *)
Levels ==
  /\ stage = "start" => steps = <<>> /\ branch = <<>>
  /\ stage = "merkle" =>
       /\ IsList(level) /\ Len(level) >= 1
       /\ Len(level) + Len(steps) <= count + 1
       /\ TreeRoot(<<Folded(Coinbase, steps)>> \o Tail(level)) = expectedRoot
  /\ stage = "generated" => Folded(Coinbase, steps) = expectedRoot
  /\ stage = "header" => Folded(root, branch) = expectedRoot
  /\ stage \in {"made", "done"} => root = expectedRoot

Lists ==
  /\ height \in Heights /\ count \in TxCounts
  /\ arbitrary \in Signatures \cup Extranonces \cup {0}
  /\ path \in {"fetch", "force", "submit"}
  /\ stage \in {"start", "merkle", "generated", "header", "made", "refused", "done",
               "panic"}
  /\ IsList(steps) /\ Len(steps) <= count
  /\ IsList(branch) /\ Len(branch) <= Len(steps)

ILevels == Lists /\ Levels

LEMMA CountInNat ==
  ASSUME Lists
  PROVE  count \in Nat
  BY AssemblyAssumption DEF Lists

LEMMA NoList == IsList(<<>>) /\ Len(<<>>) = 0
<1>1. <<>> \in Seq({})
  OBVIOUS
<1> QED BY <1>1 DEF IsList

LEMMA TransactionsList ==
  ASSUME count \in Nat
  PROVE  Transactions \in Seq(Seq(Nat)) /\ Len(Transactions) = count
<1>1. Transactions \in [1..count -> Seq(Nat)]
  BY DEF Transactions
<1>2. Transactions \in Seq(Seq(Nat))
  BY <1>1, SeqDef
<1> QED BY <1>1, <1>2

LEMMA LevelsInit == Init => ILevels
<1> SUFFICES ASSUME Init PROVE ILevels
  OBVIOUS
<1>1. count \in Nat
  BY AssemblyAssumption DEF Init
<1>2. Lists
  BY <1>1, NoList DEF Init, GenerateWork, Lists
<1> QED BY <1>2 DEF Init, Levels, ILevels

LEMMA LevelsCoinbase ==
  ASSUME ILevels, CoinbaseInitial
  PROVE  ILevels'
<1> DEFINE tx == Transactions
<1>1. count \in Nat /\ count' = count /\ steps = <<>> /\ steps' = <<>> /\ branch' = <<>>
      /\ stage' \in {"merkle", "generated", "panic"}
      /\ (stage' = "generated" => count = 0)
      /\ level' = <<Coinbase>> \o tx
  BY CountInNat DEF ILevels, Levels, Lists, CoinbaseInitial
<1>2. Lists'
  BY <1>1, NoList DEF ILevels, Lists, CoinbaseInitial
<1>3. tx \in Seq(Seq(Nat)) /\ Len(tx) = count /\ expectedRoot' = expectedRoot
  BY <1>1, TransactionsList DEF expectedRoot, Transactions
<1> DEFINE S == Seq(Nat) \cup {Coinbase}
           l == <<Coinbase>> \o tx
<1>4. l \in Seq(S) /\ Len(l) = count + 1
  <2>1. tx \in Seq(S) /\ <<Coinbase>> \in Seq(S) /\ Len(<<Coinbase>>) = 1
    BY <1>3, SeqMonotonic
  <2> HIDE DEF S, tx
  <2> QED BY <1>1, <1>3, <2>1, Joined
<1>5. l[1] = Coinbase /\ Tail(l) = tx
  BY <1>3
<1>6. Folded(Coinbase, steps') = Coinbase
  BY <1>1, FoldedNone
<1>7. stage' = "generated" => expectedRoot = Coinbase
  <2> SUFFICES ASSUME count = 0 PROVE expectedRoot = Coinbase
    BY <1>1
  <2>1. Len(l) = 1
    BY <1>4
  <2> QED BY <1>4, <1>5, <2>1, RootAlone DEF expectedRoot
<1>8. stage' = "merkle" =>
        /\ IsList(level') /\ Len(level') >= 1
        /\ Len(level') + Len(steps') <= count + 1
        /\ TreeRoot(<<Folded(Coinbase, steps')>> \o Tail(level')) = expectedRoot
  <2>1. IsList(l) /\ Len(l) >= 1 /\ Len(l) + Len(steps') <= count + 1
    BY <1>1, <1>4, NoList DEF IsList
  <2>2. TreeRoot(<<Folded(Coinbase, steps')>> \o Tail(l)) = expectedRoot
    BY <1>5, <1>6 DEF expectedRoot
  <2> QED BY <1>1, <2>1, <2>2
<1>9. Levels'
  <2>1. Coinbase' = Coinbase
    BY DEF Coinbase
  <2>2. (TreeRoot(<<Folded(Coinbase, steps)>> \o Tail(level)))'
          = TreeRoot(<<Folded(Coinbase, steps')>> \o Tail(level'))
        /\ (Folded(Coinbase, steps))' = Folded(Coinbase, steps')
    OBVIOUS
  <2> QED BY <1>1, <1>3, <1>6, <1>7, <1>8, <2>1, <2>2 DEF Levels
<1> QED BY <1>2, <1>9 DEF ILevels

LEMMA LevelsRound ==
  ASSUME ILevels, MerkleRound
  PROVE  ILevels'
<1>1. count \in Nat /\ IsList(steps) /\ IsList(level) /\ Len(level) >= 1
      /\ Len(steps) \in Nat /\ Len(level) \in Nat
      /\ Len(level) + Len(steps) <= count + 1 /\ Len(steps) <= count
      /\ IsList(branch) /\ Len(branch) \in Nat /\ Len(branch) <= Len(steps)
      /\ TreeRoot(<<Folded(Coinbase, steps)>> \o Tail(level)) = expectedRoot
  BY CountInNat, ListLength DEF ILevels, Levels, Lists, MerkleRound
<1>2. expectedRoot' = expectedRoot /\ count' = count /\ branch' = branch
  BY DEF MerkleRound, expectedRoot, Transactions
<1>3. CASE Len(level) = 1
  <2>1. stage' = "generated" /\ UNCHANGED <<level, steps>>
    BY <1>3 DEF MerkleRound
  <2>2. Lists'
    BY <2>1 DEF ILevels, Lists, MerkleRound
  <2>3. Folded(Coinbase, steps) = expectedRoot
    <3>1. PICK S : level \in Seq(S)
      BY <1>1 DEF IsList
    <3> DEFINE x == Folded(Coinbase, steps)
               w == <<x>> \o Tail(level)
    <3> HIDE DEF x
    <3>2. w \in Seq(S \cup {x}) /\ Len(w) = 1 /\ w[1] = x
      BY <1>1, <1>3, <3>1, FirstReplaced
    <3> HIDE DEF w
    <3>3. TreeRoot(w) = x
      BY <3>2, RootAlone
    <3> QED BY <1>1, <3>3 DEF w, x
  <2>4. Levels'
    BY <1>2, <2>1, <2>3 DEF Levels
  <2> QED BY <2>2, <2>4 DEF ILevels
<1>4. CASE Len(level) # 1
  <2> DEFINE n == Len(level)
             p == joinedPairs(evened(level))
             x == Folded(Coinbase, steps)
             y == Folded(Coinbase, steps')
  <2>1. n \in Nat /\ n >= 2 /\ n + Len(steps) <= count + 1
    <3>1. n \in Nat /\ n >= 1 /\ n # 1 /\ n + Len(steps) <= count + 1
      BY <1>1, <1>4
    <3> HIDE DEF n
    <3> QED BY <3>1
  <2>2. /\ stage = "merkle" /\ stage' = "merkle" /\ steps' = Append(steps, level[2])
        /\ level' = <<Coinbase>> \o p
    BY <1>4 DEF MerkleRound, joinedPairs
  <2>3. PICK S : level \in Seq(S)
    BY <1>1 DEF IsList
  <2>4. PICK R : steps \in Seq(R)
    BY <1>1 DEF IsList
  <2>5. y = <<x, level[2]>>
    BY <2>2, <2>4, FoldedAppend
  <2>6. IsList(steps') /\ Len(steps') = Len(steps) + 1
    <3>1. steps \in Seq(R \cup {level[2]})
      BY <2>4, SeqMonotonic
    <3>2. /\ Append(steps, level[2]) \in Seq(R \cup {level[2]})
          /\ Len(Append(steps, level[2])) = Len(steps) + 1
      BY <3>1
    <3> QED BY <2>2, <3>2 DEF IsList
  <2> HIDE DEF x, y
  <2>7. /\ p \in Seq(S \X S) /\ Len(p) = (n + 1) \div 2 - 1
        /\ << y >> \o p = Above(<<x>> \o Tail(level))
    <3> HIDE DEF n
    <3>1. Len(level) = n
      BY DEF n
    <3> QED BY <2>1, <2>3, <2>5, <3>1, RoundIsAbove
  <2>8. TreeRoot(<<x>> \o Tail(level)) = expectedRoot
    BY <1>1 DEF x
  <2>9. TreeRoot(Above(<<x>> \o Tail(level))) = expectedRoot
    <3> DEFINE w == <<x>> \o Tail(level)
    <3>1. w \in Seq(S \cup {x}) /\ Len(w) = n
      BY <2>1, <2>3, FirstReplaced
    <3>2. Len(w) >= 2
      <4> HIDE DEF n, w
      <4> QED BY <2>1, <3>1
    <3> HIDE DEF w
    <3>3. TreeRoot(Above(w)) = TreeRoot(w)
      BY <3>1, <3>2, RootAbove
    <3> QED BY <2>8, <3>3 DEF w
  <2> HIDE DEF n, p
  <2>10. /\ IsList(level') /\ Len(level') = (n + 1) \div 2 /\ Tail(level') = p
    <3>1. (n + 1) \div 2 \in Nat
      BY <2>1
    <3> DEFINE m == (n + 1) \div 2
               T == (S \X S) \cup {Coinbase}
    <3>2. m \in Nat /\ Len(p) = m - 1
      BY <2>7, <3>1
    <3>3. p \in Seq(T) /\ <<Coinbase>> \in Seq(T)
      BY <2>7, SeqMonotonic
    <3> HIDE DEF m
    <3>4. <<Coinbase>> \o p \in Seq(T) /\ Len(<<Coinbase>> \o p) = m
          /\ Tail(<<Coinbase>> \o p) = p
      <4> HIDE DEF T
      <4> QED BY <3>2, <3>3
    <3> QED BY <2>2, <3>4 DEF IsList, m
  <2>11. Len(level') >= 1 /\ Len(level') + Len(steps') <= count + 1 /\ Len(steps') <= count
    <3>1. (n + 1) \div 2 >= 1 /\ (n + 1) \div 2 <= n - 1
      BY <2>1
    <3> QED BY <1>1, <2>1, <2>6, <2>10, <3>1
  <2>12. TreeRoot(<<y>> \o Tail(level')) = expectedRoot
    BY <2>7, <2>9, <2>10
  <2>13. Lists'
    <3>1. Len(branch') <= Len(steps')
      BY <1>1, <1>2, <2>6
    <3>2. height' \in Heights /\ count' \in TxCounts
          /\ arbitrary' \in Signatures \cup Extranonces \cup {0}
          /\ path' \in {"fetch", "force", "submit"} /\ IsList(branch')
      BY <1>1, <1>2 DEF ILevels, Lists, MerkleRound
    <3> QED BY <1>2, <2>2, <2>6, <2>11, <3>1, <3>2 DEF Lists
  <2>14. Levels'
    <3>1. (TreeRoot(<<Folded(Coinbase, steps)>> \o Tail(level)))'
            = TreeRoot(<<y>> \o Tail(level'))
      BY DEF y, Coinbase
    <3> QED BY <1>2, <2>2, <2>10, <2>11, <2>12, <3>1 DEF Levels
  <2> QED BY <2>13, <2>14 DEF ILevels
<1> QED BY <1>3, <1>4

LEMMA LevelsHeader ==
  ASSUME ILevels, RootRound
  PROVE  ILevels'
<1>1. PICK S : branch \in Seq(S)
  BY DEF ILevels, Lists, IsList
<1>2. branch # <<>> /\ stage = "header" /\ stage' = "header" /\ branch' = Tail(branch)
      /\ steps' = steps /\ count' = count
      /\ root' = <<root, Head(branch)>> /\ Folded(root, branch) = expectedRoot
  BY DEF RootRound, join, ILevels, Levels
<1>3. Folded(root', branch') = expectedRoot
  BY <1>1, <1>2, FoldedTail
<1>4. IsList(branch') /\ Len(branch') <= Len(steps')
  <2>1. Tail(branch) \in Seq(S) /\ Len(Tail(branch)) = Len(branch) - 1
    BY <1>1, <1>2, HeadTailProperties
  <2>2. Len(branch) \in Nat /\ Len(steps) \in Nat /\ Len(branch) <= Len(steps)
    BY ListLength DEF ILevels, Lists
  <2> QED BY <1>2, <2>1, <2>2 DEF IsList
<1>5. expectedRoot' = expectedRoot
  BY <1>2 DEF expectedRoot, Transactions
<1>6. Lists'
  BY <1>2, <1>4 DEF ILevels, Lists, RootRound
<1>7. Levels'
  BY <1>2, <1>3, <1>5 DEF Levels
<1> QED BY <1>6, <1>7 DEF ILevels

LEMMA LevelsKept == ILevels /\ [Next]_vars => ILevels'
<1> SUFFICES ASSUME ILevels, [Next]_vars PROVE ILevels'
  OBVIOUS
<1>1. CASE CoinbaseInitial
  BY <1>1, LevelsCoinbase
<1>2. CASE MerkleRound
  BY <1>2, LevelsRound
<1>3. CASE MakeHeader
  <2>1. expectedRoot' = expectedRoot /\ Len(steps) \in Nat
    BY <1>3, ListLength DEF MakeHeader, expectedRoot, Transactions, ILevels, Lists
  <2>2. Lists'
    BY <1>3, <2>1 DEF ILevels, Lists, MakeHeader
  <2>3. Levels'
    BY <1>3, <2>1 DEF ILevels, Levels, MakeHeader
  <2> QED BY <2>2, <2>3 DEF ILevels
<1>4. CASE RootRound
  BY <1>4, LevelsHeader
<1>5. CASE blockHeader
  <2>1. expectedRoot' = expectedRoot
    BY <1>5 DEF blockHeader, expectedRoot, Transactions
  <2>2. Lists'
    BY <1>5 DEF ILevels, Lists, blockHeader
  <2>3. Folded(root, branch) = root
    BY <1>5, FoldedNone DEF blockHeader
  <2>4. Levels'
    BY <1>5, <2>1, <2>3 DEF ILevels, Levels, blockHeader
  <2> QED BY <2>2, <2>4 DEF ILevels
<1>6. CASE createSubmission
  <2>1. expectedRoot' = expectedRoot
    BY <1>6 DEF createSubmission, expectedRoot, Transactions
  <2>2. Lists'
    BY <1>6 DEF ILevels, Lists, createSubmission
  <2>3. Levels'
    BY <1>6, <2>1 DEF ILevels, Levels, createSubmission
  <2> QED BY <2>2, <2>3 DEF ILevels
<1>7. CASE UNCHANGED vars
  <2>1. expectedRoot' = expectedRoot
    BY <1>7 DEF vars, expectedRoot, Transactions
  <2>2. Lists' /\ Levels'
    BY <1>7, <2>1 DEF ILevels, Lists, Levels, vars
  <2> QED BY <2>2 DEF ILevels
<1> QED BY <1>1, <1>2, <1>3, <1>4, <1>5, <1>6, <1>7 DEF Next

LEMMA LevelsInductive == Spec => []ILevels
  BY LevelsInit, LevelsKept, PTL DEF Spec

(* templateMerkleBranchSteps ends and never takes more steps than there are *)
(* transactions, for any number of them.                                    *)
THEOREM Typing == Spec => []TypeOK
<1>1. ILevels => TypeOK
  <2> SUFFICES ASSUME ILevels PROVE TypeOK
    OBVIOUS
  <2>1. count \in Nat /\ Len(steps) \in Nat /\ (stage = "merkle" => Len(level) \in Nat)
    BY CountInNat, ListLength DEF ILevels, Lists, Levels
  <2>2. stage = "merkle" => Len(level) \in 1..(count + 1)
    BY <2>1 DEF ILevels, Levels
  <2> QED BY <2>2 DEF ILevels, Lists, TypeOK
<1> QED BY <1>1, LevelsInductive, PTL

(* The header's merkle root, which makeHeaderMerkleRoot joins from the      *)
(* coinbase and the steps of templateMerkleBranchSteps, is the root of the  *)
(* merkle tree of the block, for any number of transactions.                *)
THEOREM MerkleRootKeptHolds == Spec => []MerkleRootKept
<1>1. ILevels => MerkleRootKept
  BY DEF ILevels, Levels, MerkleRootKept, expectedRoot
<1> QED BY <1>1, LevelsInductive, PTL

(***************************************************************************)
(* Numbers read back from their bytes                                      *)
(***************************************************************************)
(* The bytes count from the last one up.                                    *)
LEMMA ValueSteps ==
  ASSUME NEW bytes, Len(bytes) \in Nat
  PROVE  \E value :
           /\ FromBytes(bytes) = value[Len(bytes)]
           /\ value[0] = 0
           /\ \A k \in 1..Len(bytes) :
                value[k] = value[k - 1] * 256 + bytes[Len(bytes) - k + 1]
<1> DEFINE n == Len(bytes)
           value == valuesOf(bytes, n)
<1>1. AreValues(bytes, n, value)
  BY ValuesExist
<1>2. FromBytes(bytes) = value[n]
  BY ValueIs
<1> HIDE DEF value
<1>3. value[0] = 0
  <2>1. 0 \in 0..n
    OBVIOUS
  <2> QED BY <1>1, <2>1 DEF AreValues
<1>4. ASSUME NEW k \in 1..n PROVE value[k] = value[k - 1] * 256 + bytes[n - k + 1]
  <2>1. k \in 0..n /\ k # 0
    OBVIOUS
  <2> QED BY <1>1, <2>1 DEF AreValues
<1> QED BY <1>2, <1>3, <1>4

LEMMA OneByte ==
  ASSUME NEW bytes, Len(bytes) = 1, bytes[1] \in Nat
  PROVE  FromBytes(bytes) = bytes[1]
<1>1. PICK value :
        /\ FromBytes(bytes) = value[Len(bytes)] /\ value[0] = 0
        /\ \A k \in 1..Len(bytes) :
             value[k] = value[k - 1] * 256 + bytes[Len(bytes) - k + 1]
  <2>1. Len(bytes) \in Nat
    OBVIOUS
  <2> QED BY ONLY <2>1, ValueSteps
<1>2. /\ value[1] = value[0] * 256 + bytes[1]
  BY <1>1
<1> QED BY <1>1, <1>2

LEMMA TwoBytes ==
  ASSUME NEW bytes, Len(bytes) = 2, bytes[1] \in Nat, bytes[2] \in Nat
  PROVE  FromBytes(bytes) = bytes[1] + 256 * bytes[2]
<1>1. PICK value :
        /\ FromBytes(bytes) = value[Len(bytes)] /\ value[0] = 0
        /\ \A k \in 1..Len(bytes) :
             value[k] = value[k - 1] * 256 + bytes[Len(bytes) - k + 1]
  <2>1. Len(bytes) \in Nat
    OBVIOUS
  <2> QED BY ONLY <2>1, ValueSteps
<1>2. /\ value[1] = value[0] * 256 + bytes[2]
      /\ value[2] = value[1] * 256 + bytes[1]
  BY <1>1
<1>3. value[1] = bytes[2]
  BY <1>1, <1>2
<1>4. value[2] = bytes[2] * 256 + bytes[1]
  BY <1>2, <1>3
<1> QED BY <1>1, <1>4

LEMMA ThreeBytes ==
  ASSUME NEW bytes, Len(bytes) = 3,
         bytes[1] \in Nat, bytes[2] \in Nat, bytes[3] \in Nat
  PROVE  FromBytes(bytes) = bytes[1] + 256 * bytes[2] + 65536 * bytes[3]
<1>1. PICK value :
        /\ FromBytes(bytes) = value[Len(bytes)] /\ value[0] = 0
        /\ \A k \in 1..Len(bytes) :
             value[k] = value[k - 1] * 256 + bytes[Len(bytes) - k + 1]
  <2>1. Len(bytes) \in Nat
    OBVIOUS
  <2> QED BY ONLY <2>1, ValueSteps
<1>2. /\ value[1] = value[0] * 256 + bytes[3]
      /\ value[2] = value[1] * 256 + bytes[2]
      /\ value[3] = value[2] * 256 + bytes[1]
  BY <1>1
<1>3. value[1] = bytes[3]
  BY <1>1, <1>2, SMT
<1>4. value[2] = bytes[3] * 256 + bytes[2]
  BY <1>2, <1>3, SMT
<1>5. value[3] = (bytes[3] * 256 + bytes[2]) * 256 + bytes[1]
  BY <1>2, <1>4, SMT
<1> QED BY <1>1, <1>5, SMT

LEMMA FourBytes ==
  ASSUME NEW bytes, Len(bytes) = 4,
         bytes[1] \in Nat, bytes[2] \in Nat, bytes[3] \in Nat, bytes[4] \in Nat
  PROVE  FromBytes(bytes) =
           bytes[1] + 256 * bytes[2] + 65536 * bytes[3] + 16777216 * bytes[4]
<1>1. PICK value :
        /\ FromBytes(bytes) = value[Len(bytes)] /\ value[0] = 0
        /\ \A k \in 1..Len(bytes) :
             value[k] = value[k - 1] * 256 + bytes[Len(bytes) - k + 1]
  <2>1. Len(bytes) \in Nat
    OBVIOUS
  <2> QED BY ONLY <2>1, ValueSteps
<1>2. /\ value[1] = value[0] * 256 + bytes[4]
      /\ value[2] = value[1] * 256 + bytes[3]
      /\ value[3] = value[2] * 256 + bytes[2]
      /\ value[4] = value[3] * 256 + bytes[1]
  BY <1>1
<1>3. value[1] = bytes[4]
  BY <1>1, <1>2, SMT
<1>4. value[2] = bytes[4] * 256 + bytes[3]
  BY <1>2, <1>3, SMT
<1>5. value[3] = (bytes[4] * 256 + bytes[3]) * 256 + bytes[2]
  BY <1>2, <1>4, SMT
<1>6. value[4] = ((bytes[4] * 256 + bytes[3]) * 256 + bytes[2]) * 256 + bytes[1]
  BY <1>2, <1>5, SMT
<1> QED BY <1>1, <1>6, SMT

LEMMA ZeroBytes ==
  ASSUME NEW n \in Nat
  PROVE  FromBytes([k \in 1..n |-> 0]) = 0
<1> DEFINE bytes == [k \in 1..n |-> 0]
<1>1. Len(bytes) = n /\ \A k \in 1..n : bytes[k] = 0
  OBVIOUS
<1> HIDE DEF bytes
<1>v. PICK value :
        /\ FromBytes(bytes) = value[Len(bytes)] /\ value[0] = 0
        /\ \A k \in 1..Len(bytes) :
             value[k] = value[k - 1] * 256 + bytes[Len(bytes) - k + 1]
  <2>1. Len(bytes) \in Nat
    BY <1>1
  <2> QED BY ONLY <2>1, ValueSteps
<1>2. /\ FromBytes(bytes) = value[n] /\ value[0] = 0
      /\ \A k \in 1..n : value[k] = value[k - 1] * 256 + bytes[n - k + 1]
  BY <1>1, <1>v
<1>3. \A k \in 1..n : bytes[k] = 0
  BY <1>1
<1> DEFINE Good == {k \in 0..n : value[k] = 0}
<1>4. 0 \in Good
  BY <1>2
<1>5. ASSUME NEW m \in 0..n, m \in Good, m # n PROVE m + 1 \in Good
  <2>1. m + 1 \in 0..n /\ m + 1 \in 1..n /\ (m + 1) - 1 = m /\ n - (m + 1) + 1 \in 1..n
    BY <1>5
  <2>2. value[m + 1] = value[m] * 256 + bytes[n - (m + 1) + 1]
    BY <1>2, <2>1
  <2>3. bytes[n - (m + 1) + 1] = 0 /\ value[m] = 0
    BY <1>3, <1>5, <2>1
  <2>4. value[m + 1] = 0
    BY <2>2, <2>3
  <2> QED BY <2>1, <2>4
<1>6. n \in Good
  <2> HIDE DEF Good
  <2>1. \A m \in 0..n : m \in Good
    BY <1>4, <1>5, UpTo
  <2> QED BY <2>1
<1> QED BY <1>2, <1>6 DEF bytes

LEMMA LittleEndianBytes ==
  ASSUME NEW v \in Nat, NEW n \in 1..4
  PROVE  /\ LittleEndian(v, n) \in Seq(0..255) /\ Len(LittleEndian(v, n)) = n
         /\ LittleEndian(v, n)[1] = v % 256
         /\ n >= 2 => LittleEndian(v, n)[2] = (v \div 256) % 256
         /\ n >= 3 => LittleEndian(v, n)[3] = (v \div 65536) % 256
         /\ n >= 4 => LittleEndian(v, n)[4] = (v \div 16777216) % 256
<1>1. /\ Power256[1] = 1 /\ Power256[2] = 256 /\ Power256[3] = 65536
      /\ Power256[4] = 16777216
  BY SMT DEF Power256
<1>2. /\ v \div 1 = v
      /\ (v % 256) \in 0..255 /\ (v \div 256) % 256 \in 0..255
      /\ (v \div 65536) % 256 \in 0..255 /\ (v \div 16777216) % 256 \in 0..255
  BY SMT
<1> DEFINE b == LittleEndian(v, n)
           e(k) == (v \div Power256[k]) % 256
<1>3. b = [k \in 1..n |-> e(k)]
  BY SMT DEF LittleEndian
<1>4. /\ e(1) = (v % 256) /\ e(2) = (v \div 256) % 256
      /\ e(3) = (v \div 65536) % 256 /\ e(4) = (v \div 16777216) % 256
  BY <1>1, <1>2, SMT
<1> HIDE DEF e
<1>5. \A k \in 1..n : e(k) \in 0..255
  <2> TAKE k \in 1..n
  <2>1. k = 1 \/ k = 2 \/ k = 3 \/ k = 4
    BY SMT
  <2> QED BY <1>2, <1>4, <2>1, SMT
<1>6. b \in [1..n -> 0..255]
  BY <1>3, <1>5, SMT
<1>7. b \in Seq(0..255) /\ Len(b) = n
  <2> HIDE DEF b
  <2>1. b \in Seq(0..255)
    BY <1>6, SeqDef, SMT
  <2> QED BY <1>6, <2>1, SMT
<1>8. b[1] = e(1) /\ (n >= 2 => b[2] = e(2)) /\ (n >= 3 => b[3] = e(3))
      /\ (n >= 4 => b[4] = e(4))
  BY <1>3, SMT
<1> QED BY <1>4, <1>7, <1>8, SMT

LEMMA Prefixed ==
  ASSUME NEW R, NEW b \in Seq(R), NEW n \in Nat, Len(b) = n, NEW x
  PROVE  /\ Len(<<x>> \o b) = n + 1 /\ <<x>> \o b # <<>>
         /\ (<<x>> \o b)[1] = x
         /\ \A k \in 1..n : (<<x>> \o b)[k + 1] = b[k]
<1> DEFINE p == <<x>>
           S == R \cup {x}
           one == 1
<1>1. p \in Seq(S) /\ b \in Seq(S) /\ Len(p) = one /\ one \in Nat
  BY SeqMonotonic
<1>2. one = 1 /\ p[1] = x
  OBVIOUS
<1> HIDE DEF p, S, one
<1>j. /\ p \o b \in Seq(S) /\ Len(p \o b) = one + n
      /\ \A k \in 1..(one + n) : /\ k <= one => (p \o b)[k] = p[k]
                                 /\ ~(k <= one) => (p \o b)[k] = b[k - one]
  BY <1>1, Joined
<1>3. (p \o b)[1] = x
  BY <1>2, <1>j
<1>4. ASSUME NEW k \in 1..n PROVE (p \o b)[k + 1] = b[k]
  <2>1. k + 1 \in 1..(one + n) /\ ~(k + 1 <= one) /\ (k + 1) - one = k
    BY <1>2
  <2> QED BY <1>j, <2>1
<1>5. p \o b # <<>>
  <2> SUFFICES ASSUME p \o b = <<>> PROVE FALSE
    OBVIOUS
  <2>1. Len(p \o b) = 0
    OBVIOUS
  <2> QED BY <1>2, <1>j, <2>1
<1> QED BY <1>2, <1>j, <1>3, <1>4, <1>5 DEF p

LEMMA Widths == MaxValue \in Nat /\ MaxValue < 2147483648
  BY SMT DEF MaxValue

LEMMA ValueRange ==
  ASSUME NEW v \in 0..MaxValue
  PROVE  v \in Nat /\ v < 2147483648
  BY Widths, SMT

LEMMA FourParts ==
  ASSUME NEW v \in 0..MaxValue
  PROVE  (v % 256) + 256 * ((v \div 256) % 256) + 65536 * ((v \div 65536) % 256)
           + 16777216 * ((v \div 16777216) % 256) = v
<1> DEFINE q1 == v \div 256
           q2 == v \div 65536
           q3 == v \div 16777216
<1>0. v \in Nat /\ v < 2147483648
  BY ValueRange, SMT
<1>1. v = 256 * q1 + (v % 256)
  BY <1>0, SMT
<1>2. q1 = 256 * q2 + (q1 % 256)
  BY <1>0, SMT
<1>3. q2 = 256 * q3 + (q2 % 256)
  BY <1>0, SMT
<1>4. (q3 % 256) = q3
  BY <1>0, SMT
<1>5. q1 \in Nat /\ q2 \in Nat /\ q3 \in Nat /\ v \in Nat
      /\ (v % 256) \in Nat /\ (q1 % 256) \in Nat /\ (q2 % 256) \in Nat
  BY <1>0, SMT
<1> HIDE DEF q1, q2, q3
<1>6. (v % 256) + 256 * (q1 % 256) + 65536 * (q2 % 256) + 16777216 * q3 = v
  BY <1>1, <1>2, <1>3, <1>5, SMT
<1> QED BY <1>4, <1>6, SMT DEF q1, q2, q3

(* varUint can be read back up to 2^31 - 1 but for 253, its panic.          *)
LEMMA VarUintReadable ==
  ASSUME NEW v \in 0..MaxValue, v # 253
  PROVE  varUint(v) # Panic /\ Decode(varUint(v)) = v
<1>1. CASE v <= 252
  <2>1. varUint(v) = <<v>>
    BY <1>1, SMT DEF varUint
  <2>2. <<v>>[1] = v /\ v # 253 /\ v # 254 /\ <<v>> # <<>>
    BY <1>1, SMT
  <2> QED BY <2>1, <2>2, SMT DEF Decode, Panic
<1>2. CASE v > 253 /\ v <= 65535
  <2> DEFINE b == LittleEndian(v, 2)
             w == <<253>> \o b
             t == SubSeq(w, 2, 3)
  <2>1. varUint(v) = w
    BY <1>2, SMT DEF varUint
  <2>2. b \in Seq(0..255) /\ Len(b) = 2 /\ b[1] = (v % 256) /\ b[2] = (v \div 256) % 256
    BY LittleEndianBytes, SMT
  <2> HIDE DEF b
  <2>3. Len(w) = 3 /\ w[1] = 253 /\ w[2] = b[1] /\ w[3] = b[2] /\ w # <<>>
    <3>1. Len(b) \in Nat /\ b \in Seq(0..255)
      BY <2>2, SMT
    <3>2. /\ Len(w) = Len(b) + 1 /\ w # <<>> /\ w[1] = 253
          /\ \A k \in 1..Len(b) : w[k + 1] = b[k]
      BY ONLY <3>1, Prefixed
    <3> QED BY <2>2, <3>2, SMT
  <2> HIDE DEF w
  <2>4. Len(t) = 2 /\ t[1] = w[2] /\ t[2] = w[3]
    BY SMT
  <2> HIDE DEF t
  <2>5. t[1] = (v % 256) /\ t[2] = (v \div 256) % 256
        /\ t[1] \in Nat /\ t[2] \in Nat
    BY <2>2, <2>3, <2>4, SMT
  <2>6. FromBytes(t) = t[1] + 256 * t[2]
    BY <2>4, <2>5, TwoBytes, SMT
  <2>7. (v % 256) + 256 * ((v \div 256) % 256) = v
    BY <1>2, SMT
  <2> QED BY <2>1, <2>3, <2>5, <2>6, <2>7, SMT DEF Decode, Panic, t
<1>3. CASE v > 65535
  <2> DEFINE b == LittleEndian(v, 4)
             w == <<254>> \o b
             t == SubSeq(w, 2, 5)
  <2>1. varUint(v) = w
    BY <1>3, SMT DEF varUint
  <2>2. /\ b \in Seq(0..255) /\ Len(b) = 4
        /\ b[1] = (v % 256) /\ b[2] = (v \div 256) % 256
        /\ b[3] = (v \div 65536) % 256 /\ b[4] = (v \div 16777216) % 256
    BY LittleEndianBytes, SMT
  <2> HIDE DEF b
  <2>3. /\ Len(w) = 5 /\ w[1] = 254 /\ w[2] = b[1] /\ w[3] = b[2] /\ w[4] = b[3]
        /\ w[5] = b[4] /\ w # <<>>
    <3>1. Len(b) \in Nat /\ b \in Seq(0..255)
      BY <2>2, SMT
    <3>2. /\ Len(w) = Len(b) + 1 /\ w # <<>> /\ w[1] = 254
          /\ \A k \in 1..Len(b) : w[k + 1] = b[k]
      BY ONLY <3>1, Prefixed
    <3> QED BY <2>2, <3>2, SMT
  <2> HIDE DEF w
  <2>4. Len(t) = 4 /\ t[1] = w[2] /\ t[2] = w[3] /\ t[3] = w[4] /\ t[4] = w[5]
    BY SMT
  <2> HIDE DEF t
  <2>5. /\ t[1] = (v % 256) /\ t[2] = (v \div 256) % 256
        /\ t[3] = (v \div 65536) % 256 /\ t[4] = (v \div 16777216) % 256
    BY <2>2, <2>3, <2>4, SMT
  <2>6. FromBytes(t) = t[1] + 256 * t[2] + 65536 * t[3] + 16777216 * t[4]
    <3>1. t[1] \in Nat /\ t[2] \in Nat /\ t[3] \in Nat /\ t[4] \in Nat
      BY <2>5, SMT
    <3> QED BY <2>4, <3>1, FourBytes, SMT
  <2>7. (v % 256) + 256 * ((v \div 256) % 256) + 65536 * ((v \div 65536) % 256)
          + 16777216 * ((v \div 16777216) % 256) = v
    BY FourParts
  <2> QED BY <2>1, <2>3, <2>5, <2>6, <2>7, SMT DEF Decode, Panic, t
<1>4. v \in Nat
  BY ValueRange, SMT
<1> QED BY <1>1, <1>2, <1>3, <1>4, SMT

(***************************************************************************)
(* The coinbase script and the count of transactions                       *)
(***************************************************************************)
LEMMA OneByteCount ==
  ASSUME NEW n \in 0..252
  PROVE  varUint(n) = <<n>> /\ Len(varUint(n)) = 1 /\ Decode(varUint(n)) = n
<1>0. n \in Nat /\ n <= 252 /\ ~(n > 253) /\ ~(n > 65535)
  BY SMT
<1>1. varUint(n) = <<n>>
  BY <1>0, SMT DEF varUint
<1>2. <<n>>[1] = n /\ n # 253 /\ n # 254 /\ Len(<<n>>) = 1
  OBVIOUS
<1>3. Decode(<<n>>) = n
  BY <1>2 DEF Decode
<1> QED BY <1>1, <1>2, <1>3

LEMMA PanicAt253 == varUint(253) = Panic
<1>1. ~(253 <= 252) /\ ~(253 > 253) /\ ~(253 > 65535)
  BY SMT
<1> QED BY <1>1, SMT DEF varUint

LEMMA NothingJoined ==
  ASSUME NEW l, IsList(l)
  PROVE  l \o <<>> = l /\ <<>> \o l = l
  BY ConcatEmptySeq DEF IsList

LEMMA TwoListed ==
  ASSUME NEW x, NEW y
  PROVE  <<x>> \o <<y>> = <<x, y>>
<1> DEFINE S == {x, y}
           s == <<x>> \o <<y>>
           t == <<x, y>>
<1>1. s \in Seq(S) /\ Len(s) = 2 /\ s[1] = x /\ s[2] = y
  OBVIOUS
<1>2. t \in Seq(S) /\ Len(t) = 2 /\ t[1] = x /\ t[2] = y
  OBVIOUS
<1> HIDE DEF s, t, S
<1>3. \A i \in 1..Len(s) : s[i] = t[i]
  BY <1>1, <1>2
<1>4. s = t
  BY <1>1, <1>2, <1>3, SeqEqual
<1> QED BY <1>4 DEF s, t

LEMMA ThreeListed ==
  ASSUME NEW x, NEW y, NEW z
  PROVE  <<x>> \o <<y>> \o <<z>> = <<x, y, z>>
<1> DEFINE S == {x, y, z}
           r == <<x>> \o <<y>>
           s == r \o <<z>>
           t == <<x, y, z>>
<1>0. r \in Seq(S) /\ Len(r) = 2 /\ r[1] = x /\ r[2] = y
  OBVIOUS
<1> HIDE DEF r
<1>1. s \in Seq(S) /\ Len(s) = 3 /\ s[1] = x /\ s[2] = y /\ s[3] = z
  <2>1. z \in S
    OBVIOUS
  <2> HIDE DEF S
  <2>2. s = Append(r, z)
    BY <1>0
  <2> HIDE DEF s
  <2>3. /\ s \in Seq(S) /\ Len(s) = Len(r) + 1 /\ s[Len(r) + 1] = z
        /\ \A k \in 1..Len(r) : s[k] = r[k]
    <3>1. r \in Seq(S)
      BY <1>0
    <3> QED BY ONLY <2>1, <2>2, <3>1, AppendProperties
  <2> QED BY <1>0, <2>3
<1>2. t \in Seq(S) /\ Len(t) = 3 /\ t[1] = x /\ t[2] = y /\ t[3] = z
  OBVIOUS
<1> HIDE DEF s, t, S
<1>3. \A i \in 1..Len(s) : s[i] = t[i]
  BY <1>1, <1>2
<1>4. s = t
  BY <1>1, <1>2, <1>3, SeqEqual
<1> QED BY <1>4 DEF s, t, r

LEMMA ShortLists ==
  ASSUME NEW x, NEW y
  PROVE  IsList(<<x>>) /\ IsList(<<x, y>>)
<1>1. <<x>> \in Seq({x, y}) /\ <<x, y>> \in Seq({x, y})
  OBVIOUS
<1> QED BY <1>1 DEF IsList

LEMMA HeightWidth == MaxHeight \in Nat /\ MaxHeight < 16777216
  BY SMT DEF MaxHeight

LEMMA HeightParts ==
  ASSUME NEW h \in 0..MaxHeight
  PROVE  /\ h \in Nat
         /\ h = (h % 256) + 256 * ((h \div 256) % 256) + 65536 * ((h \div 65536) % 256)
<1>1. h \in Nat /\ h < 16777216
  BY HeightWidth, SMT
<1> DEFINE q1 == h \div 256
           q2 == h \div 65536
<1>2. h = 256 * q1 + (h % 256)
  BY <1>1, SMT
<1>3. q1 = 256 * q2 + (q1 % 256)
  BY <1>1, SMT
<1>4. (q2 % 256) = q2
  BY <1>1, SMT
<1>5. q1 \in Nat /\ q2 \in Nat /\ (h % 256) \in Nat /\ (q1 % 256) \in Nat
  BY <1>1, SMT
<1> HIDE DEF q1, q2
<1>6. h = (h % 256) + 256 * (q1 % 256) + 65536 * q2
  BY <1>1, <1>2, <1>3, <1>5, SMT
<1> QED BY <1>1, <1>4, <1>6, SMT DEF q1, q2

(* Which bytes of a height of three bytes are kept.                         *)
LEMMA KeptBytes ==
  ASSUME NEW h \in 0..MaxHeight, h # 0
  PROVE  LET b == LittleEndian(h, 3)
         IN  \/ heightBytes(h) = <<b[1], b[2], b[3]>>
             \/ heightBytes(h) = <<b[1], b[2]>> /\ b[3] = 0
             \/ heightBytes(h) = <<b[1]>> /\ b[2] = 0 /\ b[3] = 0
             \/ heightBytes(h) = <<b[1], b[3]>> /\ b[1] # 0 /\ b[2] = 0 /\ b[3] # 0
<1> DEFINE b == LittleEndian(h, 3)
           Significant(k) == \E j \in 1..k : b[j] # 0
           Kept(k) == IF b[k] # 0 \/ ~Significant(k) THEN <<b[k]>> ELSE <<>>
<1>1. heightBytes(h) = Kept(1) \o Kept(2) \o Kept(3)
  BY DEF heightBytes
<1>2. h \in Nat /\ (b[1] # 0 \/ b[2] # 0 \/ b[3] # 0)
  <2>1. b[1] = (h % 256) /\ b[2] = (h \div 256) % 256 /\ b[3] = (h \div 65536) % 256
        /\ h \in Nat
    BY HeightParts, LittleEndianBytes, SMT
  <2>2. h = (h % 256) + 256 * ((h \div 256) % 256) + 65536 * ((h \div 65536) % 256)
    BY HeightParts, SMT
  <2> HIDE DEF b
  <2>3. ~(b[1] = 0 /\ b[2] = 0 /\ b[3] = 0)
    <3> SUFFICES ASSUME b[1] = 0, b[2] = 0, b[3] = 0 PROVE FALSE
      OBVIOUS
    <3>1. h = 0
      BY <2>1, <2>2, SMT
    <3> QED BY <3>1
  <2> QED BY <2>1, <2>3
<1> HIDE DEF b
<1>3. /\ (Significant(1) <=> b[1] # 0)
      /\ (Significant(2) <=> b[1] # 0 \/ b[2] # 0)
      /\ (Significant(3) <=> b[1] # 0 \/ b[2] # 0 \/ b[3] # 0)
  OBVIOUS
<1> HIDE DEF Significant
<1>4. /\ Kept(1) = <<b[1]>>
      /\ Kept(2) = IF b[1] # 0 /\ b[2] = 0 THEN <<>> ELSE <<b[2]>>
      /\ Kept(3) = IF b[3] = 0 THEN <<>> ELSE <<b[3]>>
  BY <1>2, <1>3
<1> HIDE DEF Kept
<1>5. CASE b[1] # 0 /\ b[2] = 0 /\ b[3] = 0
  <2>1. <<b[1]>> \o <<>> \o <<>> = <<b[1]>>
    BY NothingJoined, ShortLists
  <2> QED BY <1>1, <1>4, <1>5, <2>1 DEF b
<1>6. CASE b[1] # 0 /\ b[2] = 0 /\ b[3] # 0
  <2>1. <<b[1]>> \o <<>> \o <<b[3]>> = <<b[1], b[3]>>
    <3>1. <<b[1]>> \o <<>> = <<b[1]>>
      BY NothingJoined, ShortLists
    <3>2. <<b[1]>> \o <<b[3]>> = <<b[1], b[3]>>
      BY TwoListed
    <3> QED BY <3>1, <3>2
  <2> QED BY <1>1, <1>4, <1>6, <2>1 DEF b
<1>7. CASE ~(b[1] # 0 /\ b[2] = 0) /\ b[3] = 0
  <2>1. <<b[1]>> \o <<b[2]>> \o <<>> = <<b[1], b[2]>>
    <3>1. <<b[1]>> \o <<b[2]>> = <<b[1], b[2]>>
      BY TwoListed
    <3>2. <<b[1], b[2]>> \o <<>> = <<b[1], b[2]>>
      BY NothingJoined, ShortLists
    <3> QED BY <3>1, <3>2
  <2> QED BY <1>1, <1>4, <1>7, <2>1 DEF b
<1>8. CASE ~(b[1] # 0 /\ b[2] = 0) /\ b[3] # 0
  <2>1. <<b[1]>> \o <<b[2]>> \o <<b[3]>> = <<b[1], b[2], b[3]>>
    BY ThreeListed
  <2> QED BY <1>1, <1>4, <1>8, <2>1 DEF b
<1> QED BY <1>5, <1>6, <1>7, <1>8

LEMMA HeightBytesRead ==
  ASSUME NEW h \in 0..MaxHeight
  PROVE  /\ Len(heightBytes(h)) \in 1..8
         /\ ~InnerZero(h) => FromBytes(heightBytes(h)) = h
<1> DEFINE b == LittleEndian(h, 3)
           r == heightBytes(h)
<1>1. CASE h = 0
  <2>1. r = [k \in 1..8 |-> 0]
    BY <1>1 DEF heightBytes
  <2>2. Len(r) = 8
    BY <2>1
  <2>3. FromBytes(r) = 0
    <3>1. 8 \in Nat
      OBVIOUS
    <3> HIDE DEF r
    <3> QED BY <2>1, <3>1, ZeroBytes
  <2> QED BY <1>1, <2>2, <2>3
<1>2. CASE h # 0
  <2>1. /\ b[1] \in Nat /\ b[2] \in Nat /\ b[3] \in Nat
        /\ h = b[1] + 256 * b[2] + 65536 * b[3]
    <3>1. h \in Nat
      BY HeightParts, SMT
    <3>2. b[1] = (h % 256) /\ b[2] = (h \div 256) % 256 /\ b[3] = (h \div 65536) % 256
      BY <3>1, LittleEndianBytes, SMT
    <3>3. h = (h % 256) + 256 * ((h \div 256) % 256) + 65536 * ((h \div 65536) % 256)
      BY HeightParts, SMT
    <3> HIDE DEF b
    <3>4. b[1] \in Nat /\ b[2] \in Nat /\ b[3] \in Nat
      BY <3>1, <3>2, SMT
    <3> QED BY <3>2, <3>3, <3>4, SMT
  <2>2. \/ r = <<b[1], b[2], b[3]>>
        \/ r = <<b[1], b[2]>> /\ b[3] = 0
        \/ r = <<b[1]>> /\ b[2] = 0 /\ b[3] = 0
        \/ r = <<b[1], b[3]>> /\ b[1] # 0 /\ b[2] = 0 /\ b[3] # 0
    BY <1>2, KeptBytes
  <2>3. b[1] # 0 /\ b[2] = 0 /\ b[3] # 0 => InnerZero(h)
    <3> SUFFICES ASSUME b[1] # 0, b[2] = 0, b[3] # 0 PROVE InnerZero(h)
      OBVIOUS
    <3>1. 1 \in 1..3 /\ 2 \in 1..3 /\ 3 \in 1..3 /\ 1 < 2 /\ 2 < 3
      OBVIOUS
    <3> HIDE DEF b
    <3>2. \E i, j, k \in 1..3 : i < j /\ j < k /\ b[i] # 0 /\ b[j] = 0 /\ b[k] # 0
      BY <3>1
    <3> QED BY <3>2 DEF InnerZero, b
  <2> HIDE DEF b, r
  <2>4. CASE r = <<b[1], b[2], b[3]>>
    <3>1. Len(r) = 3 /\ r[1] = b[1] /\ r[2] = b[2] /\ r[3] = b[3]
      BY <2>4
    <3>2. r[1] \in Nat /\ r[2] \in Nat /\ r[3] \in Nat
      BY <2>1, <3>1, SMT
    <3>3. FromBytes(r) = r[1] + 256 * r[2] + 65536 * r[3]
      BY <3>1, <3>2, ThreeBytes, SMT
    <3> QED BY <2>1, <3>1, <3>3, SMT DEF r
  <2>5. CASE r = <<b[1], b[2]>> /\ b[3] = 0
    <3>1. Len(r) = 2 /\ r[1] = b[1] /\ r[2] = b[2]
      BY <2>5
    <3>2. r[1] \in Nat /\ r[2] \in Nat
      BY <2>1, <3>1, SMT
    <3>3. FromBytes(r) = r[1] + 256 * r[2]
      BY <3>1, <3>2, TwoBytes, SMT
    <3> QED BY <2>1, <2>5, <3>1, <3>3, SMT DEF r
  <2>6. CASE r = <<b[1]>> /\ b[2] = 0 /\ b[3] = 0
    <3>1. Len(r) = 1 /\ r[1] = b[1]
      BY <2>6
    <3>2. r[1] \in Nat
      BY <2>1, <3>1, SMT
    <3>3. FromBytes(r) = r[1]
      BY <3>1, <3>2, OneByte, SMT
    <3> QED BY <2>1, <2>6, <3>1, <3>3, SMT DEF r
  <2>7. CASE r = <<b[1], b[3]>> /\ b[1] # 0 /\ b[2] = 0 /\ b[3] # 0
    <3>1. Len(r) = 2
      BY <2>7
    <3> QED BY <2>3, <2>7, <3>1 DEF r
  <2> QED BY <2>2, <2>4, <2>5, <2>6, <2>7
<1> QED BY <1>1, <1>2

(* The length CoinbaseInitial declares.                                     *)
declaredTotal == arbitraryLength + reservedLength + Len(heightBytes(height)) + 1

Scripted ==
  /\ stage # "start" =>
       script = [declared |-> varUint(declaredTotal),
                 heightLength |-> varUint(Len(heightBytes(height))),
                 height |-> heightBytes(height)]
  /\ stage \in {"merkle", "generated"} => varUint(declaredTotal) # Panic
  /\ stage = "panic" => varUint(declaredTotal) = Panic \/ varUint(count + 1) = Panic
  /\ stage = "done" => txCount = varUint(count + 1) /\ varUint(count + 1) # Panic

LEMMA ScriptedKept == ILevels /\ Scripted /\ [Next]_vars => Scripted'
<1> SUFFICES ASSUME ILevels, Scripted, [Next]_vars PROVE Scripted'
  OBVIOUS
<1>1. height' = height /\ count' = count /\ declaredTotal' = declaredTotal
  BY DEF Next, CoinbaseInitial, MerkleRound, MakeHeader, RootRound, blockHeader,
         createSubmission, vars, declaredTotal, arbitraryLength, reservedLength
<1>2. CASE CoinbaseInitial
  <2>1. /\ script' = [declared |-> varUint(declaredTotal),
                      heightLength |-> varUint(Len(heightBytes(height))),
                      height |-> heightBytes(height)]
        /\ stage' \in {"panic", "generated", "merkle"}
        /\ stage' = "panic" <=> varUint(declaredTotal) = Panic
    BY <1>2 DEF CoinbaseInitial, declaredTotal
  <2> QED BY <1>1, <2>1 DEF Scripted
<1>3. CASE createSubmission
  <2>1. /\ stage = "made" /\ script' = script /\ txCount' = varUint(count + 1)
        /\ stage' \in {"panic", "done"}
        /\ stage' = "panic" <=> varUint(count + 1) = Panic
    BY <1>3 DEF createSubmission
  <2> QED BY <1>1, <2>1 DEF Scripted
<1>4. CASE MerkleRound \/ MakeHeader \/ RootRound \/ blockHeader \/ UNCHANGED vars
  <2>1. /\ script' = script /\ txCount' = txCount
        /\ stage' = "start" <=> stage = "start"
        /\ stage' \in {"merkle", "generated"} => stage \in {"merkle", "generated"} \/ stage' = stage
        /\ stage' \in {"panic", "done"} => stage' = stage
    BY <1>4 DEF MerkleRound, MakeHeader, RootRound, blockHeader, vars
  <2> QED BY <1>1, <2>1 DEF Scripted
<1> QED BY <1>2, <1>3, <1>4 DEF Next

LEMMA ScriptedInductive == Spec => [](ILevels /\ Scripted)
<1>1. Init => Scripted
  BY DEF Init, Scripted
<1> QED BY <1>1, LevelsInit, LevelsKept, ScriptedKept, PTL DEF Spec

LEMMA TotalsInRange ==
  ASSUME Lists
  PROVE  /\ height \in 0..MaxHeight /\ arbitrary \in Nat
         /\ Len(heightBytes(height)) \in 1..8
         /\ declaredTotal \in 0..MaxValue /\ count + 1 \in 0..MaxValue
<1>1. /\ height \in 0..MaxHeight /\ count \in 0..(MaxValue - 1)
      /\ arbitrary \in 0..(MaxValue - 20)
  <2>1. MaxValue - 20 \in Nat
    BY SMT DEF MaxValue
  <2>2. arbitrary \in Signatures \/ arbitrary \in Extranonces \/ arbitrary = 0
    BY DEF Lists
  <2>3. 0 \in 0..(MaxValue - 20)
    BY <2>1
  <2> QED BY <2>2, <2>3, AssemblyAssumption DEF Lists
<1>2. Len(heightBytes(height)) \in 1..8
  BY <1>1, HeightBytesRead
<1> DEFINE n == Len(heightBytes(height))
<1>3. n \in 1..8
  BY <1>2
<1> HIDE DEF n
<1>4. MaxValue \in Nat /\ MaxValue >= 20
  BY SMT DEF MaxValue
<1>5. count + 1 \in 0..MaxValue /\ arbitrary \in Nat /\ arbitrary + 20 <= MaxValue
  BY <1>1, <1>4
<1>6. arbitraryLength = 1 + arbitrary /\ reservedLength \in {0, 8}
  BY DEF arbitraryLength, reservedLength
<1>7. arbitraryLength + reservedLength + n + 1 \in 0..MaxValue
  <2> DEFINE a == arbitraryLength
             r == reservedLength
  <2>1. a = 1 + arbitrary /\ r \in {0, 8}
    BY <1>6
  <2> HIDE DEF a, r
  <2>2. a \in Nat /\ r \in Nat /\ n \in Nat /\ n <= 8 /\ r <= 8 /\ a + 19 <= MaxValue
    BY <1>3, <1>4, <1>5, <2>1
  <2>3. a + r + n + 1 \in 0..MaxValue
    BY <1>4, <2>2
  <2> QED BY <2>3 DEF a, r
<1> QED BY <1>1, <1>2, <1>5, <1>7 DEF n, declaredTotal

(* The script of a job's coinbase has the length it declares once the       *)
(* extranonces are in, for any height and any length of the signature.      *)
THEOREM ScriptLengthRightHolds == Spec => []ScriptLengthRight
<1>1. ILevels /\ Scripted => ScriptLengthRight
  <2> SUFFICES ASSUME ILevels, Scripted, stage \in {"merkle", "generated"}, path = "fetch"
               PROVE  /\ Decode(script.declared) =
                           Len(script.heightLength) + Len(script.height)
                             + extranonceLength + 1 + arbitrary
                      /\ Decode(script.heightLength) = Len(script.height)
    BY DEF ScriptLengthRight
  <2> DEFINE n == Len(heightBytes(height))
  <2>1. /\ script.declared = varUint(declaredTotal)
        /\ script.heightLength = varUint(n) /\ script.height = heightBytes(height)
        /\ varUint(declaredTotal) # Panic
    BY DEF Scripted
  <2>2. n \in 1..8 /\ declaredTotal \in 0..MaxValue /\ arbitrary \in Nat
    BY TotalsInRange DEF ILevels
  <2>3. declaredTotal = 1 + arbitrary + 8 + n + 1 /\ extranonceLength = 8
    BY DEF declaredTotal, arbitraryLength, reservedLength, extranonceLength
  <2>4. declaredTotal # 253
    BY <2>1, PanicAt253
  <2>5. Decode(varUint(declaredTotal)) = declaredTotal
    BY <2>2, <2>4, VarUintReadable
  <2>l. Len(script.height) = n
    BY <2>1
  <2> HIDE DEF n
  <2>6. Len(varUint(n)) = 1 /\ Decode(varUint(n)) = n
    <3>1. n \in 0..252
      BY <2>2
    <3> QED BY <3>1, OneByteCount
  <2>7. declaredTotal = 1 + n + 8 + 1 + arbitrary
    BY <2>2, <2>3
  <2> QED BY <2>1, <2>3, <2>5, <2>6, <2>7, <2>l
<1> QED BY <1>1, ScriptedInductive, PTL

(* Any height below 2^24 without a zero byte between others can be read     *)
(* back from the coinbase.                                                  *)
THEOREM HeightReadableHolds == Spec => []HeightReadable
<1>1. ILevels /\ Scripted => HeightReadable
  <2> SUFFICES ASSUME ILevels, Scripted, stage = "merkle", ~InnerZero(height)
               PROVE  FromBytes(script.height) = height
    BY DEF HeightReadable
  <2>1. script.height = heightBytes(height)
    BY DEF Scripted
  <2>2. height \in 0..MaxHeight
    BY TotalsInRange DEF ILevels
  <2> QED BY <2>1, <2>2, HeightBytesRead
<1> QED BY <1>1, ScriptedInductive, PTL

(* A submission's count of transactions can be read back, and 253 is the    *)
(* only value of a count, or of the declared length of a script, whatever   *)
(* the length of a signature or of a client's extranonce2, whose encoding   *)
(* panics.                                                                  *)
THEOREM CountReadableHolds == Spec => []CountReadable
<1>1. ILevels /\ Scripted => CountReadable
  <2> SUFFICES ASSUME ILevels, Scripted PROVE CountReadable
    OBVIOUS
  <2>1. declaredTotal \in 0..MaxValue /\ count + 1 \in 0..MaxValue
    BY TotalsInRange DEF ILevels
  <2>2. stage = "done" => Decode(txCount) = count + 1
    <3> SUFFICES ASSUME stage = "done" PROVE Decode(txCount) = count + 1
      OBVIOUS
    <3>1. txCount = varUint(count + 1) /\ varUint(count + 1) # Panic
      BY DEF Scripted
    <3>2. count + 1 # 253
      BY <3>1, PanicAt253
    <3> QED BY <2>1, <3>1, <3>2, VarUintReadable
  <2>3. stage = "panic" =>
          count + 1 = 253 \/ scriptLength = 253
    <3> SUFFICES ASSUME stage = "panic"
                 PROVE  count + 1 = 253 \/ scriptLength = 253
      OBVIOUS
    <3>1. script.height = heightBytes(height)
          /\ (varUint(declaredTotal) = Panic \/ varUint(count + 1) = Panic)
      BY DEF Scripted
    <3>2. declaredTotal = 253 \/ count + 1 = 253
      BY <2>1, <3>1, VarUintReadable
    <3> QED BY <3>1, <3>2 DEF declaredTotal, scriptLength
  <2> QED BY <2>2, <2>3 DEF CountReadable
<1> QED BY <1>1, ScriptedInductive, PTL
=============================================================================

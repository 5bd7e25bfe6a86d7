--------------------------- MODULE AuditTrailProofs ---------------------------
(***************************************************************************)
(* The Merkle audit trail, at every length: the tree that append renews in *)
(* place is the one a full rebuild gives, every entry's proof leads to its *)
(* root and no other entry's does, and two lists of distinct leaves have   *)
(* the same root only if they are the same.  Whatever number append takes  *)
(* for that of the leaves, the tree is made of leaves that were appended.  *)
(* Each level is a sequence of nodes; what holds of the levels is shown    *)
(* from one level to the next, for the least level where it fails.         *)
(***************************************************************************)
EXTENDS AuditTrail, WellFoundedInduction, TLAPS

-----------------------------------------------------------------------------
(* Numbers.                                                                *)

LEMMA LeastNumber ==
  ASSUME NEW T \in SUBSET Nat, T # {}
  PROVE  \E x \in T : \A y \in T : x <= y
<1>1. \E x \in T : \A y \in T : ~ (<<y, x>> \in OpToRel(<, Nat))
  BY WFMin, NatLessThanWellFounded
<1>2. \A x, y \in Nat : <<y, x>> \in OpToRel(<, Nat) <=> y < x
  BY DEF OpToRel
<1>3. PICK x \in T : \A y \in T : ~ (<<y, x>> \in OpToRel(<, Nat))
  BY <1>1
<1>4. \A y \in T : ~ (y < x) /\ y \in Nat /\ x \in Nat
  BY <1>2, <1>3
<1>5. \A y \in T : x <= y
  BY <1>4
<1> QED  BY <1>5

\* What holds of 0, and of the next number where it holds of one, holds of all up to n.
LEMMA EachNumber ==
  ASSUME NEW n \in Nat, NEW P, 0 \in P, \A k \in 0..n : k < n /\ k \in P => k + 1 \in P
  PROVE  \A k \in 0..n : k \in P
<1> DEFINE T == {k \in 0..n : k \notin P}
<1>1. T \in SUBSET Nat
  OBVIOUS
<1>2. ASSUME NEW k \in T, \A j \in T : k <= j PROVE FALSE
  <2>1. k \in 1..n /\ k \notin P
    OBVIOUS
  <2>2. k - 1 \in 0..n /\ k - 1 < n /\ (k - 1) + 1 = k
    BY <2>1
  <2>3. k - 1 \notin T
    BY <1>2, <2>1, <2>2
  <2> QED  BY <2>1, <2>2, <2>3
<1> HIDE DEF T
<1>3. T = {}
  BY <1>1, <1>2, LeastNumber
<1> QED  BY <1>3 DEF T

\* The number of pairs that n nodes make, the last of them perhaps with itself.
Half(n) == (n + 1) \div 2

LEMMA HalfIs ==
  ASSUME NEW n \in Nat
  PROVE  /\ Half(n) \in Nat
         /\ n % 2 = 1 => 2 * Half(n) = n + 1
         /\ n % 2 # 1 => 2 * Half(n) = n
         /\ n >= 1 => Half(n) >= 1
         /\ n > 1 => Half(n) < n
  BY DEF Half

-----------------------------------------------------------------------------
(* Rows: sequences of n nodes, whatever the nodes are.                     *)

Row(s, n) == n \in Nat /\ s = [i \in 1..n |-> s[i]]

LEMMA RowIs ==
  ASSUME NEW s, NEW n, Row(s, n)
  PROVE  /\ n \in Nat /\ Len(s) = n /\ DOMAIN s = 1..n
         /\ s \in Seq({s[i] : i \in 1..n})
<1> DEFINE S == {s[i] : i \in 1..n}
<1>1. n \in Nat /\ s = [i \in 1..n |-> s[i]]
  BY DEF Row
<1>2. \A i \in 1..n : s[i] \in S
  OBVIOUS
<1> HIDE DEF S
<1>3. s \in [1..n -> S]
  BY <1>1, <1>2
<1>4. s \in Seq(S) /\ Len(s) = n /\ DOMAIN s = 1..n
  BY <1>1, <1>3
<1> QED  BY <1>1, <1>4 DEF S

LEMMA SequenceIsRow == \A S : \A s \in Seq(S) : Row(s, Len(s))
  BY DEF Row

LEMMA RowsEqual ==
  ASSUME NEW s, NEW t, NEW n, Row(s, n), Row(t, n), \A i \in 1..n : s[i] = t[i]
  PROVE  s = t
  BY DEF Row

LEMMA RowAppend ==
  ASSUME NEW s, NEW n, Row(s, n), NEW x
  PROVE  /\ Row(Append(s, x), n + 1) /\ Append(s, x)[n + 1] = x
         /\ \A i \in 1..n : Append(s, x)[i] = s[i]
<1> DEFINE S == {s[i] : i \in 1..n} \cup {x}
<1>1. n \in Nat /\ Len(s) = n /\ s \in Seq({s[i] : i \in 1..n})
  BY RowIs
<1>2. s \in Seq(S) /\ x \in S
  BY <1>1
<1> HIDE DEF S
<1>3. /\ Append(s, x) \in Seq(S) /\ Len(Append(s, x)) = n + 1 /\ Append(s, x)[n + 1] = x
      /\ \A i \in 1..n : Append(s, x)[i] = s[i]
  BY <1>1, <1>2
<1> QED  BY <1>3, SequenceIsRow

LEMMA RowFront ==
  ASSUME NEW s, NEW n \in Nat, Row(s, n + 1)
  PROVE  Row(Front(s), n) /\ \A i \in 1..n : Front(s)[i] = s[i]
<1> DEFINE S == {s[i] : i \in 1..(n + 1)}
<1>1. s \in Seq(S) /\ Len(s) = n + 1
  BY RowIs
<1> HIDE DEF S
<1>2. Front(s) = SubSeq(s, 1, n)
  BY <1>1 DEF Front
<1>3. SubSeq(s, 1, n) \in Seq(S) /\ Len(SubSeq(s, 1, n)) = n /\ \A i \in 1..n : SubSeq(s, 1, n)[i] = s[i]
  BY <1>1
<1> QED  BY <1>2, <1>3, SequenceIsRow

LEMMA RowReplace ==
  ASSUME NEW s, NEW n, Row(s, n), NEW i \in 1..n, NEW x
  PROVE  /\ Row(ReplaceAt(s, i, x), n) /\ ReplaceAt(s, i, x)[i] = x
         /\ \A j \in 1..n : j # i => ReplaceAt(s, i, x)[j] = s[j]
<1>1. n \in Nat /\ Len(s) = n /\ DOMAIN s = 1..n
  BY RowIs
<1>2. ReplaceAt(s, i, x) = [j \in 1..n |-> IF j = i THEN x ELSE s[j]]
  BY <1>1 DEF ReplaceAt
<1> QED  BY <1>1, <1>2 DEF Row

-----------------------------------------------------------------------------
(* One level and the next.                                                 *)

\* An even row, the last node doubled where there was an odd one.
LEMMA PaddedIs ==
  ASSUME NEW s, NEW n, Row(s, n), n >= 1
  PROVE  /\ Row(Padded(s), 2 * Half(n)) /\ n \in {2 * Half(n), 2 * Half(n) - 1}
         /\ \A i \in 1..n : Padded(s)[i] = s[i]
         /\ 2 * Half(n) = n + 1 => Padded(s)[n + 1] = s[n]
<1>1. n \in Nat /\ Len(s) = n /\ Last(s) = s[n] /\ s \in Seq({s[i] : i \in 1..n})
  BY RowIs DEF Last
<1>2. CASE n % 2 = 1
  <2>1. Padded(s) = Append(s, s[n]) /\ 2 * Half(n) = n + 1
    BY <1>1, <1>2, HalfIs DEF Padded
  <2>2. PICK x : x = s[n]
    OBVIOUS
  <2>3. /\ Row(Append(s, x), n + 1) /\ Append(s, x)[n + 1] = x
        /\ \A i \in 1..n : Append(s, x)[i] = s[i]
    BY <1>1, RowAppend
  <2> QED  BY <1>1, <2>1, <2>2, <2>3
<1>3. CASE n % 2 # 1
  <2>1. Padded(s) = s /\ 2 * Half(n) = n
    BY <1>1, <1>3, HalfIs DEF Padded
  <2> QED  BY <1>1, <2>1
<1> QED  BY <1>2, <1>3

LEMMA AboveIs ==
  ASSUME NEW s, NEW n, Row(s, n), n >= 1
  PROVE  /\ Row(Above(s), Half(n)) /\ Half(n) >= 1
         /\ \A k \in 1..Half(n) : Above(s)[k] = Parent(Padded(s)[2 * k - 1], Padded(s)[2 * k])
<1>1. n \in Nat /\ Half(n) \in Nat /\ Half(n) >= 1
  BY RowIs, HalfIs
<1>2. Len(Padded(s)) = 2 * Half(n)
  BY PaddedIs, RowIs
<1>3. Len(Padded(s)) \div 2 = Half(n)
  BY <1>1, <1>2
<1>4. Above(s) = [k \in 1..Half(n) |-> Parent(Padded(s)[2 * k - 1], Padded(s)[2 * k])]
  BY <1>3 DEF Above
<1> HIDE DEF Above
<1>5. \A k \in 1..Half(n) : Above(s)[k] = Parent(Padded(s)[2 * k - 1], Padded(s)[2 * k])
  BY <1>4
<1> QED  BY <1>1, <1>4, <1>5 DEF Row

\* A parent tells its children, and a leaf is no parent.
LEMMA ParentsTell ==
  /\ \A a, b, c, d : Parent(a, b) = Parent(c, d) <=> a = c /\ b = d
  /\ \A e, a, b : Leaf(e) # Parent(a, b)
<1>1. ASSUME NEW a, NEW b, NEW c, NEW d, Parent(a, b) = Parent(c, d) PROVE a = c /\ b = d
  <2>1. Parent(a, b).left = Parent(c, d).left /\ Parent(a, b).right = Parent(c, d).right
    BY <1>1
  <2> QED  BY <2>1 DEF Parent
<1>2. ASSUME NEW e, NEW a, NEW b, Leaf(e) = Parent(a, b) PROVE FALSE
  <2>1. DOMAIN Leaf(e) = DOMAIN Parent(a, b)
    BY <1>2
  <2>2. "left" \in DOMAIN Parent(a, b) /\ "left" \notin DOMAIN Leaf(e)
    BY DEF Parent, Leaf
  <2> QED  BY <2>1, <2>2
<1> QED  BY <1>1, <1>2

\* Nodes that differ have parents that differ.
Distinct(s, n) == \A i, j \in 1..n : s[i] = s[j] => i = j

LEMMA AboveDistinct ==
  ASSUME NEW s, NEW n, Row(s, n), n >= 1, Distinct(s, n)
  PROVE  Distinct(Above(s), Half(n))
<1>1. n \in Nat /\ Half(n) \in Nat /\ n \in {2 * Half(n), 2 * Half(n) - 1}
  BY RowIs, HalfIs, PaddedIs
<1>2. ASSUME NEW i \in 1..Half(n), NEW j \in 1..Half(n), Above(s)[i] = Above(s)[j] PROVE i = j
  <2>1. Padded(s)[2 * i - 1] = Padded(s)[2 * j - 1]
    BY <1>2, AboveIs, ParentsTell
  <2>2. 2 * i - 1 \in 1..n /\ 2 * j - 1 \in 1..n
    BY <1>1
  <2>3. s[2 * i - 1] = s[2 * j - 1]
    BY <2>1, <2>2, PaddedIs
  <2>4. 2 * i - 1 = 2 * j - 1
    BY <2>2, <2>3 DEF Distinct
  <2> QED  BY <2>4
<1> QED  BY <1>2 DEF Distinct

\* Of rows of distinct nodes, those with the same row above are the same.
LEMMA AboveTells ==
  ASSUME NEW s, NEW n, Row(s, n), n >= 1, Distinct(s, n),
         NEW t, NEW m, Row(t, m), m >= 1, Distinct(t, m),
         Half(n) = Half(m), Above(s) = Above(t)
  PROVE  n = m /\ s = t
<1> DEFINE h == Half(n)
<1>1. /\ n \in Nat /\ m \in Nat /\ h \in Nat
      /\ n \in {2 * h, 2 * h - 1} /\ m \in {2 * h, 2 * h - 1}
  BY RowIs, HalfIs, PaddedIs
<1>2. ASSUME NEW k \in 1..h
      PROVE  Padded(s)[2 * k - 1] = Padded(t)[2 * k - 1] /\ Padded(s)[2 * k] = Padded(t)[2 * k]
  <2>1. /\ Above(s)[k] = Parent(Padded(s)[2 * k - 1], Padded(s)[2 * k])
        /\ Above(t)[k] = Parent(Padded(t)[2 * k - 1], Padded(t)[2 * k])
    BY AboveIs
  <2> QED  BY <2>1, ParentsTell
<1>3. /\ \A i \in 1..n : Padded(s)[i] = s[i]
      /\ 2 * h = n + 1 => Padded(s)[n + 1] = s[n]
  BY PaddedIs
<1>4. /\ \A i \in 1..m : Padded(t)[i] = t[i]
      /\ 2 * h = m + 1 => Padded(t)[m + 1] = t[m]
  BY PaddedIs
<1> HIDE DEF h
<1>5. ~ (n < m)
  <2>1. ASSUME n < m PROVE FALSE
    <3>1. n = 2 * h - 1 /\ m = 2 * h /\ h \in 1..h /\ n \in 1..n /\ n \in 1..m /\ m \in 1..m
      BY <1>1, <2>1
    <3>2. Padded(s)[n] = s[n] /\ Padded(s)[m] = s[n] /\ Padded(t)[n] = t[n] /\ Padded(t)[m] = t[m]
      BY <1>1, <1>3, <1>4, <3>1
    <3>3. Padded(s)[n] = Padded(t)[n] /\ Padded(s)[m] = Padded(t)[m]
      BY <1>2, <3>1
    <3>4. t[n] = t[m]
      BY <3>2, <3>3
    <3> QED  BY <2>1, <3>1, <3>4 DEF Distinct
  <2> QED  BY <2>1
<1>6. ~ (m < n)
  <2>1. ASSUME m < n PROVE FALSE
    <3>1. m = 2 * h - 1 /\ n = 2 * h /\ h \in 1..h /\ m \in 1..m /\ m \in 1..n /\ n \in 1..n
      BY <1>1, <2>1
    <3>2. Padded(t)[m] = t[m] /\ Padded(t)[n] = t[m] /\ Padded(s)[m] = s[m] /\ Padded(s)[n] = s[n]
      BY <1>1, <1>3, <1>4, <3>1
    <3>3. Padded(s)[m] = Padded(t)[m] /\ Padded(s)[n] = Padded(t)[n]
      BY <1>2, <3>1
    <3>4. s[m] = s[n]
      BY <3>2, <3>3
    <3> QED  BY <2>1, <3>1, <3>4 DEF Distinct
  <2> QED  BY <2>1
<1>7. n = m
  BY <1>1, <1>5, <1>6
<1>8. ASSUME NEW i \in 1..n PROVE s[i] = t[i]
  <2>1. PICK k \in 1..h : i \in {2 * k - 1, 2 * k}
    <3>1. Half(i) \in 1..h /\ i \in {2 * Half(i) - 1, 2 * Half(i)}
      BY <1>1, HalfIs
    <3> QED  BY <3>1
  <2>2. Padded(s)[i] = Padded(t)[i]
    BY <1>2, <2>1
  <2> QED  BY <1>3, <1>4, <1>7, <2>2
<1> QED  BY <1>7, <1>8, RowsEqual
-----------------------------------------------------------------------------
(* The recursive functions exist, and so satisfy their equations.          *)

LEMMA LevelsAre ==
  ASSUME NEW l, NEW n \in Nat, Len(l) = n
  PROVE  /\ DOMAIN Levels(l) = 0..n /\ Levels(l)[0] = l
         /\ \A k \in 1..n : Levels(l)[k] = Above(Levels(l)[k - 1])
<1> DEFINE Is(g, m) == g = [k \in 0..m |-> IF k = 0 THEN l ELSE Above(g[k - 1])]
           P == {m \in 0..n : \E g : Is(g, m)}
<1> HIDE DEF Is
<1>1. 0 \in P
  <2>1. PICK g : g = [k \in 0..0 |-> l]
    OBVIOUS
  <2>2. Is(g, 0)
    BY <2>1 DEF Is
  <2>3. 0 \in 0..n
    OBVIOUS
  <2> QED  BY <2>2, <2>3
<1>2. ASSUME NEW m \in 0..n, m < n, m \in P PROVE m + 1 \in P
  <2>1. PICK g : Is(g, m)
    BY <1>2
  <2>2. PICK f : f = [k \in 0..(m + 1) |-> IF k <= m THEN g[k] ELSE Above(g[m])]
    OBVIOUS
  <2>3. ASSUME NEW k \in 0..(m + 1) PROVE f[k] = IF k = 0 THEN l ELSE Above(f[k - 1])
    <3>1. CASE k = 0
      BY <2>1, <2>2, <3>1 DEF Is
    <3>2. CASE k \in 1..m
      <4>1. f[k] = g[k] /\ f[k - 1] = g[k - 1] /\ k # 0
        BY <2>2, <3>2
      <4>2. g[k] = Above(g[k - 1])
        BY <2>1, <3>2 DEF Is
      <4> QED  BY <4>1, <4>2
    <3>3. CASE k = m + 1
      <4>1. f[k] = Above(g[m]) /\ f[m] = g[m] /\ k # 0 /\ k - 1 = m
        BY <2>2, <3>3
      <4> QED  BY <4>1
    <3> QED  BY <3>1, <3>2, <3>3
  <2>4. Is(f, m + 1)
    BY <2>2, <2>3 DEF Is
  <2>5. m + 1 \in 0..n
    BY <1>2
  <2> QED  BY <2>4, <2>5
<1> HIDE DEF P
<1>3. \A m \in 0..n : m < n /\ m \in P => m + 1 \in P
  BY <1>2
<1>4. \A m \in 0..n : m \in P
  BY <1>1, <1>3, EachNumber
<1>5. n \in P
  BY <1>4
<1>6. PICK g : Is(g, n)
  BY <1>5 DEF P
<1>7. Is(Levels(l), n)
  BY <1>6 DEF Is, Levels
<1> QED  BY <1>7 DEF Is

LEMMA HalvingsAre ==
  ASSUME NEW i, NEW n \in Nat
  PROVE  /\ n >= 1 => Halvings(i, n)[1] = i
         /\ \A k \in 2..n : Halvings(i, n)[k] = Halvings(i, n)[k - 1] \div 2
<1> DEFINE Is(g, m) == g = [k \in 1..m |-> IF k = 1 THEN i ELSE g[k - 1] \div 2]
           P == {m \in 0..n : \E g : Is(g, m)}
<1> HIDE DEF Is
<1>1. 0 \in P
  <2>1. PICK g : g = [k \in 1..0 |-> i]
    OBVIOUS
  <2>2. Is(g, 0)
    BY <2>1 DEF Is
  <2>3. 0 \in 0..n
    OBVIOUS
  <2> QED  BY <2>2, <2>3
<1>2. ASSUME NEW m \in 0..n, m < n, m \in P PROVE m + 1 \in P
  <2>1. PICK g : Is(g, m)
    BY <1>2
  <2>2. PICK f : f = [k \in 1..(m + 1) |-> IF k <= m THEN g[k] ELSE IF k = 1 THEN i ELSE g[m] \div 2]
    OBVIOUS
  <2>3. ASSUME NEW k \in 1..(m + 1) PROVE f[k] = IF k = 1 THEN i ELSE f[k - 1] \div 2
    <3>1. CASE k = 1
      BY <2>1, <2>2, <3>1 DEF Is
    <3>2. CASE k \in 2..m
      <4>1. f[k] = g[k] /\ f[k - 1] = g[k - 1] /\ k # 1
        BY <2>2, <3>2
      <4>2. g[k] = g[k - 1] \div 2
        BY <2>1, <3>2 DEF Is
      <4> QED  BY <4>1, <4>2
    <3>3. CASE k = m + 1 /\ k # 1
      <4>1. f[k] = g[m] \div 2 /\ f[m] = g[m] /\ k - 1 = m
        BY <2>2, <3>3
      <4> QED  BY <3>3, <4>1
    <3> QED  BY <3>1, <3>2, <3>3
  <2>4. Is(f, m + 1)
    BY <2>2, <2>3 DEF Is
  <2>5. m + 1 \in 0..n
    BY <1>2
  <2> QED  BY <2>4, <2>5
<1> HIDE DEF P
<1>3. \A m \in 0..n : m < n /\ m \in P => m + 1 \in P
  BY <1>2
<1>4. \A m \in 0..n : m \in P
  BY <1>1, <1>3, EachNumber
<1>5. n \in P
  BY <1>4
<1>6. PICK g : Is(g, n)
  BY <1>5 DEF P
<1>7. Is(Halvings(i, n), n)
  BY <1>6 DEF Is, Halvings
<1> QED  BY <1>7 DEF Is

LEMMA CountsAre ==
  ASSUME NEW c, NEW n \in Nat
  PROVE  /\ n >= 1 => Counts(c, n)[1] = c
         /\ \A k \in 2..n : Counts(c, n)[k] = Half(Counts(c, n)[k - 1])
<1> DEFINE Is(g, m) == g = [k \in 1..m |-> IF k = 1 THEN c ELSE (g[k - 1] + 1) \div 2]
           P == {m \in 0..n : \E g : Is(g, m)}
<1> HIDE DEF Is
<1>1. 0 \in P
  <2>1. PICK g : g = [k \in 1..0 |-> c]
    OBVIOUS
  <2>2. Is(g, 0)
    BY <2>1 DEF Is
  <2>3. 0 \in 0..n
    OBVIOUS
  <2> QED  BY <2>2, <2>3
<1>2. ASSUME NEW m \in 0..n, m < n, m \in P PROVE m + 1 \in P
  <2>1. PICK g : Is(g, m)
    BY <1>2
  <2>2. PICK f : f = [k \in 1..(m + 1) |-> IF k <= m THEN g[k] ELSE IF k = 1 THEN c ELSE (g[m] + 1) \div 2]
    OBVIOUS
  <2>3. ASSUME NEW k \in 1..(m + 1) PROVE f[k] = IF k = 1 THEN c ELSE (f[k - 1] + 1) \div 2
    <3>1. CASE k = 1
      BY <2>1, <2>2, <3>1 DEF Is
    <3>2. CASE k \in 2..m
      <4>1. f[k] = g[k] /\ f[k - 1] = g[k - 1] /\ k # 1
        BY <2>2, <3>2
      <4>2. g[k] = (g[k - 1] + 1) \div 2
        BY <2>1, <3>2 DEF Is
      <4> QED  BY <4>1, <4>2
    <3>3. CASE k = m + 1 /\ k # 1
      <4>1. f[k] = (g[m] + 1) \div 2 /\ f[m] = g[m] /\ k - 1 = m
        BY <2>2, <3>3
      <4> QED  BY <3>3, <4>1
    <3> QED  BY <3>1, <3>2, <3>3
  <2>4. Is(f, m + 1)
    BY <2>2, <2>3 DEF Is
  <2>5. m + 1 \in 0..n
    BY <1>2
  <2> QED  BY <2>4, <2>5
<1> HIDE DEF P
<1>3. \A m \in 0..n : m < n /\ m \in P => m + 1 \in P
  BY <1>2
<1>4. \A m \in 0..n : m \in P
  BY <1>1, <1>3, EachNumber
<1>5. n \in P
  BY <1>4
<1>6. PICK g : Is(g, n)
  BY <1>5 DEF P
<1>7. Is(Counts(c, n), n)
  BY <1>6 DEF Is, Counts
<1> QED  BY <1>7 DEF Is, Half

LEMMA ClimbIs ==
  ASSUME NEW leaf, NEW proof, NEW n \in Nat, Len(proof) = n
  PROVE  /\ Climb(leaf, proof)[0] = leaf
         /\ \A k \in 1..n : Climb(leaf, proof)[k] = Joined(Climb(leaf, proof)[k - 1], proof[k])
<1> DEFINE Is(g, m) == g = [k \in 0..m |-> IF k = 0 THEN leaf ELSE Joined(g[k - 1], proof[k])]
           P == {m \in 0..n : \E g : Is(g, m)}
<1> HIDE DEF Is
<1>1. 0 \in P
  <2>1. PICK g : g = [k \in 0..0 |-> leaf]
    OBVIOUS
  <2>2. Is(g, 0)
    BY <2>1 DEF Is
  <2>3. 0 \in 0..n
    OBVIOUS
  <2> QED  BY <2>2, <2>3
<1>2. ASSUME NEW m \in 0..n, m < n, m \in P PROVE m + 1 \in P
  <2>1. PICK g : Is(g, m)
    BY <1>2
  <2>2. PICK f : f = [k \in 0..(m + 1) |-> IF k <= m THEN g[k] ELSE Joined(g[m], proof[m + 1])]
    OBVIOUS
  <2>3. ASSUME NEW k \in 0..(m + 1) PROVE f[k] = IF k = 0 THEN leaf ELSE Joined(f[k - 1], proof[k])
    <3>1. CASE k = 0
      BY <2>1, <2>2, <3>1 DEF Is
    <3>2. CASE k \in 1..m
      <4>1. f[k] = g[k] /\ f[k - 1] = g[k - 1] /\ k # 0
        BY <2>2, <3>2
      <4>2. g[k] = Joined(g[k - 1], proof[k])
        BY <2>1, <3>2 DEF Is
      <4> QED  BY <4>1, <4>2
    <3>3. CASE k = m + 1
      <4>1. f[k] = Joined(g[m], proof[k]) /\ f[m] = g[m] /\ k # 0 /\ k - 1 = m
        BY <2>2, <3>3
      <4> QED  BY <4>1
    <3> QED  BY <3>1, <3>2, <3>3
  <2>4. Is(f, m + 1)
    BY <2>2, <2>3 DEF Is
  <2>5. m + 1 \in 0..n
    BY <1>2
  <2> QED  BY <2>4, <2>5
<1> HIDE DEF P
<1>3. \A m \in 0..n : m < n /\ m \in P => m + 1 \in P
  BY <1>2
<1>4. \A m \in 0..n : m \in P
  BY <1>1, <1>3, EachNumber
<1>5. n \in P
  BY <1>4
<1>6. PICK g : Is(g, n)
  BY <1>5 DEF P
<1>7. Is(Climb(leaf, proof), n)
  BY <1>6 DEF Is, Climb
<1> QED  BY <1>7 DEF Is

LEMMA RenewalsAre ==
  ASSUME NEW t, NEW n, NEW h \in Nat, DOMAIN t = 1..h, NEW leaf
  PROVE  /\ h >= 1 => Renewals(t, n, leaf)[1] = Append(Unpadded(t, n)[1], leaf)
         /\ \A k \in 2..h : Renewals(t, n, leaf)[k] =
                              Renewed(Unpadded(t, n)[k], Padded(Renewals(t, n, leaf)[k - 1]))
<1>0. PICK old, first : old = Unpadded(t, n) /\ first = Append(old[1], leaf)
  OBVIOUS
<1> DEFINE Is(g, m) ==
             g = [k \in 1..m |-> IF k = 1 THEN first ELSE Renewed(old[k], Padded(g[k - 1]))]
           P == {m \in 0..h : \E g : Is(g, m)}
<1> HIDE DEF Is
<1>1. 0 \in P
  <2>1. PICK g : g = [k \in 1..0 |-> leaf]
    OBVIOUS
  <2>2. Is(g, 0)
    BY <2>1 DEF Is
  <2>3. 0 \in 0..h
    OBVIOUS
  <2> QED  BY <2>2, <2>3
<1>2. ASSUME NEW m \in 0..h, m < h, m \in P PROVE m + 1 \in P
  <2>1. PICK g : Is(g, m)
    BY <1>2
  <2>2. PICK f : f = [k \in 1..(m + 1) |->
                        IF k <= m THEN g[k]
                        ELSE IF k = 1 THEN first ELSE Renewed(old[k], Padded(g[m]))]
    OBVIOUS
  <2>3. ASSUME NEW k \in 1..(m + 1)
        PROVE  f[k] = IF k = 1 THEN first ELSE Renewed(old[k], Padded(f[k - 1]))
    <3>1. CASE k = 1
      BY <2>1, <2>2, <3>1 DEF Is
    <3>2. CASE k \in 2..m
      <4>1. f[k] = g[k] /\ f[k - 1] = g[k - 1] /\ k # 1
        BY <2>2, <3>2
      <4>2. g[k] = Renewed(old[k], Padded(g[k - 1]))
        BY <2>1, <3>2 DEF Is
      <4> QED  BY <4>1, <4>2
    <3>3. CASE k = m + 1 /\ k # 1
      <4>1. f[k] = Renewed(old[k], Padded(g[m])) /\ f[m] = g[m] /\ k - 1 = m
        BY <2>2, <3>3
      <4> QED  BY <3>3, <4>1
    <3> QED  BY <3>1, <3>2, <3>3
  <2>4. Is(f, m + 1)
    BY <2>2, <2>3 DEF Is
  <2>5. m + 1 \in 0..h
    BY <1>2
  <2> QED  BY <2>4, <2>5
<1> HIDE DEF P
<1>3. \A m \in 0..h : m < h /\ m \in P => m + 1 \in P
  BY <1>2
<1>4. \A m \in 0..h : m \in P
  BY <1>1, <1>3, EachNumber
<1>5. h \in P
  BY <1>4
<1>6. PICK g : Is(g, h)
  BY <1>5 DEF P
<1>7. PICK r : r = Renewals(t, n, leaf)
  OBVIOUS
<1>8. r = CHOOSE f : f = [k \in 1..h |-> IF k = 1 THEN first ELSE Renewed(old[k], Padded(f[k - 1]))]
  BY <1>0, <1>7 DEF Renewals
<1>9. Is(r, h)
  BY <1>6, <1>8 DEF Is
<1>10. (h >= 1 => r[1] = first) /\ \A k \in 2..h : r[k] = Renewed(old[k], Padded(r[k - 1]))
  BY <1>9 DEF Is
<1> QED  BY <1>0, <1>7, <1>10

-----------------------------------------------------------------------------
(* The levels of a tree, from the leaves at 0 to the root at h.            *)

\* How many nodes it has.
Width(level) == Len(level)

Tower(L, h) ==
    /\ h \in Nat
    /\ \A k \in 0..h : Row(L[k], Width(L[k])) /\ Width(L[k]) >= 1
    /\ \A k \in 1..h : L[k] = Above(L[k - 1])
    /\ Width(L[h]) = 1 /\ \A k \in 0..(h - 1) : Width(L[k]) > 1

Built(L, h) == [k \in 1..(h + 1) |-> IF k <= h THEN Padded(L[k - 1]) ELSE L[k - 1]]

\* Each level has half the nodes of the one below.
LEMMA AboveIsShorter ==
  ASSUME NEW s, Row(s, Width(s)), Width(s) >= 1
  PROVE  Row(Above(s), Width(Above(s))) /\ Width(Above(s)) = Half(Width(s)) /\ Width(Above(s)) >= 1
<1>1. Row(Above(s), Half(Width(s))) /\ Half(Width(s)) >= 1
  BY AboveIs
<1>2. Width(Above(s)) = Half(Width(s))
  BY <1>1, RowIs DEF Width
<1> QED  BY <1>1, <1>2

\* The tree of a list of leaves is built on such levels.
LEMMA TreeHasTower ==
  ASSUME NEW l, NEW n, Row(l, n), n >= 1
  PROVE  \E L, h : Tower(L, h) /\ L[0] = l /\ BuildMerkleTree(l) = Built(L, h)
<1>1. n \in Nat /\ Len(l) = n
  BY RowIs
<1>2. PICK L : L = Levels(l)
  OBVIOUS
<1>3. L[0] = l /\ \A k \in 1..n : L[k] = Above(L[k - 1])
  BY <1>1, <1>2, LevelsAre
<1> DEFINE P == {k \in 0..n : /\ Row(L[k], Width(L[k])) /\ Width(L[k]) >= 1
                              /\ Width(L[k]) = 1 \/ Width(L[k]) <= n - k}
<1>4. 0 \in P
  BY <1>1, <1>3 DEF Width
<1>5. ASSUME NEW k \in 0..n, k < n, k \in P PROVE k + 1 \in P
  <2>1. PICK s : s = L[k]
    OBVIOUS
  <2>2. Row(s, Width(s)) /\ Width(s) >= 1 /\ (Width(s) = 1 \/ Width(s) <= n - k) /\ Width(s) \in Nat
    BY <1>5, <2>1 DEF Row
  <2>3. L[k + 1] = Above(s) /\ k + 1 \in 0..n
    <3>1. k + 1 \in 1..n /\ (k + 1) - 1 = k
      BY <1>1, <1>5
    <3> QED  BY <1>3, <2>1, <3>1
  <2>4. Row(Above(s), Width(Above(s))) /\ Width(Above(s)) = Half(Width(s)) /\ Width(Above(s)) >= 1
    BY <2>2, AboveIsShorter
  <2>5. Half(Width(s)) = 1 \/ Half(Width(s)) <= n - (k + 1)
    <3>1. PICK c \in Nat : c = Width(s)
      BY <2>2
    <3>2. Half(c) \in Nat /\ (c > 1 => Half(c) < c) /\ (c = 1 => Half(c) = 1)
      BY HalfIs DEF Half
    <3>3. c >= 1 /\ (c = 1 \/ c <= n - k)
      BY <2>2, <3>1
    <3>4. Half(c) = 1 \/ Half(c) <= n - (k + 1)
      BY <1>1, <3>2, <3>3
    <3> QED  BY <3>1, <3>4
  <2> QED  BY <2>3, <2>4, <2>5
<1> HIDE DEF P
<1>6. \A k \in 0..n : k < n /\ k \in P => k + 1 \in P
  BY <1>5
<1>7. \A k \in 0..n : k \in P
  BY <1>1, <1>4, <1>6, EachNumber
<1>8. \A k \in 0..n : /\ Row(L[k], Width(L[k])) /\ Width(L[k]) >= 1 /\ Width(L[k]) \in Nat
                      /\ Width(L[k]) = 1 \/ Width(L[k]) <= n - k
  BY <1>7 DEF P, Row
<1> DEFINE T == {k \in 0..n : Width(L[k]) = 1}
<1>9. T \in SUBSET Nat /\ T # {}
  <2>1. n \in 0..n /\ Width(L[n]) = 1
    BY <1>1, <1>8
  <2> QED  BY <1>1, <2>1
<1>10. \E h \in T : \A j \in T : h <= j
  <2> HIDE DEF T
  <2> QED  BY <1>9, LeastNumber
<1>11. \E h \in 0..n : Width(L[h]) = 1 /\ \A j \in 0..(h - 1) : Width(L[j]) > 1
  <2>1. PICK h \in T : \A j \in T : h <= j
    BY <1>10
  <2>2. ASSUME NEW j \in 0..(h - 1) PROVE Width(L[j]) > 1
    <3>1. j \in 0..n /\ ~ (h <= j)
      BY <1>1
    <3>2. Width(L[j]) # 1
      BY <2>1, <3>1
    <3>3. Width(L[j]) >= 1 /\ Width(L[j]) \in Nat
      BY <1>8, <3>1
    <3> QED  BY <3>2, <3>3
  <2> QED  BY <2>2
<1>12. PICK h : h = Height(l)
  OBVIOUS
<1>13. h \in 0..n /\ Width(L[h]) = 1 /\ \A j \in 0..(h - 1) : Width(L[j]) > 1
  BY <1>1, <1>2, <1>11, <1>12 DEF Height, Width
<1>14. Tower(L, h)
  BY <1>1, <1>3, <1>8, <1>13 DEF Tower
<1>15. BuildMerkleTree(l) = Built(L, h)
  <2>1. l # <<>>
    BY <1>1
  <2> QED  BY <1>2, <1>12, <2>1 DEF BuildMerkleTree, Built
<1> QED  BY <1>3, <1>14, <1>15

\* And on no others.
LEMMA TowersEqual ==
  ASSUME NEW L, NEW h, Tower(L, h), NEW M, NEW g, Tower(M, g), L[0] = M[0]
  PROVE  h = g /\ \A k \in 0..h : L[k] = M[k]
<1> DEFINE least == IF h <= g THEN h ELSE g
           P == {k \in 0..least : L[k] = M[k]}
<1>1. h \in Nat /\ g \in Nat /\ least \in Nat /\ least <= h /\ least <= g
  BY DEF Tower
<1>2. /\ \A k \in 1..h : L[k] = Above(L[k - 1])
      /\ \A k \in 1..g : M[k] = Above(M[k - 1])
  BY DEF Tower
<1>12. /\ Width(L[h]) = 1 /\ \A k \in 0..(h - 1) : Width(L[k]) > 1
       /\ Width(M[g]) = 1 /\ \A k \in 0..(g - 1) : Width(M[k]) > 1
  BY DEF Tower
<1>3. 0 \in P
  BY <1>1
<1> HIDE DEF least
<1>4. ASSUME NEW k \in 0..least, k < least, k \in P PROVE k + 1 \in P
  <2>1. k + 1 \in 1..h /\ k + 1 \in 1..g /\ (k + 1) - 1 = k /\ k + 1 \in 0..least
    BY <1>1, <1>4
  <2>2. L[k] = M[k]
    BY <1>4
  <2>3. L[k + 1] = Above(L[k]) /\ M[k + 1] = Above(M[k])
    BY <1>2, <2>1
  <2> QED  BY <2>1, <2>2, <2>3
<1> HIDE DEF P
<1>5. \A k \in 0..least : k < least /\ k \in P => k + 1 \in P
  BY <1>4
<1>6. \A k \in 0..least : k \in P
  BY <1>1, <1>3, <1>5, EachNumber
<1>7. \A k \in 0..least : L[k] = M[k]
  BY <1>6 DEF P
<1>8. L[least] = M[least]
  BY <1>1, <1>7
<1>9. ~ (h < g)
  <2>1. ASSUME h < g PROVE FALSE
    <3>1. least = h /\ h \in 0..(g - 1)
      BY <1>1, <2>1 DEF least
    <3>2. Width(L[h]) = 1 /\ Width(M[h]) > 1
      BY <1>12, <3>1
    <3> QED  BY <1>8, <3>1, <3>2
  <2> QED  BY <2>1
<1>10. ~ (g < h)
  <2>1. ASSUME g < h PROVE FALSE
    <3>1. least = g /\ g \in 0..(h - 1)
      BY <1>1, <2>1 DEF least
    <3>2. Width(M[g]) = 1 /\ Width(L[g]) > 1
      BY <1>12, <3>1
    <3> QED  BY <1>8, <3>1, <3>2
  <2> QED  BY <2>1
<1>11. h = g /\ least = h
  BY <1>1, <1>9, <1>10 DEF least
<1> QED  BY <1>7, <1>11

LEMMA TreeOfTower ==
  ASSUME NEW L, NEW h, Tower(L, h)
  PROVE  BuildMerkleTree(L[0]) = Built(L, h)
<1>1. h \in Nat /\ Row(L[0], Width(L[0])) /\ Width(L[0]) >= 1
  BY DEF Tower
<1>2. PICK M, g : Tower(M, g) /\ M[0] = L[0] /\ BuildMerkleTree(L[0]) = Built(M, g)
  BY <1>1, TreeHasTower
<1>3. h = g /\ \A k \in 0..h : L[k] = M[k]
  BY <1>2, TowersEqual
<1>4. \A k \in 1..(h + 1) : L[k - 1] = M[k - 1]
  BY <1>1, <1>3
<1>5. Built(L, h) = Built(M, h)
  BY <1>4 DEF Built
<1> QED  BY <1>2, <1>3, <1>5

LEMMA TowerIs ==
  ASSUME NEW L, NEW h, Tower(L, h)
  PROVE  /\ h \in Nat
         /\ \A k \in 0..h : Width(L[k]) \in Nat /\ Width(L[k]) >= 1 /\ Row(L[k], Width(L[k]))
         /\ \A k \in 1..h : L[k] = Above(L[k - 1]) /\ Width(L[k]) = Half(Width(L[k - 1]))
         /\ Width(L[h]) = 1 /\ \A k \in 0..(h - 1) : Width(L[k]) > 1
<1>1. /\ h \in Nat
      /\ \A k \in 0..h : Row(L[k], Width(L[k])) /\ Width(L[k]) >= 1
      /\ \A k \in 1..h : L[k] = Above(L[k - 1])
      /\ Width(L[h]) = 1 /\ \A k \in 0..(h - 1) : Width(L[k]) > 1
  BY DEF Tower
<1>2. \A k \in 0..h : Width(L[k]) \in Nat
  BY <1>1 DEF Row
<1>3. ASSUME NEW k \in 1..h PROVE Width(L[k]) = Half(Width(L[k - 1]))
  <2>1. k - 1 \in 0..h
    BY <1>1
  <2>2. PICK s : s = L[k - 1]
    OBVIOUS
  <2>3. Row(s, Width(s)) /\ Width(s) >= 1 /\ L[k] = Above(s)
    BY <1>1, <2>1, <2>2
  <2>4. Width(Above(s)) = Half(Width(s))
    BY <2>3, AboveIsShorter
  <2> QED  BY <2>2, <2>3, <2>4
<1> QED  BY <1>1, <1>2, <1>3

LEMMA BuiltIs ==
  ASSUME NEW L, NEW h \in Nat
  PROVE  /\ Len(Built(L, h)) = h + 1 /\ DOMAIN Built(L, h) = 1..(h + 1)
         /\ \A k \in 1..h : Built(L, h)[k] = Padded(L[k - 1])
         /\ Built(L, h)[h + 1] = L[h]
<1>1. PICK t : t = Built(L, h)
  OBVIOUS
<1>2. t = [k \in 1..(h + 1) |-> IF k <= h THEN Padded(L[k - 1]) ELSE L[k - 1]]
  BY <1>1 DEF Built
<1>3. Row(t, h + 1) /\ (\A k \in 1..h : t[k] = Padded(L[k - 1])) /\ t[h + 1] = L[h]
  BY <1>2 DEF Row
<1>4. Len(t) = h + 1 /\ DOMAIN t = 1..(h + 1)
  BY <1>3, RowIs
<1> QED  BY <1>1, <1>3, <1>4

-----------------------------------------------------------------------------
(* The update in place.                                                    *)

LEMMA PaddingComesOff ==
  ASSUME NEW s, NEW n, Row(s, n), n >= 1
  PROVE  (IF n % 2 = 1 /\ Len(Padded(s)) > n THEN Front(Padded(s)) ELSE Padded(s)) = s
<1>1. n \in Nat /\ Len(s) = n /\ s \in Seq({s[i] : i \in 1..n})
  BY RowIs
<1>2. CASE n % 2 = 1
  <2>1. PICK p : p = Padded(s)
    OBVIOUS
  <2>2. Row(p, n + 1) /\ \A i \in 1..n : p[i] = s[i]
    BY <1>1, <1>2, <2>1, HalfIs, PaddedIs
  <2>3. Len(p) = n + 1
    BY <2>2, RowIs
  <2>4. PICK f : f = Front(p)
    OBVIOUS
  <2>5. Row(f, n) /\ \A i \in 1..n : f[i] = p[i]
    BY <1>1, <2>2, <2>4, RowFront
  <2>6. \A i \in 1..n : f[i] = s[i]
    BY <2>2, <2>5
  <2>7. f = s
    BY <2>5, <2>6, RowsEqual
  <2> QED  BY <1>1, <1>2, <2>1, <2>3, <2>4, <2>7
<1>3. CASE n % 2 # 1
  BY <1>1, <1>3 DEF Padded
<1> QED  BY <1>2, <1>3

LEMMA UnpaddedIs ==
  ASSUME NEW L, NEW h, Tower(L, h)
  PROVE  \A k \in 1..(h + 1) : Unpadded(Built(L, h), Width(L[0]))[k] = L[k - 1]
<1>1. h \in Nat
  BY TowerIs
<1>2. PICK t, n, c : t = Built(L, h) /\ n = Width(L[0]) /\ c = Counts(n, h + 1)
  OBVIOUS
<1>3. /\ Len(t) = h + 1 /\ DOMAIN t = 1..(h + 1) /\ t[h + 1] = L[h]
      /\ \A k \in 1..h : t[k] = Padded(L[k - 1])
  BY <1>1, <1>2, BuiltIs
<1>4. c[1] = n /\ \A k \in 2..(h + 1) : c[k] = Half(c[k - 1])
  <2>1. h + 1 \in Nat /\ h + 1 >= 1
    BY <1>1
  <2> QED  BY <1>2, <2>1, CountsAre
<1> DEFINE P == {k \in 0..h : c[k + 1] = Width(L[k])}
<1>5. 0 \in P
  BY <1>1, <1>2, <1>4
<1>6. ASSUME NEW k \in 0..h, k < h, k \in P PROVE k + 1 \in P
  <2>1. k + 2 \in 2..(h + 1) /\ (k + 2) - 1 = k + 1 /\ k + 1 \in 1..h /\ (k + 1) - 1 = k
        /\ k + 1 \in 0..h /\ (k + 1) + 1 = k + 2
    BY <1>1, <1>6
  <2>2. c[k + 2] = Half(c[k + 1])
    BY <1>4, <2>1
  <2>3. Width(L[k + 1]) = Half(Width(L[k]))
    BY <2>1, TowerIs
  <2>4. c[k + 1] = Width(L[k])
    BY <1>6
  <2> QED  BY <2>1, <2>2, <2>3, <2>4
<1> HIDE DEF P
<1>7. \A k \in 0..h : k < h /\ k \in P => k + 1 \in P
  BY <1>6
<1>8. \A k \in 0..h : k \in P
  BY <1>1, <1>5, <1>7, EachNumber
<1>9. \A k \in 0..h : c[k + 1] = Width(L[k])
  BY <1>8 DEF P
<1>10. PICK u : u = Unpadded(t, n)
  OBVIOUS
<1>11. u = [k \in 1..(h + 1) |->
              IF c[k] % 2 = 1 /\ Len(t[k]) > c[k] THEN Front(t[k]) ELSE t[k]]
  BY <1>2, <1>3, <1>10 DEF Unpadded
<1>12. ASSUME NEW k \in 1..h PROVE u[k] = L[k - 1]
  <2>1. k - 1 \in 0..h /\ k \in 1..(h + 1) /\ (k - 1) + 1 = k
    BY <1>1
  <2>2. PICK s : s = L[k - 1]
    OBVIOUS
  <2>3. Row(s, Width(s)) /\ Width(s) >= 1 /\ c[k] = Width(s) /\ t[k] = Padded(s)
    BY <1>3, <1>9, <2>1, <2>2, TowerIs
  <2>4. u[k] = IF Width(s) % 2 = 1 /\ Len(Padded(s)) > Width(s) THEN Front(Padded(s)) ELSE Padded(s)
    BY <1>11, <2>1, <2>3
  <2>5. u[k] = s
    BY <2>3, <2>4, PaddingComesOff
  <2> QED  BY <2>2, <2>5
<1>13. u[h + 1] = L[h]
  <2>1. h + 1 \in 1..(h + 1) /\ h \in 0..h
    BY <1>1
  <2>2. c[h + 1] = 1 /\ t[h + 1] = L[h]
    BY <1>3, <1>9, <2>1, TowerIs
  <2>3. Len(t[h + 1]) = 1
    BY <2>2, TowerIs DEF Width
  <2>4. ~ (Len(t[h + 1]) > c[h + 1])
    BY <2>2, <2>3
  <2> QED  BY <1>11, <2>1, <2>2, <2>4
<1>14. \A k \in 1..(h + 1) : u[k] = L[k - 1]
  BY <1>1, <1>12, <1>13
<1> QED  BY <1>2, <1>10, <1>14

\* What an append does to a level: its last node is another, or there is one more.
Extends(u, n, v, m) == m \in {n, n + 1} /\ \A j \in 1..(m - 1) : v[j] = u[j]

LEMMA RenewedIs ==
  ASSUME NEW u, NEW n, Row(u, n), n >= 1, NEW v, NEW m, Row(v, m), Extends(u, n, v, m)
  PROVE  Renewed(Above(u), Padded(v)) = Above(v) /\ Extends(Above(u), Half(n), Above(v), Half(m))
<1>0. n \in Nat /\ m \in Nat
  BY DEF Row
<1>1. n \in Nat /\ m \in Nat /\ m >= 1 /\ m \in {n, n + 1} /\ \A j \in 1..(m - 1) : v[j] = u[j]
  BY <1>0 DEF Extends
<1>2. PICK a, b : a = Half(n) /\ b = Half(m)
  OBVIOUS
<1>3. /\ a \in Nat /\ a >= 1 /\ b \in Nat /\ b >= 1 /\ n \in {2 * a, 2 * a - 1} /\ m \in {2 * b, 2 * b - 1}
  BY <1>1, <1>2, HalfIs, PaddedIs
<1>4. b \in {a, a + 1}
  BY <1>1, <1>3
<1>5. PICK p, q, x, y : p = Padded(u) /\ q = Padded(v) /\ x = Above(u) /\ y = Above(v)
  OBVIOUS
<1>6. /\ Row(x, a) /\ \A k \in 1..a : x[k] = Parent(p[2 * k - 1], p[2 * k])
      /\ Row(y, b) /\ \A k \in 1..b : y[k] = Parent(q[2 * k - 1], q[2 * k])
  BY <1>1, <1>2, <1>5, AboveIs
<1>7. (\A i \in 1..n : p[i] = u[i]) /\ (\A i \in 1..m : q[i] = v[i]) /\ Row(q, 2 * b)
  BY <1>1, <1>2, <1>5, PaddedIs
<1>8. \A k \in 1..(b - 1) : y[k] = x[k]
  <2>1. ASSUME NEW k \in 1..(b - 1) PROVE y[k] = x[k]
    <3>1. k \in 1..a /\ k \in 1..b /\ 2 * k - 1 \in 1..(m - 1) /\ 2 * k \in 1..(m - 1)
          /\ 2 * k - 1 \in 1..n /\ 2 * k \in 1..n /\ 2 * k - 1 \in 1..m /\ 2 * k \in 1..m
      BY <1>1, <1>3, <1>4
    <3>2. q[2 * k - 1] = p[2 * k - 1] /\ q[2 * k] = p[2 * k]
      BY <1>1, <1>7, <3>1
    <3> QED  BY <1>6, <3>1, <3>2
  <2> QED  BY <2>1
<1>9. Extends(x, a, y, b)
  BY <1>4, <1>8 DEF Extends
<1>10. PICK z : z = LastParent(q)
  OBVIOUS
<1>11. Len(q) = 2 * b
  BY <1>7, RowIs
<1>12. z = y[b]
  <2>1. z = Parent(q[2 * b - 1], q[2 * b])
    BY <1>10, <1>11 DEF LastParent, Last
  <2> QED  BY <1>3, <1>6, <2>1
<1>13. (2 * b) \div 2 = b
  BY <1>3
<1>14. Len(x) = a /\ x \in Seq({x[i] : i \in 1..a})
  BY <1>6, RowIs
<1>15. Renewed(x, q) = IF b <= a THEN ReplaceAt(x, b, z) ELSE Append(x, z)
  BY <1>10, <1>11, <1>13, <1>14 DEF Renewed
<1>16. CASE b = a
  <2>1. PICK r : r = ReplaceAt(x, b, z)
    OBVIOUS
  <2>2. b \in 1..a
    BY <1>3, <1>16
  <2>3. Row(r, a) /\ r[b] = z /\ \A j \in 1..a : j # b => r[j] = x[j]
    BY <1>6, <2>1, <2>2, RowReplace
  <2>4. \A j \in 1..b : r[j] = y[j]
    <3>1. ASSUME NEW j \in 1..b PROVE r[j] = y[j]
      <4>1. CASE j = b
        BY <1>12, <2>3, <4>1
      <4>2. CASE j # b
        <5>1. j \in 1..a /\ j \in 1..(b - 1)
          BY <1>3, <1>16, <4>2
        <5> QED  BY <1>8, <2>3, <4>2, <5>1
      <4> QED  BY <4>1, <4>2
    <3> QED  BY <3>1
  <2>5. r = y
    BY <1>6, <1>16, <2>3, <2>4, RowsEqual
  <2>6. Renewed(x, q) = r
    BY <1>3, <1>15, <1>16, <2>1
  <2> QED  BY <1>2, <1>5, <1>9, <2>5, <2>6
<1>17. CASE b = a + 1
  <2>1. PICK r : r = Append(x, z)
    OBVIOUS
  <2>2. Row(r, a + 1) /\ r[a + 1] = z /\ \A j \in 1..a : r[j] = x[j]
    BY <1>3, <1>6, <1>14, <2>1, RowAppend
  <2>3. \A j \in 1..b : r[j] = y[j]
    <3>1. ASSUME NEW j \in 1..b PROVE r[j] = y[j]
      <4>1. CASE j = b
        BY <1>12, <1>17, <2>2, <4>1
      <4>2. CASE j # b
        <5>1. j \in 1..a /\ j \in 1..(b - 1)
          BY <1>3, <1>17, <4>2
        <5> QED  BY <1>8, <2>2, <5>1
      <4> QED  BY <4>1, <4>2
    <3> QED  BY <3>1
  <2>4. r = y
    BY <1>6, <1>17, <2>2, <2>3, RowsEqual
  <2>5. Renewed(x, q) = r
    BY <1>3, <1>15, <1>17, <2>1
  <2> QED  BY <1>2, <1>5, <1>9, <2>4, <2>5
<1> QED  BY <1>4, <1>16, <1>17

\* The levels that an append renews are those of the tree with the leaf, as high as they go.
LEMMA RenewalsClimb ==
  ASSUME NEW L, NEW h, Tower(L, h), NEW x, NEW M,
         M[0] = Append(L[0], x), \A k \in 1..h : M[k] = Renewed(L[k], Padded(M[k - 1]))
  PROVE  /\ \A k \in 0..h : Row(M[k], Width(M[k])) /\ Extends(L[k], Width(L[k]), M[k], Width(M[k]))
         /\ \A k \in 1..h : M[k] = Above(M[k - 1])
<1>1. h \in Nat
  BY TowerIs
<1> DEFINE Grown(k) == Row(M[k], Width(M[k])) /\ Extends(L[k], Width(L[k]), M[k], Width(M[k]))
           P == {k \in 0..h : Grown(k)}
<1>2. 0 \in P
  <2>1. PICK l, n, m : l = L[0] /\ n = Width(l) /\ m = M[0]
    OBVIOUS
  <2>2. 0 \in 0..h
    BY <1>1
  <2>3. Row(l, n) /\ n \in Nat
    BY <2>1, <2>2, TowerIs
  <2>4. l \in Seq({l[i] : i \in 1..n}) /\ Len(l) = n
    BY <2>3, RowIs
  <2>5. Row(m, n + 1) /\ \A j \in 1..n : m[j] = l[j]
    BY <2>1, <2>3, <2>4, RowAppend
  <2>6. Width(m) = n + 1
    BY <2>5, RowIs DEF Width
  <2>7. (n + 1) - 1 = n
    BY <2>3
  <2>8. Extends(l, n, m, n + 1)
    BY <2>5, <2>7 DEF Extends
  <2> QED  BY <2>1, <2>2, <2>5, <2>6, <2>8
<1>3. ASSUME NEW k \in 0..h, k < h, Grown(k)
      PROVE  Grown(k + 1) /\ M[k + 1] = Above(M[k])
  <2>1. k + 1 \in 1..h /\ (k + 1) - 1 = k /\ k \in 0..h
    BY <1>1, <1>3
  <2>2. PICK u, v, n, m : u = L[k] /\ v = M[k] /\ n = Width(u) /\ m = Width(v)
    OBVIOUS
  <2>3. Row(u, n) /\ n >= 1 /\ Row(v, m) /\ Extends(u, n, v, m)
    BY <1>3, <2>1, <2>2, TowerIs
  <2>4. L[k + 1] = Above(u) /\ Width(L[k + 1]) = Half(n)
    BY <2>1, <2>2, TowerIs
  <2>5. M[k + 1] = Renewed(L[k + 1], Padded(v))
    BY <2>1, <2>2
  <2>6. M[k + 1] = Above(v) /\ Extends(L[k + 1], Half(n), M[k + 1], Half(m))
    BY <2>3, <2>4, <2>5, RenewedIs
  <2>7. m >= 1
    <3>1. n \in Nat /\ m \in Nat
      BY <2>3 DEF Row
    <3> QED  BY <2>3, <3>1 DEF Extends
  <2>8. Row(Above(v), Width(Above(v))) /\ Width(Above(v)) = Half(m)
    BY <2>2, <2>3, <2>7, AboveIsShorter DEF Width
  <2> QED  BY <2>2, <2>4, <2>6, <2>8
<1>4. \A k \in 0..h : k < h /\ k \in P => k + 1 \in P
  <2>1. \A k \in 0..h : k < h => k + 1 \in 0..h
    BY <1>1
  <2> QED  BY <1>3, <2>1
<1> HIDE DEF Grown
<1>5. \A k \in 0..h : k \in P
  <2> HIDE DEF P
  <2> QED  BY <1>1, <1>2, <1>4, EachNumber
<1>6. \A k \in 0..h : Grown(k)
  BY <1>5
<1>7. ASSUME NEW k \in 1..h PROVE M[k] = Above(M[k - 1])
  <2>1. k - 1 \in 0..h /\ k - 1 < h /\ (k - 1) + 1 = k
    BY <1>1
  <2> QED  BY <1>3, <1>6, <2>1
<1> QED  BY <1>6, <1>7 DEF Grown

LEMMA FirstTree == \A x : BuildMerkleTree(<<x>>) = << <<x>> >>
<1>1. ASSUME NEW x PROVE BuildMerkleTree(<<x>>) = << <<x>> >>
  <2>1. PICK s, N : s = <<x>> /\ N = [k \in 0..0 |-> s]
    OBVIOUS
  <2>2. Row(s, 1) /\ Width(s) = 1 /\ N[0] = s
    BY <2>1 DEF Row, Width
  <2>3. Tower(N, 0)
    BY <2>1, <2>2 DEF Tower
  <2>4. BuildMerkleTree(s) = Built(N, 0)
    BY <2>2, <2>3, TreeOfTower
  <2>5. Built(N, 0) = [k \in 1..1 |-> s]
    BY <2>2 DEF Built
  <2>6. [k \in 1..1 |-> s] = <<s>>
    OBVIOUS
  <2> QED  BY <2>1, <2>4, <2>5, <2>6
<1> QED  BY <1>1

\* The parent of a level of two nodes is the level above it.
LEMMA RootAboveTwo ==
  ASSUME NEW s, Row(s, 2)
  PROVE  Above(s) = <<LastParent(Padded(s))>> /\ Width(Above(s)) = 1 /\ Row(Above(s), 1)
<1>1. Half(2) = 1
  BY DEF Half
<1>2. PICK p, a : p = Padded(s) /\ a = Above(s)
  OBVIOUS
<1>3. Row(p, 2) /\ Row(a, 1) /\ a[1] = Parent(p[1], p[2])
  <2>1. 2 * 1 - 1 = 1 /\ 2 * 1 = 2 /\ 1 \in 1..1
    OBVIOUS
  <2>2. Row(p, 2 * 1) /\ Row(a, 1) /\ \A k \in 1..1 : a[k] = Parent(p[2 * k - 1], p[2 * k])
    BY <1>1, <1>2, PaddedIs, AboveIs
  <2> QED  BY <2>1, <2>2
<1>4. Len(p) = 2 /\ Len(a) = 1
  BY <1>3, RowIs
<1>5. PICK r : r = LastParent(p)
  OBVIOUS
<1>6. r = a[1]
  BY <1>3, <1>4, <1>5 DEF LastParent, Last
<1>7. a = [i \in 1..1 |-> a[i]]
  BY <1>3 DEF Row
<1>8. [i \in 1..1 |-> a[i]] = <<r>>
  BY <1>6
<1> QED  BY <1>2, <1>3, <1>4, <1>5, <1>7, <1>8 DEF Width

\* Renewing a tree in place gives the tree of the list with the leaf.
LEMMA WithLeafIs ==
  ASSUME NEW l, NEW n, Row(l, n), NEW x
  PROVE  WithLeaf(BuildMerkleTree(l), n, x) = BuildMerkleTree(Append(l, x))
<1>1. n \in Nat /\ Len(l) = n /\ l \in Seq({l[i] : i \in 1..n})
  BY RowIs
<1>2. CASE n = 0
  <2>1. l = <<>>
    BY <1>1, <1>2
  <2>2. BuildMerkleTree(l) = <<>> /\ Append(l, x) = <<x>>
    BY <2>1 DEF BuildMerkleTree
  <2>3. WithLeaf(<<>>, n, x) = << <<x>> >>
    BY DEF WithLeaf
  <2> QED  BY <2>2, <2>3, FirstTree
<1>3. CASE n >= 1
  <2>1. PICK L, h : Tower(L, h) /\ L[0] = l /\ BuildMerkleTree(l) = Built(L, h)
    BY <1>3, TreeHasTower
  <2>2. h \in Nat /\ Width(L[0]) = n
    BY <1>1, <2>1, TowerIs DEF Width
  <2>3. PICK t : t = Built(L, h)
    OBVIOUS
  <2>4. Len(t) = h + 1 /\ DOMAIN t = 1..(h + 1) /\ t # <<>>
    <3>1. Len(t) = h + 1 /\ DOMAIN t = 1..(h + 1)
      BY <2>2, <2>3, BuiltIs
    <3>2. t # <<>>
      BY <2>2, <3>1
    <3> QED  BY <3>1, <3>2
  <2>5. \A k \in 1..(h + 1) : Unpadded(t, n)[k] = L[k - 1]
    BY <2>1, <2>2, <2>3, UnpaddedIs
  <2>6. PICK R : R = Renewals(t, n, x)
    OBVIOUS
  <2>7. /\ R[1] = Append(Unpadded(t, n)[1], x)
        /\ \A k \in 2..(h + 1) : R[k] = Renewed(Unpadded(t, n)[k], Padded(R[k - 1]))
    <3>1. h + 1 \in Nat /\ h + 1 >= 1
      BY <2>2
    <3> QED  BY <2>4, <2>6, <3>1, RenewalsAre
  <2>8. PICK M : M = [k \in 0..h |-> R[k + 1]]
    OBVIOUS
  <2>9. M[0] = Append(L[0], x)
    <3>1. 0 \in 0..h /\ 0 + 1 = 1 /\ 1 \in 1..(h + 1) /\ 1 - 1 = 0
      BY <2>2
    <3> QED  BY <2>5, <2>7, <2>8, <3>1
  <2>10. ASSUME NEW k \in 1..h PROVE M[k] = Renewed(L[k], Padded(M[k - 1]))
    <3>1. k \in 0..h /\ k - 1 \in 0..h /\ k + 1 \in 2..(h + 1) /\ k + 1 \in 1..(h + 1)
          /\ (k + 1) - 1 = k /\ (k - 1) + 1 = k
      BY <2>2
    <3>2. R[k + 1] = Renewed(L[k], Padded(R[k]))
      BY <2>5, <2>7, <3>1
    <3>3. M[k] = R[k + 1] /\ M[k - 1] = R[k]
      BY <2>8, <3>1
    <3> QED  BY <3>2, <3>3
  <2>11. /\ \A k \in 0..h : Row(M[k], Width(M[k])) /\ Extends(L[k], Width(L[k]), M[k], Width(M[k]))
         /\ \A k \in 1..h : M[k] = Above(M[k - 1])
    BY <2>1, <2>9, <2>10, RenewalsClimb, SMTT(30)
  <2>12. \A k \in 0..h : /\ Width(M[k]) \in Nat /\ Width(M[k]) >= 1
                         /\ k < h => Width(M[k]) > 1
                         /\ k = h => Width(M[k]) \in {1, 2}
    <3>1. ASSUME NEW k \in 0..h
          PROVE  /\ Width(M[k]) \in Nat /\ Width(M[k]) >= 1
                 /\ k < h => Width(M[k]) > 1
                 /\ k = h => Width(M[k]) \in {1, 2}
      <4>1. Width(L[k]) \in Nat /\ Width(L[k]) >= 1 /\ (k = h => Width(L[k]) = 1)
        BY <2>1, TowerIs
      <4>2. k < h => Width(L[k]) > 1
        <5>1. k < h => k \in 0..(h - 1)
          BY <2>2
        <5> QED  BY <2>1, <5>1, TowerIs
      <4>3. Width(M[k]) \in {Width(L[k]), Width(L[k]) + 1}
        BY <2>11 DEF Extends
      <4> QED  BY <4>1, <4>2, <4>3
    <3> QED  BY <3>1
  <2>13. PICK w : w = WithLeaf(t, n, x)
    OBVIOUS
  <2>14. w = [k \in 1..(IF Width(M[h]) = 1 THEN h + 1 ELSE (h + 1) + 1) |->
                IF k > h + 1 THEN <<LastParent(Padded(M[h]))>>
                ELSE IF k = h + 1 /\ Width(M[h]) = 1 THEN M[h] ELSE Padded(M[k - 1])]
    <3>1. R[h + 1] = M[h]
      BY <2>2, <2>8
    <3>2. \A k \in 1..((h + 1) + 1) : ~ (k > h + 1) => R[k] = M[k - 1]
      BY <2>2, <2>8
    <3>3. w = [k \in 1..(IF Len(R[h + 1]) = 1 THEN h + 1 ELSE (h + 1) + 1) |->
                IF k > h + 1 THEN <<LastParent(Padded(R[h + 1]))>>
                ELSE IF k = h + 1 /\ Len(R[h + 1]) = 1 THEN R[h + 1] ELSE Padded(R[k])]
      BY <2>4, <2>6, <2>13 DEF WithLeaf
    <3> QED  BY <2>2, <3>1, <3>2, <3>3 DEF Width
  <2>15. CASE Width(M[h]) = 1
    <3>1. \A k \in 0..(h - 1) : k \in 0..h /\ k < h
      BY <2>2
    <3>2. Tower(M, h)
      BY <2>2, <2>11, <2>12, <2>15, <3>1 DEF Tower
    <3>3. BuildMerkleTree(M[0]) = Built(M, h)
      BY <3>2, TreeOfTower
    <3>4. w = [k \in 1..(h + 1) |-> IF k = h + 1 THEN M[h] ELSE Padded(M[k - 1])]
      BY <2>2, <2>14, <2>15
    <3>5. \A k \in 1..(h + 1) : (k = h + 1 <=> ~ (k <= h)) /\ (k = h + 1 => k - 1 = h)
      BY <2>2
    <3>6. w = Built(M, h)
      BY <3>4, <3>5 DEF Built
    <3> QED  BY <2>1, <2>3, <2>9, <2>13, <3>3, <3>6
  <2>16. CASE Width(M[h]) = 2
    <3>1. PICK N : N = [k \in 0..(h + 1) |-> IF k <= h THEN M[k] ELSE Above(M[h])]
      OBVIOUS
    <3>2. (\A k \in 0..h : N[k] = M[k]) /\ N[h + 1] = Above(M[h])
      BY <2>2, <3>1
    <3>3. Above(M[h]) = <<LastParent(Padded(M[h]))>> /\ Width(Above(M[h])) = 1 /\ Row(Above(M[h]), 1)
      <4>1. h \in 0..h
        BY <2>2
      <4>2. Row(M[h], 2)
        BY <2>11, <2>16, <4>1
      <4> QED  BY <4>2, RootAboveTwo
    <3>4. Tower(N, h + 1)
      <4>1. \A k \in 0..(h + 1) : k \in 0..h \/ k = h + 1
        BY <2>2
      <4>2. \A k \in 0..(h + 1) : Row(N[k], Width(N[k])) /\ Width(N[k]) >= 1
        BY <2>11, <2>12, <3>2, <3>3, <4>1
      <4>3. ASSUME NEW k \in 1..(h + 1) PROVE N[k] = Above(N[k - 1])
        <5>1. k - 1 \in 0..h /\ (k \in 1..h \/ k = h + 1) /\ (k \in 1..h => k \in 0..h)
          BY <2>2
        <5>2. CASE k \in 1..h
          BY <2>11, <3>2, <5>1, <5>2
        <5>3. CASE k = h + 1
          <6>1. k - 1 = h
            BY <2>2, <5>3
          <6> QED  BY <3>2, <5>1, <5>3, <6>1
        <5> QED  BY <5>1, <5>2, <5>3
      <4>4. \A k \in 0..((h + 1) - 1) : Width(N[k]) > 1
        <5>1. ASSUME NEW k \in 0..((h + 1) - 1) PROVE Width(N[k]) > 1
          <6>1. k \in 0..h /\ (k < h \/ k = h)
            BY <2>2
          <6>2. N[k] = M[k]
            BY <3>2, <6>1
          <6>3. CASE k < h
            BY <2>12, <6>1, <6>2, <6>3
          <6>4. CASE k = h
            BY <2>16, <6>2, <6>4
          <6> QED  BY <6>1, <6>3, <6>4
        <5> QED  BY <5>1
      <4>5. h + 1 \in Nat /\ Width(N[h + 1]) = 1
        BY <2>2, <3>2, <3>3
      <4> QED  BY <4>2, <4>3, <4>4, <4>5 DEF Tower
    <3>5. BuildMerkleTree(N[0]) = Built(N, h + 1)
      BY <3>4, TreeOfTower
    <3>6. N[0] = M[0]
      <4>1. 0 \in 0..h
        BY <2>2
      <4> QED  BY <3>2, <4>1
    <3>7. w = [k \in 1..((h + 1) + 1) |->
                IF k > h + 1 THEN <<LastParent(Padded(M[h]))>> ELSE Padded(M[k - 1])]
      BY <2>14, <2>16
    <3>8. \A k \in 1..((h + 1) + 1) :
            (IF k > h + 1 THEN <<LastParent(Padded(M[h]))>> ELSE Padded(M[k - 1]))
              = (IF k <= h + 1 THEN Padded(N[k - 1]) ELSE N[k - 1])
      <4>1. ASSUME NEW k \in 1..((h + 1) + 1), k > h + 1
            PROVE  ~ (k <= h + 1) /\ N[k - 1] = <<LastParent(Padded(M[h]))>>
        <5>1. k - 1 = h + 1 /\ ~ (k <= h + 1)
          BY <2>2, <4>1
        <5> QED  BY <3>2, <3>3, <5>1
      <4>2. ASSUME NEW k \in 1..((h + 1) + 1), ~ (k > h + 1)
            PROVE  k <= h + 1 /\ N[k - 1] = M[k - 1]
        <5>1. k <= h + 1 /\ k - 1 \in 0..h
          BY <2>2, <4>2
        <5> QED  BY <3>2, <5>1
      <4> QED  BY <4>1, <4>2
    <3>9. w = Built(N, h + 1)
      BY <3>7, <3>8 DEF Built
    <3> QED  BY <2>1, <2>3, <2>9, <2>13, <3>5, <3>6, <3>9
  <2>17. Width(M[h]) \in {1, 2}
    <3>1. h \in 0..h
      BY <2>2
    <3> QED  BY <2>12, <3>1
  <2> QED  BY <2>15, <2>16, <2>17
<1> QED  BY <1>1, <1>2, <1>3

-----------------------------------------------------------------------------
(* The proofs of inclusion.                                                *)

\* A node joined to its sibling gives the node above its place, and no other node does.
LEMMA JoinedIs ==
  ASSUME NEW s, NEW n, Row(s, n), n >= 1, NEW a \in 0..(n - 1), NEW x
  PROVE  Joined(x, Sibling(Padded(s), a)) = Above(s)[a \div 2 + 1] <=> x = s[a + 1]
<1>1. n \in Nat /\ Half(n) \in Nat /\ n \in {2 * Half(n), 2 * Half(n) - 1}
  <2>1. n \in Nat
    BY DEF Row
  <2> QED  BY <2>1, HalfIs, PaddedIs
<1>2. PICK q, b, g : q = Padded(s) /\ b = a \div 2 + 1 /\ g = Sibling(q, a)
  OBVIOUS
<1>3. a \in Nat /\ b \in 1..Half(n) /\ a + 1 \in 1..n
      /\ (a % 2 = 0 => a + 2 = 2 * b /\ a + 1 = 2 * b - 1)
      /\ (a % 2 # 0 => a + 1 = 2 * b /\ a = 2 * b - 1)
  BY <1>1, <1>2
<1>4. Row(q, 2 * Half(n)) /\ \A i \in 1..n : q[i] = s[i]
  BY <1>1, <1>2, PaddedIs
<1>5. Padded(q) = q
  <2>1. Len(q) = 2 * Half(n)
    BY <1>4, RowIs
  <2>2. (2 * Half(n)) % 2 # 1
    BY <1>1
  <2> QED  BY <2>1, <2>2 DEF Padded
<1>6. Above(s)[b] = Parent(q[2 * b - 1], q[2 * b])
  BY <1>1, <1>2, <1>3, AboveIs
<1>7. q[a + 1] = s[a + 1]
  BY <1>3, <1>4
<1>8. CASE a % 2 = 0
  <2>1. g = [side |-> "R", hash |-> q[a + 2]]
    BY <1>2, <1>5, <1>8 DEF Sibling
  <2>2. Joined(x, g) = Parent(x, q[2 * b])
    BY <1>3, <1>8, <2>1 DEF Joined
  <2>3. q[2 * b - 1] = s[a + 1]
    BY <1>3, <1>7, <1>8
  <2>4. Joined(x, g) = Above(s)[b] <=> x = q[2 * b - 1]
    BY <1>6, <2>2, ParentsTell
  <2> QED  BY <1>2, <2>3, <2>4
<1>9. CASE a % 2 # 0
  <2>1. g = [side |-> "L", hash |-> q[a]]
    BY <1>2, <1>5, <1>9 DEF Sibling
  <2>2. g.side # "R" /\ g.hash = q[2 * b - 1]
    BY <1>3, <1>9, <2>1
  <2>3. Joined(x, g) = Parent(q[2 * b - 1], x)
    BY <2>2 DEF Joined
  <2>4. q[2 * b] = s[a + 1]
    BY <1>3, <1>7, <1>9
  <2>5. Joined(x, g) = Above(s)[b] <=> x = q[2 * b]
    BY <1>6, <2>3, ParentsTell
  <2> QED  BY <1>2, <2>4, <2>5
<1> QED  BY <1>8, <1>9

\* The proof of a place leads to the root from the leaf that is there, and from no other.
LEMMA ProofLeads ==
  ASSUME NEW L, NEW h, Tower(L, h), NEW i \in 0..(Width(L[0]) - 1), NEW leaf
  PROVE  VerifyMerkleProof(leaf, MerkleProof(Built(L, h), i), L[h][1]) <=> leaf = L[0][i + 1]
<1>1. h \in Nat /\ 0 \in 0..h /\ Width(L[0]) \in Nat /\ i \in Nat
  BY TowerIs
<1>2. PICK t, p, proof, c : /\ t = Built(L, h) /\ p = Halvings(i, h + 1)
                            /\ proof = MerkleProof(t, i) /\ c = Climb(leaf, proof)
  OBVIOUS
<1>3. Len(t) = h + 1 /\ \A k \in 1..h : t[k] = Padded(L[k - 1])
  BY <1>1, <1>2, BuiltIs
<1>4. p[1] = i /\ \A k \in 2..(h + 1) : p[k] = p[k - 1] \div 2
  <2>1. h + 1 \in Nat /\ h + 1 >= 1
    BY <1>1
  <2> QED  BY <1>2, <2>1, HalvingsAre
<1>5. proof = [k \in 1..h |-> Sibling(t[k], p[k])]
  <2>1. (h + 1) - 1 = h /\ (h = 0 \/ h >= 1)
    BY <1>1
  <2>2. CASE h = 0
    <3>1. (IF i < Len(t[1]) THEN Len(t) - 1 ELSE 0) = h
      BY <1>3, <2>1, <2>2
    <3> QED  BY <1>2, <1>3, <3>1 DEF MerkleProof
  <2>3. CASE h >= 1
    <3>1. PICK l : l = L[0]
      OBVIOUS
    <3>2. Row(l, Width(l)) /\ Width(l) \in Nat /\ Width(l) >= 1 /\ i \in 0..(Width(l) - 1)
      BY <1>1, <3>1, TowerIs
    <3>3. Row(Padded(l), 2 * Half(Width(l))) /\ Width(l) \in {2 * Half(Width(l)), 2 * Half(Width(l)) - 1}
      BY <3>2, PaddedIs
    <3>4. Len(Padded(l)) = 2 * Half(Width(l)) /\ Half(Width(l)) \in Nat
      BY <3>2, <3>3, RowIs, HalfIs
    <3>5. i < Len(Padded(l))
      BY <3>2, <3>3, <3>4
    <3>6. t[1] = Padded(l)
      BY <1>1, <1>3, <2>3, <3>1
    <3>7. (IF i < Len(t[1]) THEN Len(t) - 1 ELSE 0) = h
      BY <1>3, <2>1, <3>5, <3>6
    <3> QED  BY <1>2, <1>3, <3>7 DEF MerkleProof
  <2> QED  BY <2>1, <2>2, <2>3
<1>6. Len(proof) = h
  <2>1. Row(proof, h)
    BY <1>1, <1>5 DEF Row
  <2> QED  BY <2>1, RowIs
<1>7. c[0] = leaf /\ \A k \in 1..h : c[k] = Joined(c[k - 1], proof[k])
  <2>1. /\ Climb(leaf, proof)[0] = leaf
        /\ \A k \in 1..h : Climb(leaf, proof)[k] = Joined(Climb(leaf, proof)[k - 1], proof[k])
    BY <1>1, <1>6, ClimbIs
  <2> QED  BY <1>2, <2>1
<1> DEFINE P == {k \in 0..h : p[k + 1] \in 0..(Width(L[k]) - 1)}
<1>8. 0 \in P
  BY <1>1, <1>4
<1>9. ASSUME NEW k \in 0..h, k < h, k \in P PROVE k + 1 \in P
  <2>1. k + 1 \in 1..h /\ (k + 1) - 1 = k /\ k + 1 \in 0..h /\ k + 2 \in 2..(h + 1)
        /\ (k + 2) - 1 = k + 1 /\ (k + 1) + 1 = k + 2
    BY <1>1, <1>9
  <2>2. PICK a, w : a = p[k + 1] /\ w = Width(L[k])
    OBVIOUS
  <2>3. w \in Nat /\ a \in 0..(w - 1)
    BY <1>9, <2>1, <2>2, TowerIs
  <2>4. p[k + 2] = a \div 2 /\ Width(L[k + 1]) = Half(w)
    BY <1>4, <2>1, <2>2, TowerIs
  <2>5. a \div 2 \in 0..(Half(w) - 1)
    BY <2>3 DEF Half
  <2> QED  BY <2>1, <2>4, <2>5
<1>10. \A k \in 0..h : p[k + 1] \in 0..(Width(L[k]) - 1)
  <2>1. \A k \in 0..h : k < h /\ k \in P => k + 1 \in P
    BY <1>9
  <2>2. \A k \in 0..h : k \in P
    <3> HIDE DEF P
    <3> QED  BY <1>1, <1>8, <2>1, EachNumber
  <2> QED  BY <2>2
<1> DEFINE Q == {k \in 0..h : c[k] = L[k][p[k + 1] + 1] <=> leaf = L[0][i + 1]}
<1>11. 0 \in Q
  BY <1>1, <1>4, <1>7
<1>12. ASSUME NEW k \in 0..h, k < h, k \in Q PROVE k + 1 \in Q
  <2>1. k + 1 \in 1..h /\ (k + 1) - 1 = k /\ k + 1 \in 0..h /\ k + 2 \in 2..(h + 1)
        /\ (k + 2) - 1 = k + 1 /\ (k + 1) + 1 = k + 2
    BY <1>1, <1>12
  <2>2. PICK a, s, x : a = p[k + 1] /\ s = L[k] /\ x = c[k]
    OBVIOUS
  <2>3. Row(s, Width(s)) /\ Width(s) >= 1 /\ a \in 0..(Width(s) - 1)
    BY <1>10, <2>1, <2>2, TowerIs
  <2>4. L[k + 1] = Above(s) /\ p[k + 2] = a \div 2
    BY <1>4, <2>1, <2>2, TowerIs
  <2>5. c[k + 1] = Joined(x, Sibling(Padded(s), a))
    <3>1. proof[k + 1] = Sibling(Padded(s), a)
      BY <1>3, <1>5, <2>1, <2>2
    <3>2. c[k + 1] = Joined(c[k], proof[k + 1])
      BY <1>7, <2>1
    <3> QED  BY <2>2, <3>1, <3>2
  <2>6. c[k + 1] = L[k + 1][p[k + 2] + 1] <=> x = s[a + 1]
    BY <2>3, <2>4, <2>5, JoinedIs
  <2>7. x = s[a + 1] <=> leaf = L[0][i + 1]
    BY <1>12, <2>2
  <2> QED  BY <2>1, <2>6, <2>7
<1>13. \A k \in 0..h : c[k] = L[k][p[k + 1] + 1] <=> leaf = L[0][i + 1]
  <2>1. \A k \in 0..h : k < h /\ k \in Q => k + 1 \in Q
    BY <1>12
  <2>2. \A k \in 0..h : k \in Q
    <3> HIDE DEF Q
    <3> QED  BY <1>1, <1>11, <2>1, EachNumber
  <2> QED  BY <2>2
<1>14. p[h + 1] = 0
  <2>1. h \in 0..h /\ Width(L[h]) = 1
    BY <1>1, TowerIs
  <2>2. p[h + 1] \in 0..(1 - 1)
    BY <1>10, <2>1
  <2> QED  BY <2>2
<1>15. c[h] = L[h][1] <=> leaf = L[0][i + 1]
  BY <1>1, <1>13, <1>14
<1> QED  BY <1>2, <1>6, <1>15 DEF VerifyMerkleProof

-----------------------------------------------------------------------------
(* The root tells the leaves.                                              *)

\* The first node of a level is the left child of the first node above it.
LEMMA FirstOfAbove ==
  ASSUME NEW s, NEW n, Row(s, n), n >= 1
  PROVE  \E y : Above(s)[1] = Parent(s[1], y)
<1>1. 1 \in 1..n /\ 1 \in 1..Half(n) /\ 2 * 1 - 1 = 1
  <2>1. n \in Nat
    BY DEF Row
  <2> QED  BY <2>1, HalfIs
<1>2. Above(s)[1] = Parent(Padded(s)[1], Padded(s)[2 * 1])
  BY <1>1, AboveIs
<1>3. Padded(s)[1] = s[1]
  BY <1>1, PaddedIs
<1> QED  BY <1>2, <1>3

LeavesOf(s, n) == Distinct(s, n) /\ \A i \in 1..n : \A a, b : s[i] # Parent(a, b)

\* Down the left side of two trees with one root, the nodes are the same; a leaf on one side
\* is thus a leaf on the other.
LEMMA NotHigher ==
  ASSUME NEW L, NEW h, Tower(L, h), NEW M, NEW g, Tower(M, g), h < g,
         \A a, b : L[0][1] # Parent(a, b), L[h][1] = M[g][1]
  PROVE  FALSE
<1>1. h \in Nat /\ g \in Nat
  BY TowerIs
<1> DEFINE P == {d \in 0..h : L[h - d][1] = M[g - d][1]}
<1>2. 0 \in P
  <2>1. h - 0 = h /\ g - 0 = g /\ 0 \in 0..h
    BY <1>1
  <2> QED  BY <2>1
<1>3. ASSUME NEW d \in 0..h, d < h, d \in P PROVE d + 1 \in P
  <2>1. PICK j, k : j = h - (d + 1) /\ k = g - (d + 1)
    OBVIOUS
  <2>2. /\ j \in 0..h /\ j + 1 \in 1..h /\ (j + 1) - 1 = j /\ j + 1 = h - d
        /\ k \in 0..g /\ k + 1 \in 1..g /\ (k + 1) - 1 = k /\ k + 1 = g - d
    BY <1>1, <1>3, <2>1
  <2>3. /\ Row(L[j], Width(L[j])) /\ Width(L[j]) >= 1 /\ L[j + 1] = Above(L[j])
        /\ Row(M[k], Width(M[k])) /\ Width(M[k]) >= 1 /\ M[k + 1] = Above(M[k])
    BY <2>2, TowerIs
  <2>4. PICK x : L[j + 1][1] = Parent(L[j][1], x)
    BY <2>3, FirstOfAbove
  <2>5. PICK y : M[k + 1][1] = Parent(M[k][1], y)
    BY <2>3, FirstOfAbove
  <2>6. L[j + 1][1] = M[k + 1][1]
    BY <1>3, <2>2
  <2>7. L[j][1] = M[k][1]
    <3>1. PICK a, b : a = L[j][1] /\ b = M[k][1]
      OBVIOUS
    <3>2. Parent(a, x) = Parent(b, y)
      BY <2>4, <2>5, <2>6, <3>1
    <3>3. a = b
      BY <3>2, ParentsTell
    <3> QED  BY <3>1, <3>3
  <2>8. d + 1 \in 0..h
    BY <1>1, <1>3
  <2> QED  BY <2>1, <2>7, <2>8
<1>4. L[0][1] = M[g - h][1]
  <2>1. \A d \in 0..h : d < h /\ d \in P => d + 1 \in P
    BY <1>3
  <2>2. \A d \in 0..h : d \in P
    <3> HIDE DEF P
    <3> QED  BY <1>1, <1>2, <2>1, EachNumber
  <2>3. h \in 0..h /\ h - h = 0
    BY <1>1
  <2> QED  BY <2>2, <2>3
<1>5. PICK k : k = (g - h) - 1
  OBVIOUS
<1>6. k \in 0..g /\ k + 1 \in 1..g /\ (k + 1) - 1 = k /\ k + 1 = g - h
  BY <1>1, <1>5
<1>7. Row(M[k], Width(M[k])) /\ Width(M[k]) >= 1 /\ M[k + 1] = Above(M[k])
  BY <1>6, TowerIs
<1>8. PICK y : M[k + 1][1] = Parent(M[k][1], y)
  BY <1>7, FirstOfAbove
<1> QED  BY <1>4, <1>6, <1>8

LEMMA TowerDistinct ==
  ASSUME NEW L, NEW h, Tower(L, h), Distinct(L[0], Width(L[0]))
  PROVE  \A k \in 0..h : Distinct(L[k], Width(L[k]))
<1>1. h \in Nat
  BY TowerIs
<1> DEFINE P == {k \in 0..h : Distinct(L[k], Width(L[k]))}
<1>2. 0 \in P
  BY <1>1
<1>3. ASSUME NEW k \in 0..h, k < h, k \in P PROVE k + 1 \in P
  <2>1. k + 1 \in 1..h /\ (k + 1) - 1 = k /\ k + 1 \in 0..h
    BY <1>1, <1>3
  <2>2. PICK s : s = L[k]
    OBVIOUS
  <2>3. /\ Row(s, Width(s)) /\ Width(s) >= 1 /\ Distinct(s, Width(s))
        /\ L[k + 1] = Above(s) /\ Width(L[k + 1]) = Half(Width(s))
    BY <1>3, <2>1, <2>2, TowerIs
  <2>4. Distinct(Above(s), Half(Width(s)))
    BY <2>3, AboveDistinct
  <2> QED  BY <2>1, <2>3, <2>4
<1>4. \A k \in 0..h : k < h /\ k \in P => k + 1 \in P
  BY <1>3
<1>5. \A k \in 0..h : k \in P
  <2> HIDE DEF P
  <2> QED  BY <1>1, <1>2, <1>4, EachNumber
<1> QED  BY <1>5

\* Two trees of distinct leaves have the same root only if the leaves are the same.
LEMMA RootTells ==
  ASSUME NEW L, NEW h, Tower(L, h), LeavesOf(L[0], Width(L[0])),
         NEW M, NEW g, Tower(M, g), LeavesOf(M[0], Width(M[0])), L[h][1] = M[g][1]
  PROVE  L[0] = M[0]
<1>1. h \in Nat /\ g \in Nat /\ 0 \in 0..h /\ 0 \in 0..g
  BY TowerIs
<1>2. (\A a, b : L[0][1] # Parent(a, b)) /\ (\A a, b : M[0][1] # Parent(a, b))
  <2>1. Width(L[0]) \in Nat /\ Width(L[0]) >= 1 /\ Width(M[0]) \in Nat /\ Width(M[0]) >= 1
    BY <1>1, TowerIs
  <2>2. 1 \in 1..Width(L[0]) /\ 1 \in 1..Width(M[0])
    BY <2>1
  <2> QED  BY <2>2 DEF LeavesOf
<1>3. ~ (h < g) /\ ~ (g < h)
  BY <1>2, NotHigher
<1>4. h = g
  BY <1>1, <1>3
<1>5. /\ \A k \in 0..h : Distinct(L[k], Width(L[k]))
      /\ \A k \in 0..h : Distinct(M[k], Width(M[k]))
  BY <1>4, TowerDistinct DEF LeavesOf
<1> DEFINE P == {d \in 0..h : L[h - d] = M[h - d]}
<1>6. 0 \in P
  <2>1. h - 0 = h /\ h \in 0..h /\ 0 \in 0..h
    BY <1>1
  <2>2. PICK s, r : s = L[h] /\ r = M[h]
    OBVIOUS
  <2>3. Row(s, 1) /\ Row(r, 1) /\ s[1] = r[1]
    <3>1. Width(L[h]) = 1 /\ Width(M[h]) = 1
      BY <1>4, TowerIs
    <3>2. Row(L[h], Width(L[h])) /\ Row(M[h], Width(M[h]))
      BY <1>4, <2>1, TowerIs
    <3> QED  BY <1>4, <2>2, <3>1, <3>2
  <2>4. \A i \in 1..1 : s[i] = r[i]
    BY <2>3
  <2>5. s = r
    BY <2>3, <2>4, RowsEqual
  <2> QED  BY <2>1, <2>2, <2>5
<1>7. ASSUME NEW d \in 0..h, d < h, d \in P PROVE d + 1 \in P
  <2>1. PICK j : j = h - (d + 1)
    OBVIOUS
  <2>2. j \in 0..h /\ j + 1 \in 1..h /\ (j + 1) - 1 = j /\ j + 1 = h - d /\ d + 1 \in 0..h
    BY <1>1, <1>7, <2>1
  <2>3. PICK s, r, n, m : s = L[j] /\ r = M[j] /\ n = Width(s) /\ m = Width(r)
    OBVIOUS
  <2>4. /\ Row(s, n) /\ n >= 1 /\ Distinct(s, n)
        /\ Row(r, m) /\ m >= 1 /\ Distinct(r, m)
    BY <1>4, <1>5, <2>2, <2>3, TowerIs
  <2>5. L[j + 1] = Above(s) /\ Width(L[j + 1]) = Half(n) /\ M[j + 1] = Above(r) /\ Width(M[j + 1]) = Half(m)
    BY <1>4, <2>2, <2>3, TowerIs
  <2>6. L[j + 1] = M[j + 1]
    BY <1>7, <2>2
  <2>7. s = r
    BY <2>4, <2>5, <2>6, AboveTells
  <2> QED  BY <2>1, <2>2, <2>3, <2>7
<1>8. \A d \in 0..h : d < h /\ d \in P => d + 1 \in P
  BY <1>7
<1>9. \A d \in 0..h : d \in P
  <2> HIDE DEF P
  <2> QED  BY <1>1, <1>6, <1>8, EachNumber
<1>10. h \in 0..h /\ h - h = 0
  BY <1>1
<1> QED  BY <1>9, <1>10

-----------------------------------------------------------------------------
(* Trees of lists.                                                         *)

LEMMA TreeVerifies ==
  ASSUME NEW l, NEW n, Row(l, n), NEW i \in 0..(n - 1), NEW leaf
  PROVE  LET t == BuildMerkleTree(l)
         IN  VerifyMerkleProof(leaf, MerkleProof(t, i), Last(t)[1]) <=> leaf = l[i + 1]
<1>1. n \in Nat /\ Len(l) = n
  BY RowIs
<1>2. n >= 1
  BY <1>1
<1>3. PICK L, h : Tower(L, h) /\ L[0] = l /\ BuildMerkleTree(l) = Built(L, h)
  BY <1>2, TreeHasTower
<1>4. PICK t : t = Built(L, h)
  OBVIOUS
<1>5. Last(t) = L[h]
  <2>1. h \in Nat
    BY <1>3, TowerIs
  <2>2. Len(t) = h + 1 /\ t[h + 1] = L[h]
    BY <1>4, <2>1, BuiltIs
  <2> QED  BY <2>2 DEF Last
<1>6. Width(L[0]) = n
  BY <1>1, <1>3 DEF Width
<1>7. VerifyMerkleProof(leaf, MerkleProof(Built(L, h), i), L[h][1]) <=> leaf = L[0][i + 1]
  BY <1>3, <1>6, ProofLeads
<1> QED  BY <1>3, <1>4, <1>5, <1>7

LEMMA TreesTell ==
  ASSUME NEW l, NEW n, Row(l, n), n >= 1, LeavesOf(l, n),
         NEW r, NEW m, Row(r, m), m >= 1, LeavesOf(r, m),
         Last(BuildMerkleTree(l))[1] = Last(BuildMerkleTree(r))[1]
  PROVE  l = r
<1>1. Len(l) = n /\ Len(r) = m
  BY RowIs
<1>2. PICK L, h : Tower(L, h) /\ L[0] = l /\ BuildMerkleTree(l) = Built(L, h)
  BY TreeHasTower
<1>3. PICK M, g : Tower(M, g) /\ M[0] = r /\ BuildMerkleTree(r) = Built(M, g)
  BY TreeHasTower
<1>4. PICK t, u : t = Built(L, h) /\ u = Built(M, g)
  OBVIOUS
<1>5. Last(t) = L[h] /\ Last(u) = M[g]
  <2>1. h \in Nat /\ g \in Nat
    BY <1>2, <1>3, TowerIs
  <2>2. Len(t) = h + 1 /\ t[h + 1] = L[h] /\ Len(u) = g + 1 /\ u[g + 1] = M[g]
    BY <1>4, <2>1, BuiltIs
  <2> QED  BY <2>2 DEF Last
<1>6. L[h][1] = M[g][1]
  BY <1>2, <1>3, <1>4, <1>5
<1>7. LeavesOf(L[0], Width(L[0])) /\ LeavesOf(M[0], Width(M[0]))
  BY <1>1, <1>2, <1>3 DEF Width
<1>8. L[0] = M[0]
  BY <1>2, <1>3, <1>6, <1>7, RootTells
<1> QED  BY <1>2, <1>3, <1>8

\* A tree is a sequence of levels, and there is one exactly if there are leaves.
LEMMA TreeIsSequence ==
  ASSUME NEW l, NEW n, Row(l, n)
  PROVE  /\ DOMAIN BuildMerkleTree(l) = 1..Len(BuildMerkleTree(l))
         /\ BuildMerkleTree(l) = <<>> <=> n = 0
<1>1. n \in Nat /\ Len(l) = n /\ l \in Seq({l[i] : i \in 1..n})
  BY RowIs
<1>2. CASE n = 0
  <2>1. l = <<>>
    BY <1>1, <1>2
  <2>2. BuildMerkleTree(l) = <<>>
    BY <2>1 DEF BuildMerkleTree
  <2> QED  BY <1>2, <2>2
<1>3. CASE n >= 1
  <2>1. PICK L, h : Tower(L, h) /\ BuildMerkleTree(l) = Built(L, h)
    BY <1>3, TreeHasTower
  <2>2. PICK t : t = Built(L, h)
    OBVIOUS
  <2>3. h \in Nat /\ Len(t) = h + 1 /\ DOMAIN t = 1..(h + 1)
    BY <2>1, <2>2, TowerIs, BuiltIs
  <2>4. t # <<>>
    BY <2>3
  <2> QED  BY <1>3, <2>1, <2>2, <2>3, <2>4
<1> QED  BY <1>1, <1>2, <1>3

-----------------------------------------------------------------------------
(* What a node is made of.                                                 *)

\* A node is made of S if it is in a set of nodes that each are in S or have their children
\* in the set.
Made(x, S) == \E C : x \in C /\ \A c \in C : c \in S \/ \E a, b \in C : c = Parent(a, b)

MadeRow(s, S) == Row(s, Len(s)) /\ Len(s) >= 1 /\ \A i \in 1..Len(s) : Made(s[i], S)

NoParents(S) == \A c \in S : \A a, b : c # Parent(a, b)

LEMMA MadeIs ==
  ASSUME NEW S
  PROVE  /\ \A x \in S : Made(x, S)
         /\ \A a, b : Made(a, S) /\ Made(b, S) => Made(Parent(a, b), S)
<1>1. ASSUME NEW x \in S PROVE Made(x, S)
  <2>1. PICK C : C = {x}
    OBVIOUS
  <2>2. x \in C /\ \A c \in C : c \in S
    BY <2>1
  <2> QED  BY <2>2 DEF Made
<1>2. ASSUME NEW a, NEW b, Made(a, S), Made(b, S) PROVE Made(Parent(a, b), S)
  <2>1. PICK A : a \in A /\ \A c \in A : c \in S \/ \E d, e \in A : c = Parent(d, e)
    BY <1>2 DEF Made
  <2>2. PICK B : b \in B /\ \A c \in B : c \in S \/ \E d, e \in B : c = Parent(d, e)
    BY <1>2 DEF Made
  <2>3. PICK p, C : p = Parent(a, b) /\ C = A \cup B \cup {p}
    OBVIOUS
  <2>4. ASSUME NEW c \in C PROVE c \in S \/ \E d, e \in C : c = Parent(d, e)
    <3>1. CASE c \in A
      BY <2>1, <2>3, <3>1
    <3>2. CASE c \in B
      BY <2>2, <2>3, <3>2
    <3>3. CASE c = p
      BY <2>1, <2>2, <2>3, <3>3
    <3> QED  BY <2>3, <2>4, <3>1, <3>2, <3>3
  <2>5. p \in C
    BY <2>3
  <2>6. Made(p, S)
    BY <2>4, <2>5 DEF Made
  <2> QED  BY <2>3, <2>6
<1> QED  BY <1>1, <1>2

\* What a parent is made of, its children are made of, and a node that is no parent is there.
LEMMA MadeTells ==
  ASSUME NEW S
  PROVE  /\ NoParents(S) => \A a, b : Made(Parent(a, b), S) => Made(a, S) /\ Made(b, S)
         /\ \A x : Made(x, S) /\ (\A a, b : x # Parent(a, b)) => x \in S
         /\ \A x, T : Made(x, S) /\ S \subseteq T => Made(x, T)
<1>1. ASSUME NoParents(S), NEW a, NEW b, Made(Parent(a, b), S) PROVE Made(a, S) /\ Made(b, S)
  <2>1. PICK p : p = Parent(a, b)
    OBVIOUS
  <2>2. PICK C : p \in C /\ \A c \in C : c \in S \/ \E d, e \in C : c = Parent(d, e)
    BY <1>1, <2>1 DEF Made
  <2>3. p \notin S
    BY <1>1, <2>1 DEF NoParents
  <2>4. PICK left, right \in C : p = Parent(left, right)
    BY <2>2, <2>3
  <2>5. a \in C /\ b \in C
    <3>1. Parent(a, b) = Parent(left, right)
      BY <2>1, <2>4
    <3>2. a = left /\ b = right
      BY <3>1, ParentsTell
    <3> QED  BY <2>4, <3>2
  <2>6. \E D : a \in D /\ \A c \in D : c \in S \/ \E d, e \in D : c = Parent(d, e)
    BY <2>2, <2>5, Zenon
  <2>7. \E D : b \in D /\ \A c \in D : c \in S \/ \E d, e \in D : c = Parent(d, e)
    BY <2>2, <2>5, Zenon
  <2> QED  BY <2>6, <2>7 DEF Made
<1>2. ASSUME NEW x, Made(x, S), \A a, b : x # Parent(a, b) PROVE x \in S
  BY <1>2 DEF Made
<1>3. ASSUME NEW x, NEW T, Made(x, S), S \subseteq T PROVE Made(x, T)
  <2>1. PICK C : x \in C /\ \A c \in C : c \in S \/ \E d, e \in C : c = Parent(d, e)
    BY <1>3 DEF Made
  <2>2. \A c \in C : c \in T \/ \E d, e \in C : c = Parent(d, e)
    BY <1>3, <2>1
  <2> QED  BY <2>1, <2>2 DEF Made
<1> QED  BY <1>1, <1>2, <1>3

LEMMA PaddedMade ==
  ASSUME NEW S, NEW s, MadeRow(s, S)
  PROVE  MadeRow(Padded(s), S) /\ Len(Padded(s)) >= 2
<1>1. PICK n, p : n = Len(s) /\ p = Padded(s)
  OBVIOUS
<1>2. Row(s, n) /\ n >= 1 /\ n \in Nat /\ \A i \in 1..n : Made(s[i], S)
  BY <1>1 DEF MadeRow, Row
<1>3. /\ Row(p, 2 * Half(n)) /\ n \in {2 * Half(n), 2 * Half(n) - 1} /\ Half(n) \in Nat
      /\ \A i \in 1..n : p[i] = s[i]
      /\ 2 * Half(n) = n + 1 => p[n + 1] = s[n]
  BY <1>1, <1>2, PaddedIs, HalfIs
<1>4. Len(p) = 2 * Half(n) /\ 2 * Half(n) >= 2
  <2>1. Len(p) = 2 * Half(n)
    BY <1>3, RowIs
  <2> QED  BY <1>2, <1>3, <2>1
<1>5. ASSUME NEW i \in 1..Len(p) PROVE Made(p[i], S)
  <2>1. i \in 1..n \/ (i = n + 1 /\ 2 * Half(n) = n + 1)
    BY <1>2, <1>3, <1>4
  <2>2. n \in 1..n
    BY <1>2
  <2> QED  BY <1>2, <1>3, <2>1, <2>2
<1>6. MadeRow(p, S)
  BY <1>3, <1>4, <1>5 DEF MadeRow
<1> QED  BY <1>1, <1>4, <1>6

LEMMA AppendMade ==
  ASSUME NEW S, NEW s, MadeRow(s, S), NEW x, Made(x, S)
  PROVE  MadeRow(Append(s, x), S)
<1>1. PICK n, p : n = Len(s) /\ p = Append(s, x)
  OBVIOUS
<1>2. Row(s, n) /\ n >= 1 /\ n \in Nat /\ \A i \in 1..n : Made(s[i], S)
  BY <1>1 DEF MadeRow, Row
<1>3. Row(p, n + 1) /\ p[n + 1] = x /\ \A i \in 1..n : p[i] = s[i]
  BY <1>1, <1>2, RowAppend
<1>4. Len(p) = n + 1 /\ n + 1 >= 1
  <2>1. Len(p) = n + 1
    BY <1>3, RowIs
  <2> QED  BY <1>2, <2>1
<1>5. \A i \in 1..(n + 1) : i \in 1..n \/ i = n + 1
  BY <1>2
<1>6. \A i \in 1..(n + 1) : Made(p[i], S)
  BY <1>2, <1>3, <1>5
<1>7. MadeRow(p, S)
  BY <1>3, <1>4, <1>6 DEF MadeRow
<1> QED  BY <1>1, <1>7

LEMMA FrontMade ==
  ASSUME NEW S, NEW s, MadeRow(s, S), Len(s) >= 2
  PROVE  MadeRow(Front(s), S)
<1>1. PICK n, p : n = Len(s) - 1 /\ p = Front(s)
  OBVIOUS
<1>2. Len(s) \in Nat
  BY DEF MadeRow, Row
<1>3. n \in Nat /\ n >= 1 /\ Row(s, n + 1) /\ \A i \in 1..(n + 1) : Made(s[i], S)
  BY <1>1, <1>2 DEF MadeRow
<1>4. Row(p, n) /\ \A i \in 1..n : p[i] = s[i]
  BY <1>1, <1>3, RowFront
<1>5. Len(p) = n /\ \A i \in 1..n : i \in 1..(n + 1)
  <2>1. Len(p) = n
    BY <1>4, RowIs
  <2> QED  BY <1>3, <2>1
<1>6. \A i \in 1..n : Made(p[i], S)
  BY <1>3, <1>4, <1>5
<1>7. MadeRow(p, S)
  BY <1>3, <1>4, <1>5, <1>6 DEF MadeRow
<1> QED  BY <1>1, <1>7

LEMMA LastParentMade ==
  ASSUME NEW S, NEW s, MadeRow(s, S), Len(s) >= 2
  PROVE  Made(LastParent(s), S) /\ MadeRow(<<LastParent(s)>>, S)
<1>1. PICK n : n = Len(s)
  OBVIOUS
<1>2. n \in Nat /\ n - 1 \in 1..n /\ n \in 1..n
  BY <1>1 DEF MadeRow, Row
<1>3. Made(s[n - 1], S) /\ Made(s[n], S)
  BY <1>1, <1>2 DEF MadeRow
<1>4. Last(s) = s[n]
  BY <1>1 DEF Last
<1>5. PICK a, b, x : a = s[n - 1] /\ b = s[n] /\ x = LastParent(s)
  OBVIOUS
<1>6. Made(x, S)
  <2>1. x = Parent(a, b)
    BY <1>1, <1>4, <1>5 DEF LastParent
  <2> QED  BY <1>3, <1>5, <2>1, MadeIs
<1>7. Row(<<x>>, 1) /\ Len(<<x>>) = 1 /\ <<x>>[1] = x
  BY DEF Row
<1>8. MadeRow(<<x>>, S)
  BY <1>6, <1>7 DEF MadeRow
<1> QED  BY <1>5, <1>6, <1>8

LEMMA RenewedMade ==
  ASSUME NEW S, NEW s, MadeRow(s, S), NEW below, MadeRow(below, S), Len(below) >= 2
  PROVE  MadeRow(Renewed(s, below), S)
<1>1. PICK n, m, x, r, k : /\ n = Len(s) /\ m = Len(below) /\ x = LastParent(below)
                           /\ r = Renewed(s, below) /\ k = m \div 2
  OBVIOUS
<1>2. Made(x, S)
  BY <1>1, LastParentMade
<1>3. Row(s, n) /\ n >= 1 /\ n \in Nat /\ m \in Nat /\ \A i \in 1..n : Made(s[i], S)
  BY <1>1 DEF MadeRow, Row
<1>4. k \in Nat /\ k >= 1
  BY <1>1, <1>3
<1>5. CASE k <= n
  <2>1. r = ReplaceAt(s, k, x) /\ k \in 1..n
    BY <1>1, <1>3, <1>4, <1>5 DEF Renewed
  <2>2. Row(r, n) /\ r[k] = x /\ \A j \in 1..n : j # k => r[j] = s[j]
    BY <1>3, <2>1, RowReplace
  <2>3. Len(r) = n
    BY <2>2, RowIs
  <2>4. \A i \in 1..n : Made(r[i], S)
    BY <1>2, <1>3, <2>2
  <2> QED  BY <1>1, <1>3, <2>2, <2>3, <2>4 DEF MadeRow
<1>6. CASE ~ (k <= n)
  <2>1. r = Append(s, x)
    BY <1>1, <1>6 DEF Renewed
  <2> QED  BY <1>1, <1>2, <2>1, AppendMade
<1> QED  BY <1>5, <1>6

\* All levels of a tree, of which there are n.
MadeTree(t, n, S) == Row(t, n) /\ \A k \in 1..n : MadeRow(t[k], S)

\* Whatever number the padding is taken off by.
LEMMA UnpaddedMade ==
  ASSUME NEW S, NEW t, NEW h, MadeTree(t, h, S), NEW n \in Nat
  PROVE  \A k \in 1..h : MadeRow(Unpadded(t, n)[k], S)
<1>1. h \in Nat /\ Len(t) = h /\ DOMAIN t = 1..h /\ \A k \in 1..h : MadeRow(t[k], S)
  BY RowIs DEF MadeTree
<1>2. PICK c : c = Counts(n, h)
  OBVIOUS
<1>3. (h >= 1 => c[1] = n) /\ \A k \in 2..h : c[k] = Half(c[k - 1])
  BY <1>1, <1>2, CountsAre
<1> DEFINE P == {k \in 0..h : k >= 1 => c[k] \in Nat}
<1>4. 0 \in P
  BY <1>1
<1>5. ASSUME NEW k \in 0..h, k < h, k \in P PROVE k + 1 \in P
  <2>1. k + 1 \in 0..h /\ (k = 0 \/ k >= 1) /\ (k >= 1 => k + 1 \in 2..h) /\ (k + 1) - 1 = k
    BY <1>1, <1>5
  <2>2. CASE k = 0
    BY <1>1, <1>3, <1>5, <2>1, <2>2
  <2>3. CASE k >= 1
    <3>1. c[k] \in Nat /\ c[k + 1] = Half(c[k])
      BY <1>3, <1>5, <2>1, <2>3
    <3>2. Half(c[k]) \in Nat
      BY <3>1, HalfIs
    <3> QED  BY <2>1, <3>1, <3>2
  <2> QED  BY <2>1, <2>2, <2>3
<1> HIDE DEF P
<1>6. \A k \in 0..h : k < h /\ k \in P => k + 1 \in P
  BY <1>5
<1>7. \A k \in 0..h : k \in P
  BY <1>1, <1>4, <1>6, EachNumber
<1>8. \A k \in 1..h : c[k] \in Nat
  <2>1. \A k \in 1..h : k \in 0..h /\ k >= 1
    BY <1>1
  <2> QED  BY <1>7, <2>1 DEF P
<1>9. PICK u : u = Unpadded(t, n)
  OBVIOUS
<1>10. u = [k \in 1..h |-> IF c[k] % 2 = 1 /\ Len(t[k]) > c[k] THEN Front(t[k]) ELSE t[k]]
  BY <1>1, <1>2, <1>9 DEF Unpadded
<1>11. ASSUME NEW k \in 1..h PROVE MadeRow(u[k], S)
  <2>1. PICK s, m : s = t[k] /\ m = c[k]
    OBVIOUS
  <2>2. MadeRow(s, S) /\ m \in Nat /\ u[k] = IF m % 2 = 1 /\ Len(s) > m THEN Front(s) ELSE s
    BY <1>1, <1>8, <1>10, <2>1
  <2>3. CASE m % 2 = 1 /\ Len(s) > m
    <3>1. Len(s) \in Nat
      BY <2>2 DEF MadeRow, Row
    <3>2. Len(s) >= 2
      BY <2>2, <2>3, <3>1
    <3> QED  BY <2>2, <2>3, <3>2, FrontMade
  <2>4. CASE ~ (m % 2 = 1 /\ Len(s) > m)
    BY <2>2, <2>4
  <2> QED  BY <2>3, <2>4
<1> QED  BY <1>9, <1>11

\* An append adds nothing that is not made of the leaf and of what is there.
LEMMA WithLeafMade ==
  ASSUME NEW S, NEW t, NEW h, MadeTree(t, h, S), NEW n \in Nat, NEW x, Made(x, S)
  PROVE  \E g : MadeTree(WithLeaf(t, n, x), g, S) /\ g >= 1
<1>1. h \in Nat /\ Len(t) = h /\ DOMAIN t = 1..h /\ t \in Seq({t[i] : i \in 1..h})
  BY RowIs DEF MadeTree
<1>2. PICK w : w = WithLeaf(t, n, x)
  OBVIOUS
<1>3. CASE t = <<>>
  <2>1. PICK s : s = <<x>>
    OBVIOUS
  <2>2. Row(s, 1) /\ Len(s) = 1 /\ s[1] = x
    BY <2>1 DEF Row
  <2>3. MadeRow(s, S)
    BY <2>2 DEF MadeRow
  <2>4. w = <<s>>
    BY <1>2, <1>3, <2>1 DEF WithLeaf
  <2>5. Row(w, 1) /\ w[1] = s
    BY <2>4 DEF Row
  <2>6. MadeTree(w, 1, S)
    BY <2>3, <2>5 DEF MadeTree
  <2> QED  BY <1>2, <2>6
<1>4. CASE t # <<>>
  <2>1. h >= 1
    <3>1. h # 0
      BY <1>1, <1>4
    <3> QED  BY <1>1, <3>1
  <2>2. PICK u, r : u = Unpadded(t, n) /\ r = Renewals(t, n, x)
    OBVIOUS
  <2>3. \A k \in 1..h : MadeRow(u[k], S)
    BY <2>2, UnpaddedMade
  <2>4. r[1] = Append(u[1], x) /\ \A k \in 2..h : r[k] = Renewed(u[k], Padded(r[k - 1]))
    BY <1>1, <2>1, <2>2, RenewalsAre
  <2> DEFINE P == {k \in 0..h : k >= 1 => MadeRow(r[k], S)}
  <2>5. 0 \in P
    BY <1>1
  <2>6. ASSUME NEW k \in 0..h, k < h, k \in P PROVE k + 1 \in P
    <3>1. k + 1 \in 0..h /\ k + 1 \in 1..h /\ (k = 0 \/ k >= 1) /\ (k >= 1 => k + 1 \in 2..h) /\ (k + 1) - 1 = k
      BY <1>1, <2>6
    <3>2. PICK v : v = u[k + 1]
      OBVIOUS
    <3>3. MadeRow(v, S)
      BY <2>3, <3>1, <3>2
    <3>4. CASE k = 0
      <4>1. r[k + 1] = Append(v, x)
        BY <2>4, <3>2, <3>4
      <4>2. MadeRow(Append(v, x), S)
        BY <3>3, AppendMade
      <4> QED  BY <3>1, <4>1, <4>2
    <3>5. CASE k >= 1
      <4>1. PICK b : b = r[k]
        OBVIOUS
      <4>2. MadeRow(b, S) /\ r[k + 1] = Renewed(v, Padded(b))
        BY <2>4, <2>6, <3>1, <3>2, <3>5, <4>1
      <4>3. MadeRow(Padded(b), S) /\ Len(Padded(b)) >= 2
        BY <4>2, PaddedMade
      <4>4. MadeRow(Renewed(v, Padded(b)), S)
        BY <3>3, <4>3, RenewedMade
      <4> QED  BY <3>1, <4>2, <4>4
    <3> QED  BY <3>1, <3>4, <3>5
  <2> HIDE DEF P
  <2>7. \A k \in 0..h : k < h /\ k \in P => k + 1 \in P
    BY <2>6
  <2>8. \A k \in 0..h : k \in P
    BY <1>1, <2>5, <2>7, EachNumber
  <2>9. \A k \in 1..h : MadeRow(r[k], S)
    <3>1. \A k \in 1..h : k \in 0..h /\ k >= 1
      BY <1>1
    <3> QED  BY <2>8, <3>1 DEF P
  <2>10. PICK top : top = r[h]
    OBVIOUS
  <2>11. MadeRow(top, S) /\ MadeRow(<<LastParent(Padded(top))>>, S)
    <3>1. MadeRow(top, S)
      BY <1>1, <2>1, <2>9, <2>10
    <3>2. MadeRow(Padded(top), S) /\ Len(Padded(top)) >= 2
      BY <3>1, PaddedMade
    <3> QED  BY <3>1, <3>2, LastParentMade
  <2>12. PICK g : g = IF Len(top) = 1 THEN h ELSE h + 1
    OBVIOUS
  <2>13. w = [k \in 1..g |-> IF k > h THEN <<LastParent(Padded(top))>>
                             ELSE IF k = h /\ Len(top) = 1 THEN top ELSE Padded(r[k])]
    BY <1>1, <1>2, <1>4, <2>2, <2>10, <2>12 DEF WithLeaf
  <2>14. g \in Nat /\ g >= 1
    BY <1>1, <2>1, <2>12
  <2>15. Row(w, g)
    BY <2>13, <2>14 DEF Row
  <2>16. ASSUME NEW k \in 1..g PROVE MadeRow(w[k], S)
    <3>1. CASE k > h
      BY <2>11, <2>13, <3>1
    <3>2. CASE ~ (k > h)
      <4>1. k \in 1..h
        BY <1>1, <2>14, <3>2
      <4>2. PICK b : b = r[k]
        OBVIOUS
      <4>3. MadeRow(b, S)
        BY <2>9, <4>1, <4>2
      <4>4. MadeRow(Padded(b), S)
        BY <4>3, PaddedMade
      <4>5. w[k] = top \/ w[k] = Padded(b)
        BY <2>13, <3>2, <4>2
      <4> QED  BY <2>11, <4>4, <4>5
    <3> QED  BY <3>1, <3>2
  <2>17. MadeTree(w, g, S)
    BY <2>14, <2>15, <2>16 DEF MadeTree
  <2> QED  BY <1>2, <2>14, <2>17
<1> QED  BY <1>3, <1>4

\* The leaves below a root are made of what the root is made of.
LEMMA RootMade ==
  ASSUME NEW S, NoParents(S), NEW L, NEW h, Tower(L, h), Made(L[h][1], S)
  PROVE  \A i \in 1..Width(L[0]) : Made(L[0][i], S)
<1>1. h \in Nat
  BY TowerIs
<1> DEFINE P == {k \in 0..h : \A i \in 1..Width(L[h - k]) : Made(L[h - k][i], S)}
<1>2. 0 \in P
  <2>1. h - 0 = h /\ Width(L[h]) = 1 /\ 0 \in 0..h
    BY <1>1, TowerIs
  <2>2. \A i \in 1..1 : i = 1
    OBVIOUS
  <2> QED  BY <2>1, <2>2
<1>3. ASSUME NEW k \in 0..h, k < h, k \in P PROVE k + 1 \in P
  <2>1. k + 1 \in 0..h /\ h - k \in 1..h /\ h - (k + 1) \in 0..h /\ (h - k) - 1 = h - (k + 1)
    BY <1>1, <1>3
  <2>2. PICK s, n : s = L[h - (k + 1)] /\ n = Width(s)
    OBVIOUS
  <2>3. Row(s, n) /\ n >= 1 /\ n \in Nat
    BY <2>1, <2>2, TowerIs
  <2>4. L[h - k] = Above(s)
    BY <2>1, <2>2, TowerIs
  <2>5. /\ Width(Above(s)) = Half(n) /\ Half(n) \in Nat /\ n \in {2 * Half(n), 2 * Half(n) - 1}
        /\ \A i \in 1..n : Padded(s)[i] = s[i]
        /\ \A j \in 1..Half(n) : Above(s)[j] = Parent(Padded(s)[2 * j - 1], Padded(s)[2 * j])
    <3>1. Row(s, Width(s))
      BY <2>2, <2>3
    <3> QED  BY <2>2, <2>3, <3>1, AboveIs, AboveIsShorter, PaddedIs, HalfIs
  <2>6. \A j \in 1..Half(n) : Made(Above(s)[j], S)
    BY <1>3, <2>4, <2>5
  <2>7. ASSUME NEW i \in 1..n PROVE Made(s[i], S)
    <3>1. PICK j : j = (i + 1) \div 2
      OBVIOUS
    <3>2. j \in 1..Half(n) /\ (i = 2 * j - 1 \/ i = 2 * j)
      BY <2>3, <2>5, <3>1
    <3>3. PICK a, b : a = Padded(s)[2 * j - 1] /\ b = Padded(s)[2 * j]
      OBVIOUS
    <3>4. Made(Parent(a, b), S)
      BY <2>5, <2>6, <3>2, <3>3
    <3>5. Made(a, S) /\ Made(b, S)
      BY <3>4, MadeTells
    <3>6. s[i] = a \/ s[i] = b
      BY <2>5, <3>2, <3>3
    <3> QED  BY <3>5, <3>6
  <2> QED  BY <2>1, <2>2, <2>7
<1> HIDE DEF P
<1>4. \A k \in 0..h : k < h /\ k \in P => k + 1 \in P
  BY <1>3
<1>5. \A k \in 0..h : k \in P
  BY <1>1, <1>2, <1>4, EachNumber
<1>6. h \in P /\ h - h = 0
  BY <1>1, <1>5
<1> QED  BY <1>6 DEF P

\* A leaf that a proof leads from to the root is made of what the root is made of.
LEMMA ClimbMade ==
  ASSUME NEW S, NoParents(S), NEW leaf, NEW proof, NEW n \in Nat, Len(proof) = n,
         Made(Climb(leaf, proof)[n], S)
  PROVE  Made(leaf, S)
<1>1. PICK c : c = Climb(leaf, proof)
  OBVIOUS
<1>2. c[0] = leaf /\ \A k \in 1..n : c[k] = Joined(c[k - 1], proof[k])
  BY <1>1, ClimbIs
<1> DEFINE P == {k \in 0..n : Made(c[n - k], S)}
<1>3. 0 \in P
  <2>1. n - 0 = n /\ 0 \in 0..n
    OBVIOUS
  <2> QED  BY <1>1, <2>1
<1>4. ASSUME NEW k \in 0..n, k < n, k \in P PROVE k + 1 \in P
  <2>1. k + 1 \in 0..n /\ n - k \in 1..n /\ (n - k) - 1 = n - (k + 1)
    BY <1>4
  <2>2. PICK a, s : a = c[n - (k + 1)] /\ s = proof[n - k]
    OBVIOUS
  <2>3. c[n - k] = Joined(a, s)
    BY <1>2, <2>1, <2>2
  <2>4. Joined(a, s) = Parent(a, s.hash) \/ Joined(a, s) = Parent(s.hash, a)
    BY DEF Joined
  <2>5. Made(Parent(a, s.hash), S) \/ Made(Parent(s.hash, a), S)
    BY <1>4, <2>3, <2>4
  <2>6. Made(a, S)
    BY <2>5, MadeTells
  <2> QED  BY <2>1, <2>2, <2>6
<1> HIDE DEF P
<1>5. \A k \in 0..n : k < n /\ k \in P => k + 1 \in P
  BY <1>4
<1>6. \A k \in 0..n : k \in P
  BY <1>3, <1>5, EachNumber
<1>7. n \in P /\ n - n = 0
  BY <1>6
<1> QED  BY <1>2, <1>7 DEF P

-----------------------------------------------------------------------------
(* The trail.                                                              *)

Sequenced(list) == \A i \in DOMAIN list : list[i].sequence = i - 1

\* What Interfere leaves of an entry: its number is one that was given, and its data.
Unaltered == {e \in AuditEntries : /\ e.sequence + 1 \in DOMAIN appended
                              /\ e.data = appended[e.sequence + 1].data}

\* As long as append has counted right, the tree is that of the entries as they were appended,
\* whatever became of the trail; what is in the trail was appended, but for its event.
Counted ==
    /\ Sequenced(appended)
    /\ trail \in Seq(Unaltered) /\ (interfered = 0 => trail = appended)
    /\ tree = BuildMerkleTree(Leaves(appended))

\* And in any case it is made of the leaves that were appended.
AuditInv ==
    /\ interfered \in 0..Interferences /\ miscounted \in BOOLEAN
    /\ interfered = 0 => ~ miscounted
    /\ trail \in Seq(AuditEntries) /\ appended \in Seq(AuditEntries)
    /\ tree = <<>> => trail = <<>>
    /\ \E h : MadeTree(tree, h, Range(Leaves(appended)))
    /\ ~ miscounted => Counted

LEMMA EntryIs ==
  \A e \in AuditEntries : /\ e.sequence \in Nat /\ e.event \in Events /\ e.data \in Events
                          /\ e = [sequence |-> e.sequence, event |-> e.event, data |-> e.data]
  BY DEF AuditEntries

LEMMA LeafIs ==
  \A d, e : Leaf(d) = Leaf(e) <=> d.sequence = e.sequence /\ d.event = e.event
<1>1. ASSUME NEW d, NEW e, Leaf(d) = Leaf(e) PROVE d.sequence = e.sequence /\ d.event = e.event
  <2>1. Leaf(d).sequence = Leaf(e).sequence /\ Leaf(d).event = Leaf(e).event
    BY <1>1
  <2> QED  BY <2>1 DEF Leaf
<1>2. ASSUME NEW d, NEW e, d.sequence = e.sequence, d.event = e.event PROVE Leaf(d) = Leaf(e)
  BY <1>2 DEF Leaf
<1> QED  BY <1>1, <1>2

LEMMA LeavesAre ==
  ASSUME NEW S, NEW list \in Seq(S)
  PROVE  /\ Row(Leaves(list), Len(list))
         /\ \A i \in 1..Len(list) : Leaves(list)[i] = Leaf(list[i])
         /\ Sequenced(list) => LeavesOf(Leaves(list), Len(list))
<1>1. Len(list) \in Nat /\ DOMAIN list = 1..Len(list)
  OBVIOUS
<1>2. PICK l, n : l = Leaves(list) /\ n = Len(list)
  OBVIOUS
<1>3. l = [i \in 1..n |-> Leaf(list[i])] /\ n \in Nat
  BY <1>1, <1>2 DEF Leaves
<1>4. Row(l, n) /\ \A i \in 1..n : l[i] = Leaf(list[i])
  BY <1>3 DEF Row
<1>5. ASSUME Sequenced(list) PROVE LeavesOf(l, n)
  <2>1. \A i \in 1..n : list[i].sequence = i - 1
    BY <1>1, <1>2, <1>5 DEF Sequenced
  <2>2. ASSUME NEW i \in 1..n, NEW j \in 1..n, l[i] = l[j] PROVE i = j
    <3>1. Leaf(list[i]) = Leaf(list[j])
      BY <1>4, <2>2
    <3>2. list[i].sequence = list[j].sequence
      BY <3>1, LeafIs
    <3>3. i - 1 = j - 1
      BY <2>1, <3>2
    <3> QED  BY <3>3
  <2>3. ASSUME NEW i \in 1..n, NEW a, NEW b PROVE l[i] # Parent(a, b)
    <3>1. l[i] = Leaf(list[i])
      BY <1>4
    <3>2. Leaf(list[i]) # Parent(a, b)
      BY ParentsTell
    <3> QED  BY <3>1, <3>2
  <2> QED  BY <2>2, <2>3 DEF LeavesOf, Distinct
<1> QED  BY <1>2, <1>4, <1>5

\* A list that lacks an element, or has one in another place, has no others.
LEMMA StillSequence ==
  ASSUME NEW S, NEW s \in Seq(S), NEW i \in DOMAIN s
  PROVE  /\ RemoveAt(s, i) \in Seq(S) /\ Append(s, s[i]) \in Seq(S)
         /\ \A x \in S : [s EXCEPT ![i] = x] \in Seq(S)
<1>1. i \in 1..Len(s) /\ Len(s) \in Nat /\ s[i] \in S
  OBVIOUS
<1>2. RemoveAt(s, i) = SubSeq(s, 1, i - 1) \o SubSeq(s, i + 1, Len(s))
  BY DEF RemoveAt
<1>3. SubSeq(s, 1, i - 1) \in Seq(S)
  <2>1. i - 1 <= Len(s) /\ 1 \in Int /\ i - 1 \in Int
    BY <1>1
  <2>2. \A j \in 1..(i - 1) : j \in 1..Len(s)
    BY <1>1
  <2> QED  BY <1>1, <2>1, <2>2
<1>4. SubSeq(s, i + 1, Len(s)) \in Seq(S)
  BY <1>1
<1> QED  BY <1>1, <1>2, <1>3, <1>4

\* The appended leaves are no parents.
LEMMA LeavesNoParents ==
  ASSUME NEW S, NEW list \in Seq(S)
  PROVE  /\ NoParents(Range(Leaves(list)))
         /\ \A i \in DOMAIN list : Leaf(list[i]) \in Range(Leaves(list))
         /\ \A x \in Range(Leaves(list)) : \E i \in DOMAIN list : x = Leaf(list[i])
<1>1. \A x \in Range(Leaves(list)) : \E i \in DOMAIN list : x = Leaf(list[i])
  BY DEF Range, Leaves
<1>2. \A i \in DOMAIN list : Leaf(list[i]) \in Range(Leaves(list))
  BY DEF Range, Leaves
<1>3. ASSUME NEW x \in Range(Leaves(list)), NEW a, NEW b PROVE x # Parent(a, b)
  <2>1. PICK i \in DOMAIN list : x = Leaf(list[i])
    BY <1>1
  <2> QED  BY <2>1, ParentsTell
<1> QED  BY <1>1, <1>2, <1>3 DEF NoParents

LEMMA AuditInit_Inv == AuditInit => AuditInv
<1> SUFFICES ASSUME AuditInit PROVE AuditInv
  OBVIOUS
<1>1. /\ trail = <<>> /\ tree = <<>> /\ appended = <<>> /\ interfered = 0 /\ miscounted = FALSE
  BY DEF AuditInit
<1>2. <<>> \in Seq(AuditEntries) /\ <<>> \in Seq(Unaltered) /\ DOMAIN <<>> = {}
  OBVIOUS
<1>3. Sequenced(appended)
  BY <1>1, <1>2 DEF Sequenced
<1>4. tree = BuildMerkleTree(Leaves(appended))
  <2>1. appended \in Seq(AuditEntries) /\ Len(appended) = 0
    BY <1>1, <1>2
  <2>2. Row(Leaves(appended), 0)
    BY <2>1, LeavesAre
  <2>3. BuildMerkleTree(Leaves(appended)) = <<>>
    BY <2>2, TreeIsSequence
  <2> QED  BY <1>1, <2>3
<1>5. interfered \in 0..Interferences /\ miscounted \in BOOLEAN
  <2>1. interfered \in 0..Interferences
    BY <1>1, AuditAssumption
  <2>2. miscounted \in BOOLEAN
    BY <1>1
  <2> QED  BY <2>1, <2>2
<1>6. MadeTree(tree, 0, Range(Leaves(appended)))
  <2>1. Row(tree, 0)
    BY <1>1 DEF Row
  <2> QED  BY <2>1 DEF MadeTree
<1>7. Counted
  BY <1>1, <1>2, <1>3, <1>4 DEF Counted
<1> QED  BY <1>1, <1>2, <1>5, <1>6, <1>7 DEF AuditInv

\* An append that counts right.
LEMMA CountedAppend ==
  ASSUME AuditInv, NEW event \in Events, AppendEvent(event), ~ miscounted'
  PROVE  Counted'
<1>1. ~ miscounted /\ Len(trail) = Len(appended)
  BY DEF AppendEvent
<1>2. /\ interfered \in 0..Interferences
      /\ appended \in Seq(AuditEntries) /\ Sequenced(appended)
      /\ trail \in Seq(Unaltered) /\ (interfered = 0 => trail = appended)
      /\ tree = BuildMerkleTree(Leaves(appended))
  BY <1>1 DEF AuditInv, Counted
<1>3. PICK n, e : n = Len(trail) /\ e = [sequence |-> n, event |-> event, data |-> event]
  OBVIOUS
<1>4. /\ UNCHANGED interfered
      /\ trail' = Append(trail, e) /\ appended' = Append(appended, e)
      /\ tree' = WithLeaf(tree, n, Leaf(e))
  BY <1>3 DEF AppendEvent
<1>5. n \in Nat /\ Len(appended) = n /\ DOMAIN appended = 1..n
  BY <1>1, <1>2, <1>3
<1>6. e \in AuditEntries /\ e.sequence = n /\ e.data = event
  BY <1>3, <1>5 DEF AuditEntries
<1>7. /\ appended' \in Seq(AuditEntries) /\ Len(appended') = n + 1 /\ DOMAIN appended' = 1..(n + 1)
      /\ appended'[n + 1] = e /\ \A i \in 1..n : appended'[i] = appended[i]
  BY <1>2, <1>4, <1>5, <1>6
<1>8. Sequenced(appended')
  <2>1. \A i \in 1..n : appended[i].sequence = i - 1
    BY <1>2, <1>5 DEF Sequenced
  <2>2. \A i \in 1..(n + 1) : i \in 1..n \/ i = n + 1
    BY <1>5
  <2>3. (n + 1) - 1 = n
    BY <1>5
  <2>4. \A i \in 1..(n + 1) : appended'[i].sequence = i - 1
    BY <1>6, <1>7, <2>1, <2>2, <2>3
  <2> QED  BY <1>7, <2>4 DEF Sequenced
<1>9. Unaltered \subseteq Unaltered'
  <2>1. ASSUME NEW k \in Unaltered PROVE k \in Unaltered'
    <3>1. k \in AuditEntries /\ k.sequence + 1 \in 1..n /\ k.data = appended[k.sequence + 1].data
      BY <1>5 DEF Unaltered
    <3>2. k.sequence + 1 \in 1..(n + 1) /\ appended'[k.sequence + 1] = appended[k.sequence + 1]
      BY <1>5, <1>7, <3>1
    <3> QED  BY <1>7, <3>1, <3>2 DEF Unaltered
  <2> QED  BY <2>1
<1>10. e \in Unaltered'
  <2>1. n + 1 \in DOMAIN appended' /\ appended'[n + 1] = e
    BY <1>5, <1>7
  <2>2. e.sequence + 1 = n + 1
    BY <1>6
  <2> QED  BY <1>6, <2>1, <2>2 DEF Unaltered
<1>11. trail' \in Seq(Unaltered')
  <2>1. PICK K : K = Unaltered'
    OBVIOUS
  <2>2. trail \in Seq(K)
    BY <1>2, <1>9, <2>1
  <2>3. Append(trail, e) \in Seq(K)
    BY <1>10, <2>1, <2>2
  <2> QED  BY <1>4, <2>1, <2>3
<1>12. tree' = BuildMerkleTree(Leaves(appended'))
  <2>1. PICK l, r, x : l = Leaves(appended) /\ r = Leaves(appended') /\ x = Leaf(e)
    OBVIOUS
  <2>2. Row(l, n) /\ \A i \in 1..n : l[i] = Leaf(appended[i])
    BY <1>2, <1>5, <2>1, LeavesAre
  <2>3. Row(r, n + 1) /\ \A i \in 1..(n + 1) : r[i] = Leaf(appended'[i])
    BY <1>7, <2>1, LeavesAre
  <2>4. Len(l) = n /\ l \in Seq({l[i] : i \in 1..n})
    BY <2>2, RowIs
  <2>5. PICK a : a = Append(l, x)
    OBVIOUS
  <2>6. Row(a, n + 1) /\ a[n + 1] = x /\ \A i \in 1..n : a[i] = l[i]
    BY <1>5, <2>2, <2>4, <2>5, RowAppend
  <2>7. \A i \in 1..(n + 1) : a[i] = r[i]
    <3>1. ASSUME NEW i \in 1..(n + 1) PROVE a[i] = r[i]
      <4>1. CASE i = n + 1
        BY <1>7, <2>1, <2>3, <2>6, <4>1
      <4>2. CASE i # n + 1
        <5>1. i \in 1..n
          BY <1>5, <4>2
        <5> QED  BY <1>7, <2>2, <2>3, <2>6, <5>1
      <4> QED  BY <4>1, <4>2
    <3> QED  BY <3>1
  <2>8. a = r
    BY <2>3, <2>6, <2>7, RowsEqual
  <2>9. WithLeaf(BuildMerkleTree(l), n, x) = BuildMerkleTree(a)
    BY <2>2, <2>5, WithLeafIs
  <2> QED  BY <1>2, <1>4, <2>1, <2>8, <2>9
<1>13. interfered' \in 0..Interferences /\ (interfered' = 0 => trail' = appended')
  BY <1>2, <1>4
<1> QED  BY <1>7, <1>8, <1>11, <1>12, <1>13 DEF Counted

\* Append renews a tree of appended leaves, with however many it counts.
LEMMA AppendMakes ==
  ASSUME AuditInv, NEW event \in Events, AppendEvent(event)
  PROVE  /\ trail' \in Seq(AuditEntries) /\ appended' \in Seq(AuditEntries) /\ tree' # <<>>
         /\ \E h : MadeTree(tree', h, Range(Leaves(appended')))
<1>1. PICK n, e : n = Len(trail) /\ e = [sequence |-> n, event |-> event, data |-> event]
  OBVIOUS
<1>2. /\ trail' = Append(trail, e) /\ appended' = Append(appended, e)
      /\ tree' = WithLeaf(tree, n, Leaf(e))
  BY <1>1 DEF AppendEvent
<1>3. trail \in Seq(AuditEntries) /\ appended \in Seq(AuditEntries) /\ n \in Nat
  BY <1>1 DEF AuditInv
<1>4. e \in AuditEntries
  BY <1>1, <1>3 DEF AuditEntries
<1>5. trail' \in Seq(AuditEntries) /\ appended' \in Seq(AuditEntries)
  BY <1>2, <1>3, <1>4
<1>6. PICK S, T : S = Range(Leaves(appended)) /\ T = Range(Leaves(appended'))
  OBVIOUS
<1>7. S \subseteq T /\ Leaf(e) \in T
  <2>1. PICK m : m = Len(appended)
    OBVIOUS
  <2>2. /\ m \in Nat /\ DOMAIN appended = 1..m /\ DOMAIN appended' = 1..(m + 1)
        /\ appended'[m + 1] = e /\ \A i \in 1..m : appended'[i] = appended[i]
    BY <1>2, <1>3, <1>4, <2>1
  <2>3. Leaf(e) \in T
    <3>1. m + 1 \in DOMAIN appended'
      BY <2>2
    <3>2. Leaf(appended'[m + 1]) \in T
      BY <1>5, <1>6, <3>1, LeavesNoParents
    <3> QED  BY <2>2, <3>2
  <2>4. ASSUME NEW x \in S PROVE x \in T
    <3>1. PICK i \in DOMAIN appended : x = Leaf(appended[i])
      BY <1>3, <1>6, <2>4, LeavesNoParents
    <3>2. i \in DOMAIN appended' /\ appended'[i] = appended[i]
      BY <2>2
    <3>3. Leaf(appended'[i]) \in T
      BY <1>5, <1>6, <3>2, LeavesNoParents
    <3> QED  BY <3>1, <3>2, <3>3
  <2> QED  BY <2>3, <2>4
<1>8. PICK h : MadeTree(tree, h, S)
  BY <1>6 DEF AuditInv
<1>9. MadeTree(tree, h, T)
  <2>1. ASSUME NEW s, MadeRow(s, S) PROVE MadeRow(s, T)
    <3>1. Row(s, Len(s)) /\ Len(s) >= 1 /\ \A i \in 1..Len(s) : Made(s[i], S)
      BY <2>1 DEF MadeRow
    <3>2. \A i \in 1..Len(s) : Made(s[i], T)
      BY <1>7, <3>1, MadeTells
    <3> QED  BY <3>1, <3>2 DEF MadeRow
  <2> QED  BY <1>8, <2>1 DEF MadeTree
<1>10. Made(Leaf(e), T)
  BY <1>7, MadeIs
<1>11. PICK g : MadeTree(tree', g, T) /\ g >= 1
  BY <1>2, <1>3, <1>9, <1>10, WithLeafMade
<1>12. tree' # <<>>
  <2>1. Len(tree') = g
    BY <1>11, RowIs DEF MadeTree
  <2> QED  BY <1>11, <2>1
<1> QED  BY <1>5, <1>6, <1>11, <1>12

LEMMA AppendEvent_Inv ==
  ASSUME AuditInv, NEW event \in Events, AppendEvent(event)
  PROVE  AuditInv'
<1>1. /\ interfered \in 0..Interferences /\ miscounted \in BOOLEAN
      /\ interfered = 0 => ~ miscounted
      /\ interfered = 0 => trail = appended
  BY DEF AuditInv, Counted
<1>2. interfered' = interfered /\ miscounted' = (miscounted \/ Len(trail) # Len(appended))
  BY DEF AppendEvent
<1>3. miscounted' \in BOOLEAN /\ (interfered' = 0 => ~ miscounted')
  BY <1>1, <1>2
<1>4. ~ miscounted' => Counted'
  BY CountedAppend
<1> QED  BY <1>1, <1>2, <1>3, <1>4, AppendMakes DEF AuditInv

\* What is done to the list leaves it entries of a set that holds them whatever their event.
LEMMA InterferenceKeeps ==
  ASSUME NEW S, trail \in Seq(S), Interfere,
         \A k \in S : \A event \in Events : [k EXCEPT !.event = event] \in S
  PROVE  trail' \in Seq(S) /\ trail # <<>>
<1>1. ASSUME NEW i \in DOMAIN trail, NEW event \in Events, trail' = [trail EXCEPT ![i].event = event]
      PROVE  trail' \in Seq(S)
  <2>1. PICK k, d : k = trail[i] /\ d = [trail[i] EXCEPT !.event = event]
    OBVIOUS
  <2>2. trail' = [trail EXCEPT ![i] = d]
    BY <1>1, <2>1
  <2>3. d \in S
    BY <2>1
  <2> QED  BY <2>2, <2>3, StillSequence
<1>2. ASSUME NEW i \in DOMAIN trail, trail' = RemoveAt(trail, i)
      PROVE  trail' \in Seq(S)
  BY <1>2, StillSequence
<1>3. ASSUME NEW i \in DOMAIN trail, NEW j \in DOMAIN trail,
             trail' = [trail EXCEPT ![i] = trail[j], ![j] = trail[i]]
      PROVE  trail' \in Seq(S)
  <2>1. PICK s : s = [trail EXCEPT ![i] = trail[j]]
    OBVIOUS
  <2>2. trail[i] \in S /\ trail[j] \in S
    OBVIOUS
  <2>3. s \in Seq(S)
    BY <2>1, <2>2, StillSequence
  <2>4. j \in DOMAIN s
    BY <2>1
  <2>5. trail' = [s EXCEPT ![j] = trail[i]]
    BY <1>3, <2>1
  <2> QED  BY <2>2, <2>3, <2>4, <2>5, StillSequence
<1>4. ASSUME NEW i \in DOMAIN trail, trail' = Append(trail, trail[i])
      PROVE  trail' \in Seq(S)
  BY <1>4, StillSequence
<1>5. \A i \in DOMAIN trail : trail # <<>>
  OBVIOUS
<1> QED  BY <1>1, <1>2, <1>3, <1>4, <1>5 DEF Interfere

LEMMA Interfere_Inv ==
  ASSUME AuditInv, Interfere
  PROVE  AuditInv'
<1>1. /\ interfered \in 0..Interferences /\ miscounted \in BOOLEAN
      /\ trail \in Seq(AuditEntries) /\ appended \in Seq(AuditEntries)
      /\ tree = <<>> => trail = <<>>
      /\ \E h : MadeTree(tree, h, Range(Leaves(appended)))
      /\ ~ miscounted => Counted
  BY DEF AuditInv
<1>2. interfered' \in 0..Interferences /\ interfered' # 0
  <2>1. interfered < Interferences /\ interfered' = interfered + 1
    BY DEF Interfere
  <2> QED  BY <1>1, <2>1, AuditAssumption
<1>3. tree' = tree /\ appended' = appended /\ miscounted' = miscounted
  BY DEF Interfere
<1>4. \A k \in AuditEntries : \A event \in Events : [k EXCEPT !.event = event] \in AuditEntries
  BY DEF AuditEntries
<1>5. trail' \in Seq(AuditEntries) /\ tree' # <<>>
  BY <1>1, <1>3, <1>4, InterferenceKeeps
<1>6. ASSUME ~ miscounted PROVE Counted'
  <2>1. /\ Sequenced(appended) /\ trail \in Seq(Unaltered) /\ tree = BuildMerkleTree(Leaves(appended))
    BY <1>1, <1>6 DEF Counted
  <2>2. Unaltered' = Unaltered
    BY <1>3 DEF Unaltered
  <2>3. ASSUME NEW k \in Unaltered, NEW event \in Events PROVE [k EXCEPT !.event = event] \in Unaltered
    <3>1. PICK d : d = [k EXCEPT !.event = event]
      OBVIOUS
    <3>2. k \in AuditEntries
      BY DEF Unaltered
    <3>3. d \in AuditEntries /\ d.sequence = k.sequence /\ d.data = k.data
      BY <3>1, <3>2 DEF AuditEntries
    <3> QED  BY <3>1, <3>3 DEF Unaltered
  <2>4. trail' \in Seq(Unaltered)
    BY <2>1, <2>3, InterferenceKeeps
  <2> QED  BY <1>2, <1>3, <2>1, <2>2, <2>4 DEF Counted
<1> QED  BY <1>1, <1>2, <1>3, <1>5, <1>6 DEF AuditInv

\* Theorem: whatever is appended or interfered with, the tree is made of leaves that were
\* appended; and as long as append has counted right it is the tree of the entries as
\* append made them, and what is in the trail was appended, but for its event.
THEOREM AuditInvariant == AuditSpec => []AuditInv
<1>1. ASSUME AuditInv, [AuditNext]_auditVars PROVE AuditInv'
  <2>1. CASE \E event \in Events : AppendEvent(event)
    BY <1>1, <2>1, AppendEvent_Inv
  <2>2. CASE Interfere
    BY <1>1, <2>2, Interfere_Inv
  <2>3. CASE UNCHANGED auditVars
    <3>1. /\ trail' = trail /\ tree' = tree /\ appended' = appended
          /\ interfered' = interfered /\ miscounted' = miscounted
      BY <2>3 DEF auditVars
    <3>2. Unaltered' = Unaltered
      BY <3>1 DEF Unaltered
    <3> QED  BY <1>1, <3>1, <3>2 DEF AuditInv, Counted
  <2> QED  BY <1>1, <2>1, <2>2, <2>3 DEF AuditNext
<1> QED  BY <1>1, AuditInit_Inv, PTL DEF AuditSpec

LEMMA InvariantTypes == AuditInv => AuditTypeOK
<1> SUFFICES ASSUME AuditInv PROVE AuditTypeOK
  OBVIOUS
<1>1. PICK h : MadeTree(tree, h, Range(Leaves(appended)))
  BY DEF AuditInv
<1>2. DOMAIN tree = 1..Len(tree)
  BY <1>1, RowIs DEF MadeTree
<1> QED  BY <1>2 DEF AuditInv, AuditTypeOK

\* An entry of the trail is proved included exactly if it is there as it was appended.
LEMMA InclusionTells ==
  ASSUME AuditInv, ~ miscounted, NEW i \in DOMAIN trail, trail[i].sequence + 1 \in DOMAIN trail,
         Leaf(trail[trail[i].sequence + 1]) = Leaf(trail[i])
  PROVE  VerifyInclusion(trail[i]) <=> trail[i] = appended[trail[i].sequence + 1]
<1>1. /\ appended \in Seq(AuditEntries) /\ trail \in Seq(Unaltered) /\ Sequenced(appended)
      /\ tree = BuildMerkleTree(Leaves(appended))
  BY DEF AuditInv, Counted
<1>2. PICK e, n, l : e = trail[i] /\ n = Len(appended) /\ l = Leaves(appended)
  OBVIOUS
<1>3. n \in Nat /\ DOMAIN appended = 1..n
  BY <1>1, <1>2
<1>4. e \in Unaltered
  BY <1>1, <1>2
<1>5. e \in AuditEntries /\ e.sequence + 1 \in 1..n /\ e.data = appended[e.sequence + 1].data
  BY <1>3, <1>4 DEF Unaltered
<1>6. e.sequence \in 0..(n - 1)
  BY <1>3, <1>5, EntryIs
<1>7. Row(l, n) /\ l[e.sequence + 1] = Leaf(appended[e.sequence + 1])
  BY <1>1, <1>2, <1>5, LeavesAre
<1>8. tree # <<>>
  <2>1. n # 0
    BY <1>3, <1>5
  <2> QED  BY <1>1, <1>2, <1>7, <2>1, TreeIsSequence
<1>9. RootHash[1] = Last(tree)[1]
  BY <1>8 DEF RootHash
<1>10. VerifyMerkleProof(Leaf(e), MerkleProof(tree, e.sequence), Last(tree)[1]) <=> Leaf(e) = l[e.sequence + 1]
  BY <1>1, <1>2, <1>6, <1>7, TreeVerifies
<1>11. PICK d : d = appended[e.sequence + 1]
  OBVIOUS
<1>12. d \in AuditEntries /\ e.data = d.data
  BY <1>1, <1>3, <1>5, <1>11
<1>13. Leaf(e) = Leaf(d) <=> e = d
  BY <1>5, <1>12, LeafIs, EntryIs
<1> QED  BY <1>2, <1>7, <1>9, <1>10, <1>11, <1>13 DEF VerifyInclusion

LEMMA IntegrityTells ==
  ASSUME AuditInv, ~ miscounted, trail # <<>>, VerifyIntegrity
  PROVE  trail = appended
<1>1. /\ appended \in Seq(AuditEntries) /\ trail \in Seq(Unaltered) /\ Sequenced(appended)
      /\ tree = BuildMerkleTree(Leaves(appended))
  BY DEF AuditInv, Counted
<1>2. (\A i \in DOMAIN trail : trail[i].sequence = i - 1) /\ <<Last(Rebuilt)[1]>> = RootHash
  BY DEF VerifyIntegrity
<1>3. Sequenced(trail)
  BY <1>2 DEF Sequenced
<1>4. PICK l, n, r, m : /\ l = Leaves(trail) /\ n = Len(trail)
                        /\ r = Leaves(appended) /\ m = Len(appended)
  OBVIOUS
<1>5. /\ Row(l, n) /\ LeavesOf(l, n) /\ \A i \in 1..n : l[i] = Leaf(trail[i])
      /\ Row(r, m) /\ LeavesOf(r, m) /\ \A i \in 1..m : r[i] = Leaf(appended[i])
  BY <1>1, <1>3, <1>4, LeavesAre
<1>6. n \in Nat /\ n >= 1 /\ m \in Nat /\ DOMAIN trail = 1..n /\ DOMAIN appended = 1..m
  BY <1>1, <1>4
<1>7. tree # <<>> /\ Last(Rebuilt)[1] = Last(tree)[1]
  <2>1. PICK x, y : x = Last(Rebuilt)[1] /\ y = Last(tree)[1]
    OBVIOUS
  <2>2. <<x>> = IF tree = <<>> THEN <<>> ELSE <<y>>
    BY <1>2, <2>1 DEF RootHash
  <2>3. <<x>> # <<>>
    OBVIOUS
  <2>4. tree # <<>> /\ <<x>> = <<y>>
    BY <2>2, <2>3
  <2>5. x = y
    BY <2>4
  <2> QED  BY <2>1, <2>4, <2>5
<1>8. m >= 1
  <2>1. m # 0
    BY <1>1, <1>4, <1>5, <1>7, TreeIsSequence
  <2> QED  BY <1>6, <2>1
<1>9. Rebuilt = BuildMerkleTree(l)
  BY <1>4 DEF Rebuilt
<1>10. l = r
  BY <1>1, <1>4, <1>5, <1>6, <1>7, <1>8, <1>9, TreesTell
<1>11. n = m
  <2>1. Len(l) = n /\ Len(r) = m
    BY <1>5, RowIs
  <2> QED  BY <1>10, <2>1
<1>12. ASSUME NEW i \in 1..n PROVE trail[i] = appended[i]
  <2>1. PICK d, e : d = trail[i] /\ e = appended[i]
    OBVIOUS
  <2>2. d \in Unaltered /\ e \in AuditEntries
    BY <1>1, <1>6, <1>11, <2>1
  <2>3. d.sequence = i - 1
    BY <1>2, <1>6, <2>1
  <2>4. d.sequence + 1 = i
    BY <2>3
  <2>5. d \in AuditEntries /\ d.data = e.data
    BY <2>1, <2>2, <2>4 DEF Unaltered
  <2>6. Leaf(d) = Leaf(e)
    BY <1>5, <1>10, <1>11, <2>1
  <2>7. d = e
    BY <2>2, <2>5, <2>6, LeafIs, EntryIs
  <2> QED  BY <2>1, <2>7
<1>13. Row(trail, n) /\ Row(appended, n)
  BY <1>1, <1>4, <1>11, SequenceIsRow
<1> QED  BY <1>12, <1>13, RowsEqual

\* What passes either check was appended, wherever and under whatever number it is now.
LEMMA NothingElsePasses ==
  ASSUME AuditInv, NEW i \in DOMAIN trail, VerifyIntegrity \/ VerifyInclusion(trail[i])
  PROVE  Leaf(trail[i]) \in Range(Leaves(appended))
<1>1. PICK S, h : S = Range(Leaves(appended)) /\ MadeTree(tree, h, S)
  BY DEF AuditInv
<1>2. NoParents(S)
  BY <1>1, LeavesNoParents DEF AuditInv
<1>3. /\ trail \in Seq(AuditEntries) /\ trail # <<>> /\ tree # <<>>
  BY DEF AuditInv
<1>4. Row(tree, h) /\ h \in Nat /\ Len(tree) = h /\ tree \in Seq({tree[k] : k \in 1..h})
      /\ \A k \in 1..h : MadeRow(tree[k], S)
  BY <1>1, RowIs DEF MadeTree
<1>5. h >= 1
  <2>1. h # 0
    BY <1>3, <1>4
  <2> QED  BY <1>4, <2>1
<1>6. PICK root : root = Last(tree)[1]
  OBVIOUS
<1>7. Made(root, S) /\ RootHash = <<root>>
  <2>1. PICK s : s = tree[h]
    OBVIOUS
  <2>2. MadeRow(s, S) /\ Last(tree) = s
    BY <1>4, <1>5, <2>1 DEF Last
  <2>3. 1 \in 1..Len(s)
    BY <2>2 DEF MadeRow, Row
  <2>4. Made(s[1], S)
    BY <2>2, <2>3 DEF MadeRow
  <2> QED  BY <1>3, <1>6, <2>2, <2>4 DEF RootHash
<1>8. PICK leaf : leaf = Leaf(trail[i])
  OBVIOUS
<1>9. ASSUME VerifyIntegrity PROVE Made(leaf, S)
  <2>1. PICK l, n : l = Leaves(trail) /\ n = Len(trail)
    OBVIOUS
  <2>2. Row(l, n) /\ n \in Nat /\ i \in 1..n /\ n >= 1 /\ l[i] = leaf
    BY <1>3, <1>8, <2>1, LeavesAre
  <2>3. PICK L, g : Tower(L, g) /\ L[0] = l /\ BuildMerkleTree(l) = Built(L, g)
    BY <2>2, TreeHasTower
  <2>4. PICK u : u = Built(L, g)
    OBVIOUS
  <2>5. Last(u) = L[g]
    <3>1. g \in Nat
      BY <2>3, TowerIs
    <3>2. Len(u) = g + 1 /\ u[g + 1] = L[g]
      BY <2>4, <3>1, BuiltIs
    <3> QED  BY <3>2 DEF Last
  <2>6. <<Last(u)[1]>> = RootHash
    BY <1>3, <1>9, <2>1, <2>3, <2>4 DEF VerifyIntegrity, Rebuilt
  <2>7. L[g][1] = root
    BY <1>7, <2>5, <2>6
  <2>8. Width(L[0]) = n
    BY <2>2, <2>3, RowIs DEF Width
  <2>9. \A j \in 1..Width(L[0]) : Made(L[0][j], S)
    BY <1>2, <1>7, <2>3, <2>7, RootMade
  <2> QED  BY <2>2, <2>3, <2>8, <2>9
<1>10. ASSUME VerifyInclusion(trail[i]) PROVE Made(leaf, S)
  <2>1. PICK proof : proof = MerkleProof(tree, trail[i].sequence)
    OBVIOUS
  <2>2. Climb(leaf, proof)[Len(proof)] = root
    BY <1>7, <1>8, <1>10, <2>1 DEF VerifyInclusion, VerifyMerkleProof
  <2>3. Len(proof) \in Nat
    <3>1. PICK m : m = IF trail[i].sequence < Len(tree[1]) THEN Len(tree) - 1 ELSE 0
      OBVIOUS
    <3>2. m \in Nat
      BY <1>4, <1>5, <3>1
    <3>3. Len(proof) = m
      BY <2>1, <3>1, <3>2 DEF MerkleProof
    <3> QED  BY <3>2, <3>3
  <2>4. Made(Climb(leaf, proof)[Len(proof)], S)
    BY <1>7, <2>2
  <2> QED  BY <1>2, <2>3, <2>4, ClimbMade
<1>11. Made(leaf, S)
  BY <1>9, <1>10
<1>12. leaf \in S
  <2>1. \A a, b : leaf # Parent(a, b)
    BY <1>8, ParentsTell
  <2> QED  BY <1>11, <2>1, MadeTells
<1> QED  BY <1>1, <1>8, <1>12

LEMMA InvariantTells == AuditInv => TreeTellsTheTrail
<1> SUFFICES ASSUME AuditInv PROVE TreeTellsTheTrail
  OBVIOUS
<1>1. ASSUME ~ miscounted
      PROVE  /\ appended \in Seq(AuditEntries) /\ trail \in Seq(Unaltered) /\ Sequenced(appended)
             /\ tree = BuildMerkleTree(Leaves(appended)) /\ (interfered = 0 => trail = appended)
  BY <1>1 DEF AuditInv, Counted
<1>2. ASSUME ~ miscounted, trail = appended, NEW i \in DOMAIN trail PROVE VerifyInclusion(trail[i])
  <2>1. trail[i].sequence = i - 1
    BY <1>1, <1>2 DEF Sequenced
  <2>2. i \in Nat
    BY <1>1, <1>2
  <2>3. trail[i].sequence + 1 = i
    BY <2>1, <2>2
  <2>4. trail[i] = appended[trail[i].sequence + 1]
    BY <1>2, <2>3
  <2> QED  BY <1>2, <2>3, <2>4, InclusionTells
<1>3. ASSUME ~ miscounted, trail = appended, trail # <<>> PROVE VerifyIntegrity
  <2>1. \A i \in DOMAIN trail : trail[i].sequence = i - 1
    BY <1>1, <1>3 DEF Sequenced
  <2>2. Rebuilt = tree
    BY <1>1, <1>3 DEF Rebuilt
  <2>3. tree # <<>>
    <3>1. Row(Leaves(appended), Len(appended)) /\ Len(appended) # 0
      BY <1>1, <1>3, LeavesAre
    <3> QED  BY <1>1, <1>3, <3>1, TreeIsSequence
  <2>4. <<Last(Rebuilt)[1]>> = RootHash
    BY <2>2, <2>3 DEF RootHash
  <2> QED  BY <2>1, <2>4 DEF VerifyIntegrity
<1>4. interfered = 0 => tree = Rebuilt /\ \A i \in DOMAIN trail : VerifyInclusion(trail[i])
  <2>1. interfered = 0 => ~ miscounted
    BY DEF AuditInv
  <2> QED  BY <1>1, <1>2, <2>1 DEF Rebuilt
<1>5. ~ miscounted /\ trail # <<>> => (VerifyIntegrity <=> trail = appended)
  BY <1>3, IntegrityTells
<1>6. \A i \in DOMAIN trail :
         VerifyIntegrity \/ VerifyInclusion(trail[i]) => Leaf(trail[i]) \in Range(Leaves(appended))
  BY NothingElsePasses
<1> QED  BY <1>4, <1>5, <1>6 DEF TreeTellsTheTrail

\* Theorem: trail, tree and the entries as appended keep their types.
THEOREM AuditTypeCorrect == AuditSpec => []AuditTypeOK
  BY AuditInvariant, InvariantTypes, PTL

\* Theorem: at every length, the tree renewed in place by append is the one a full rebuild
\* gives and every entry's proof leads to its root.  However the list of entries was changed,
\* the integrity check passes exactly for the trail as it was appended - until an append
\* counts its leaves by a list of another length - and nothing ever passes it, or is proved
\* included, whose leaf append has not made.
THEOREM TreeAlwaysTells == AuditSpec => []TreeTellsTheTrail
  BY AuditInvariant, InvariantTells, PTL
=============================================================================

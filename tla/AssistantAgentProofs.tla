------------------------ MODULE AssistantAgentProofs ------------------------
(********************************************************************************)
(* Proofs about the turns of the assistant and the calls they make.             *)
(*                                                                              *)
(* AssistantAgent: whatever the model plans and however its calls end, a turn   *)
(* stays within its budgets.  Dividing a total among the calls of a batch is    *)
(* shown to bound their sum; the sums and concatenations behind it are          *)
(* recursive functions, whose facts follow from a least counterexample.         *)
(*                                                                              *)
(* AssistantCapacity: the requests and the calls of any number of workers leave *)
(* the headroom of every pool.  What a request was admitted against is the      *)
(* table before it, and a call under way holds a reservation of its own.        *)
(********************************************************************************)
EXTENDS AssistantAgent, AssistantCapacity, FiniteSetTheorems, WellFoundedInduction, TLAPS

\* A nonempty set of naturals has a least element.
LEMMA HasLeast ==
  ASSUME NEW T \in SUBSET Nat, T # {}
  PROVE  \E m \in T : \A n \in T : m <= n
<1> DEFINE R == {s \in Nat \X Nat : s[1] < s[2]}
<1>1. R = OpToRel(<, Nat)
  BY DEF OpToRel
<1>2. IsWellFoundedOn(R, Nat)
  BY <1>1, NatLessThanWellFounded
<1> HIDE DEF R
<1>3. PICK x \in T : \A y \in T : ~(<<y, x>> \in R)
  BY <1>2, WFMin
<1>4. \A y \in T : x <= y
  <2> TAKE y \in T
  <2>1. x \in Nat /\ y \in Nat /\ <<y, x>> \in Nat \X Nat
    OBVIOUS
  <2>2. y < x => <<y, x>> \in R
    BY <2>1 DEF R
  <2> QED
    BY <1>3, <2>1, <2>2
<1> QED
  BY <1>4

\* A set of indices that holds 0, and with an index the next one, holds all.
LEMMA Upward ==
  ASSUME NEW n \in Nat, NEW P, 0 \in P,
         \A k \in 0..n : k \in P /\ k < n => k + 1 \in P
  PROVE  0..n \subseteq P
<1> SUFFICES ASSUME ~(0..n \subseteq P) PROVE FALSE
  OBVIOUS
<1> DEFINE bad == {k \in 0..n : k \notin P}
<1>1. bad \in SUBSET Nat /\ bad # {}
  OBVIOUS
<1>2. PICK m \in bad : \A k \in bad : m <= k
  BY <1>1, HasLeast
<1>3. m \in 0..n /\ m \notin P /\ m # 0
  OBVIOUS
<1>4. m - 1 \in 0..n /\ m - 1 < n /\ ~(m <= m - 1) /\ (m - 1) + 1 = m
  BY <1>3
<1>5. m - 1 \in P
  BY <1>2, <1>4
<1> QED
  BY <1>3, <1>4, <1>5

\* The partial sums of n rows.
SumsOf(g, n, f) ==
  /\ g \in [0..n -> Nat] /\ g[0] = 0
  /\ \A k \in 1..n : g[k] = g[k - 1] + f[k]

\* The partial sums exist.
LEMMA SumsExist ==
  ASSUME NEW n \in Nat, NEW f, \A i \in 1..n : f[i] \in Nat
  PROVE  \E g : SumsOf(g, n, f)
<1> DEFINE P == {k \in 0..n : \E g : SumsOf(g, k, f)}
<1>1. 0 \in P
  <2>1. SumsOf([j \in 0..0 |-> 0], 0, f)
    BY DEF SumsOf
  <2> QED
    BY <2>1
<1>2. ASSUME NEW k \in 0..n, k \in P, k < n PROVE k + 1 \in P
  <2>1. PICK g : SumsOf(g, k, f)
    BY <1>2
  <2> DEFINE h == [j \in 0..(k + 1) |-> IF j <= k THEN g[j] ELSE g[k] + f[k + 1]]
  <2>2. k + 1 \in 1..n /\ f[k + 1] \in Nat /\ k \in 0..k
    BY <1>2
  <2>3. g \in [0..k -> Nat] /\ g[0] = 0 /\ \A j \in 1..k : g[j] = g[j - 1] + f[j]
    BY <2>1 DEF SumsOf
  <2>4. h \in [0..(k + 1) -> Nat]
    <3>1. ASSUME NEW j \in 0..(k + 1)
          PROVE  (IF j <= k THEN g[j] ELSE g[k] + f[k + 1]) \in Nat
      <4>1. CASE j <= k
        BY <4>1, <2>3
      <4>2. CASE ~(j <= k)
        BY <4>2, <2>2, <2>3
      <4> QED
        BY <4>1, <4>2
    <3> QED
      BY <3>1
  <2>5. h[0] = 0
    BY <2>3
  <2>6. ASSUME NEW j \in 1..(k + 1) PROVE h[j] = h[j - 1] + f[j]
    <3>1. CASE j <= k
      <4>1. j - 1 \in 0..k /\ j \in 1..k
        BY <3>1
      <4> QED
        BY <3>1, <4>1, <2>3
    <3>2. CASE j = k + 1
      BY <3>2
    <3> QED
      BY <3>1, <3>2
  <2> HIDE DEF h
  <2>7. SumsOf(h, k + 1, f)
    BY <2>4, <2>5, <2>6 DEF SumsOf
  <2> QED
    BY <2>2, <2>7
<1> HIDE DEF P
<1>3. 0..n \subseteq P
  BY <1>1, <1>2, Upward
<1>4. n \in P
  BY <1>3
<1> QED
  BY <1>4 DEF P

\* The sum is the last of the partial sums.
LEMMA SumIsLast ==
  ASSUME NEW n \in Nat, NEW f, \A i \in 1..n : f[i] \in Nat
  PROVE  \E g : SumsOf(g, n, f) /\ Total(n, f) = g[n]
<1> DEFINE Def(g) == [k \in 0..n |-> IF k = 0 THEN 0 ELSE g[k - 1] + f[k]]
           s == CHOOSE g : g = Def(g)
<1>1. PICK g : SumsOf(g, n, f)
  BY SumsExist
<1>2. g = Def(g)
  BY <1>1 DEF SumsOf
<1>3. s = Def(s)
  BY <1>2
<1>4. Total(n, f) = s[n]
  BY DEF Total
<1> HIDE DEF s
<1>5. s[0] = 0 /\ \A k \in 1..n : s[k] = s[k - 1] + f[k]
  BY <1>3
<1>6. s = [k \in 0..n |-> s[k]]
  BY <1>3
<1>7. \A k \in 0..n : s[k] \in Nat
  <2> DEFINE P == {k \in 0..n : s[k] \in Nat}
  <2>1. 0 \in P
    BY <1>5
  <2>2. ASSUME NEW k \in 0..n, k \in P, k < n PROVE k + 1 \in P
    <3>1. k + 1 \in 1..n /\ (k + 1) - 1 = k
      BY <2>2
    <3>2. s[k + 1] = s[k] + f[k + 1]
      BY <3>1, <1>5
    <3> QED
      BY <2>2, <3>1, <3>2
  <2> HIDE DEF P
  <2>3. 0..n \subseteq P
    BY <2>1, <2>2, Upward
  <2> QED
    BY <2>3 DEF P
<1>8. SumsOf(s, n, f)
  BY <1>5, <1>6, <1>7 DEF SumsOf
<1> QED
  BY <1>4, <1>8

-----------------------------------------------------------------------------
(* Shares of a total.                                                         *)

\* Quotient and remainder make up the total.
LEMMA Quotient ==
  ASSUME NEW total \in Nat, NEW c \in Nat \ {0}
  PROVE  /\ total \div c \in Nat /\ (total % c) \in Nat /\ (total % c) < c
         /\ (total \div c) * c + (total % c) = total
BY SMT

\* One call more takes its quotient, and one of the remainder while it lasts.
LEMMA OneMore ==
  ASSUME NEW q \in Nat, NEW r \in Nat, NEW c \in Nat, NEW s \in Nat, NEW x \in Nat,
         s <= q * c + AtMost(c, r), x <= q + (IF c < r THEN 1 ELSE 0)
  PROVE  s + x <= q * (c + 1) + AtMost(c + 1, r)
<1>1. q * (c + 1) = q * c + q /\ q * c \in Nat
  OBVIOUS
<1> DEFINE p == q * c
<1>2. p \in Nat /\ s <= p + AtMost(c, r)
  BY <1>1
<1> HIDE DEF p
<1>3. s + x <= p + q + AtMost(c + 1, r)
  BY <1>2 DEF AtMost
<1> QED
  BY <1>1, <1>3 DEF p

\* The members of a set of indices that lie below one.
Below(A, i) == {j \in A : j < i}

LEMMA BelowCounts ==
  ASSUME NEW n \in Nat, NEW A \in SUBSET (1..n)
  PROVE  /\ IsFiniteSet(A) /\ Cardinality(A) \in Nat
         /\ Cardinality(Below(A, 1)) = 0
         /\ Cardinality(Below(A, n + 1)) = Cardinality(A)
         /\ \A i \in 1..n :
              /\ Cardinality(Below(A, i)) \in Nat
              /\ Cardinality(Below(A, i + 1)) =
                   Cardinality(Below(A, i)) + (IF i \in A THEN 1 ELSE 0)
<1>1. IsFiniteSet(1..n)
  BY FS_Interval
<1>2. IsFiniteSet(A)
  BY <1>1, FS_Subset
<1>3. Cardinality(A) \in Nat
  BY <1>2, FS_CardinalityType
<1>4. Below(A, 1) = {} /\ Below(A, n + 1) = A
  <2>1. \A j \in A : ~(j < 1) /\ j < n + 1
    OBVIOUS
  <2> QED
    BY <2>1 DEF Below
<1>5. Cardinality(Below(A, 1)) = 0
  BY <1>4, FS_EmptySet
<1>6. ASSUME NEW i \in 1..n
      PROVE  /\ Cardinality(Below(A, i)) \in Nat
             /\ Cardinality(Below(A, i + 1)) =
                  Cardinality(Below(A, i)) + (IF i \in A THEN 1 ELSE 0)
  <2>1. Below(A, i) \subseteq A /\ i \notin Below(A, i)
    BY DEF Below
  <2>2. IsFiniteSet(Below(A, i))
    BY <1>2, <2>1, FS_Subset
  <2>3. Cardinality(Below(A, i)) \in Nat
    BY <2>2, FS_CardinalityType
  <2> DEFINE next == i + 1
  <2>4. \A j \in A : j < next <=> j < i \/ j = i
    OBVIOUS
  <2> HIDE DEF next
  <2>5. CASE i \in A
    <3>1. Below(A, next) = Below(A, i) \cup {i}
      BY <2>5, <2>4 DEF Below
    <3>2. Cardinality(Below(A, i) \cup {i}) = Cardinality(Below(A, i)) + 1
      BY <2>1, <2>2, FS_AddElement
    <3> QED
      BY <2>3, <2>5, <3>1, <3>2 DEF next
  <2>6. CASE i \notin A
    <3>1. Below(A, next) = Below(A, i)
      BY <2>6, <2>4 DEF Below
    <3> QED
      BY <2>3, <2>6, <3>1 DEF next
  <2> QED
    BY <2>5, <2>6
<1> QED
  BY <1>2, <1>3, <1>4, <1>5, <1>6

\* Nothing adds up to nothing.
LEMMA SumOfZeros ==
  ASSUME NEW n \in Nat, NEW f, \A i \in 1..n : f[i] = 0
  PROVE  Total(n, f) = 0
<1>1. PICK g : SumsOf(g, n, f) /\ Total(n, f) = g[n]
  BY SumIsLast
<1> DEFINE P == {k \in 0..n : g[k] = 0}
<1>2. 0 \in P
  BY <1>1 DEF SumsOf
<1>3. ASSUME NEW k \in 0..n, k \in P, k < n PROVE k + 1 \in P
  <2>1. k + 1 \in 1..n /\ (k + 1) - 1 = k
    BY <1>3
  <2>2. g[k + 1] = g[k] + f[k + 1]
    BY <2>1, <1>1 DEF SumsOf
  <2> QED
    BY <1>3, <2>1, <2>2
<1> HIDE DEF P
<1>4. 0..n \subseteq P
  BY <1>2, <1>3, Upward
<1>5. n \in P
  BY <1>4
<1> QED
  BY <1>1, <1>5 DEF P

\* What stays within the shares of a total adds up to no more than it.
LEMMA SharesAddUp ==
  ASSUME NEW n \in Nat, NEW A \in SUBSET (1..n), NEW total \in Nat, NEW f,
         \A i \in 1..n : f[i] \in Nat,
         \A i \in A : f[i] <= Share(total, A, i),
         \A i \in (1..n) \ A : f[i] = 0
  PROVE  Total(n, f) <= total
<1>1. CASE A = {}
  <2>1. Total(n, f) = 0
    BY <1>1, SumOfZeros
  <2> QED
    BY <2>1
<1>2. CASE A # {}
  <2>1. PICK g : SumsOf(g, n, f) /\ Total(n, f) = g[n]
    BY SumIsLast
  <2> DEFINE c == Cardinality(A)
             q == total \div c
             r == total % c
             C(i) == Cardinality(Below(A, i))
  <2>2. c \in Nat \ {0}
    <3>1. IsFiniteSet(A) /\ c \in Nat
      BY BelowCounts
    <3> QED
      BY <1>2, <3>1, FS_EmptySet
  <2>3. q \in Nat /\ r \in Nat /\ r < c /\ q * c + r = total
    BY <2>2, Quotient
  <2>4. C(1) = 0 /\ C(n + 1) = c
    BY BelowCounts
  <2>5. \A i \in 1..n : C(i) \in Nat /\ C(i + 1) = C(i) + (IF i \in A THEN 1 ELSE 0)
    BY BelowCounts
  <2>6. \A i \in A : f[i] <= q + (IF C(i) < r THEN 1 ELSE 0)
    BY DEF Share, Below
  <2>7. g \in [0..n -> Nat] /\ g[0] = 0 /\ \A k \in 1..n : g[k] = g[k - 1] + f[k]
    BY <2>1 DEF SumsOf
  <2> HIDE DEF c, q, r, C
  <2> DEFINE P == {k \in 0..n : g[k] <= q * C(k + 1) + AtMost(C(k + 1), r)}
  <2>8. 0 \in P
    <3>1. q * 0 = 0 /\ AtMost(0, r) = 0
      BY <2>3 DEF AtMost
    <3> QED
      BY <2>4, <2>7, <3>1
  <2>9. ASSUME NEW k \in 0..n, k \in P, k < n PROVE k + 1 \in P
    <3> DEFINE i == k + 1
    <3>1. i \in 1..n /\ i - 1 = k /\ i \in 0..n
      BY <2>9
    <3>2. g[i] = g[k] + f[i] /\ g[k] \in Nat /\ f[i] \in Nat
      BY <2>7, <2>9, <3>1
    <3>3. g[k] <= q * C(i) + AtMost(C(i), r)
      BY <2>9
    <3>4. C(i) \in Nat /\ C(i + 1) = C(i) + (IF i \in A THEN 1 ELSE 0)
      BY <2>5, <3>1
    <3> HIDE DEF i, P
    <3>5. g[i] <= q * C(i + 1) + AtMost(C(i + 1), r)
      <4>1. CASE i \in A
        <5>1. f[i] <= q + (IF C(i) < r THEN 1 ELSE 0)
          BY <2>6, <4>1
        <5>2. g[k] + f[i] <= q * (C(i) + 1) + AtMost(C(i) + 1, r)
          BY <2>3, <3>2, <3>3, <3>4, <5>1, OneMore
        <5> QED
          BY <3>2, <3>4, <4>1, <5>2
      <4>2. CASE i \notin A
        <5>1. f[i] = 0 /\ C(i + 1) = C(i)
          BY <3>1, <3>4, <4>2
        <5> QED
          BY <3>2, <3>3, <5>1
      <4> QED
        BY <4>1, <4>2
    <3> QED
      BY <3>1, <3>5 DEF i, P
  <2> HIDE DEF P
  <2>10. 0..n \subseteq P
    BY <2>8, <2>9, Upward
  <2>11. n \in P
    BY <2>10
  <2>12. g[n] <= q * c + AtMost(c, r)
    BY <2>4, <2>11 DEF P
  <2>13. AtMost(c, r) = r
    BY <2>2, <2>3 DEF AtMost
  <2> QED
    BY <2>1, <2>3, <2>12, <2>13
<1> QED
  BY <1>1, <1>2

-----------------------------------------------------------------------------
(* Sequences put end to end.                                                  *)

LEMMA JoinedLength ==
  ASSUME NEW S, NEW s \in Seq(S), NEW t \in Seq(S)
  PROVE  s \o t \in Seq(S) /\ Len(s \o t) = Len(s) + Len(t)
OBVIOUS

\* The first k sequences end to end, for every k up to n.
JoinedUp(h, n, S, seqs) ==
  /\ h \in [1..n -> Seq(S)]
  /\ \A k \in 1..n : h[k] = IF k = 1 THEN seqs[k] ELSE h[k - 1] \o seqs[k]

LEMMA JoinsExist ==
  ASSUME NEW n \in Nat, NEW S, NEW seqs, \A i \in 1..n : seqs[i] \in Seq(S)
  PROVE  \E h : JoinedUp(h, n, S, seqs)
<1> DEFINE P == {k \in 0..n : \E h : JoinedUp(h, k, S, seqs)}
<1>1. 0 \in P
  <2>1. JoinedUp([j \in 1..0 |-> <<>>], 0, S, seqs)
    BY DEF JoinedUp
  <2> QED
    BY <2>1
<1>2. ASSUME NEW k \in 0..n, k \in P, k < n PROVE k + 1 \in P
  <2>1. PICK h : JoinedUp(h, k, S, seqs)
    BY <1>2
  <2>2. k + 1 \in 1..n /\ seqs[k + 1] \in Seq(S)
    BY <1>2
  <2>3. h \in [1..k -> Seq(S)]
        /\ \A j \in 1..k : h[j] = IF j = 1 THEN seqs[j] ELSE h[j - 1] \o seqs[j]
    BY <2>1 DEF JoinedUp
  <2> DEFINE next == IF k = 0 THEN seqs[k + 1] ELSE h[k] \o seqs[k + 1]
             all == [j \in 1..(k + 1) |-> IF j <= k THEN h[j] ELSE next]
  <2>4. next \in Seq(S)
    <3>1. CASE k = 0
      BY <2>2, <3>1
    <3>2. CASE k # 0
      <4>1. h[k] \in Seq(S)
        BY <2>3, <3>2
      <4> QED
        BY <2>2, <3>2, <4>1
    <3> QED
      BY <3>1, <3>2
  <2>5. all \in [1..(k + 1) -> Seq(S)]
    <3> HIDE DEF next
    <3>1. \A j \in 1..(k + 1) : (IF j <= k THEN h[j] ELSE next) \in Seq(S)
      BY <2>3, <2>4
    <3> QED
      BY <3>1
  <2>6. ASSUME NEW j \in 1..(k + 1)
        PROVE  all[j] = IF j = 1 THEN seqs[j] ELSE all[j - 1] \o seqs[j]
    <3>1. CASE j <= k
      <4>1. all[j] = h[j] /\ (j # 1 => all[j - 1] = h[j - 1]) /\ j \in 1..k
        BY <3>1
      <4> HIDE DEF all
      <4> QED
        BY <2>3, <4>1
    <3>2. CASE j = k + 1
      <4>1. all[j] = next /\ (k # 0 => all[j - 1] = h[k])
        BY <3>2
      <4>2. k = 0 <=> j = 1
        BY <3>2
      <4> HIDE DEF all
      <4> QED
        BY <3>2, <4>1, <4>2
    <3> QED
      BY <3>1, <3>2
  <2> HIDE DEF all
  <2>7. JoinedUp(all, k + 1, S, seqs)
    BY <2>5, <2>6 DEF JoinedUp
  <2> QED
    BY <2>2, <2>7
<1> HIDE DEF P
<1>3. 0..n \subseteq P
  BY <1>1, <1>2, Upward
<1>4. n \in P
  BY <1>3
<1> QED
  BY <1>4 DEF P

\* FlattenSeq gives the last of them.
LEMMA FlattenIsLast ==
  ASSUME NEW n \in Nat \ {0}, NEW S, NEW seqs, Len(seqs) = n,
         \A i \in 1..n : seqs[i] \in Seq(S)
  PROVE  \E h : JoinedUp(h, n, S, seqs) /\ FlattenSeq(seqs) = h[n]
<1> DEFINE Def(h) == [i \in 1..n |-> IF i = 1 THEN seqs[i] ELSE h[i - 1] \o seqs[i]]
           s == CHOOSE h : h = Def(h)
<1>1. PICK h : JoinedUp(h, n, S, seqs)
  BY JoinsExist
<1>2. h = Def(h)
  BY <1>1 DEF JoinedUp
<1>3. s = Def(s)
  BY <1>2
<1>4. FlattenSeq(seqs) = s[n]
  BY DEF FlattenSeq
<1> HIDE DEF s
<1>5. \A k \in 1..n : s[k] = IF k = 1 THEN seqs[k] ELSE s[k - 1] \o seqs[k]
  BY <1>3
<1>6. s = [k \in 1..n |-> s[k]]
  BY <1>3
<1>7. \A k \in 1..n : s[k] \in Seq(S)
  <2> DEFINE P == {k \in 0..n : k # 0 => s[k] \in Seq(S)}
  <2>1. 0 \in P
    OBVIOUS
  <2>2. ASSUME NEW k \in 0..n, k \in P, k < n PROVE k + 1 \in P
    <3>1. k + 1 \in 1..n /\ (k + 1) - 1 = k /\ (k + 1 = 1 <=> k = 0)
      BY <2>2
    <3>2. s[k + 1] = IF k = 0 THEN seqs[k + 1] ELSE s[k] \o seqs[k + 1]
      BY <3>1, <1>5
    <3>3. seqs[k + 1] \in Seq(S)
      BY <3>1
    <3>4. s[k + 1] \in Seq(S)
      <4>1. CASE k = 0
        BY <3>2, <3>3, <4>1
      <4>2. CASE k # 0
        <5>1. s[k] \in Seq(S)
          BY <2>2, <4>2
        <5> QED
          BY <3>2, <3>3, <4>2, <5>1
      <4> QED
        BY <4>1, <4>2
    <3> QED
      BY <3>1, <3>4
  <2> HIDE DEF P
  <2>3. 0..n \subseteq P
    BY <2>1, <2>2, Upward
  <2> QED
    BY <2>3 DEF P
<1>8. JoinedUp(s, n, S, seqs)
  BY <1>5, <1>6, <1>7 DEF JoinedUp
<1> QED
  BY <1>4, <1>8

\* Its length is the sum of the lengths.
LEMMA FlattenLength ==
  ASSUME NEW n \in Nat, NEW S, NEW seqs, seqs = [i \in 1..n |-> seqs[i]],
         \A i \in 1..n : seqs[i] \in Seq(S)
  PROVE  /\ FlattenSeq(seqs) \in Seq(S)
         /\ Len(FlattenSeq(seqs)) = Total(n, [i \in 1..n |-> Len(seqs[i])])
<1>1. seqs \in Seq(Seq(S)) /\ Len(seqs) = n
  OBVIOUS
<1> DEFINE f == [i \in 1..n |-> Len(seqs[i])]
<1>2. \A i \in 1..n : f[i] = Len(seqs[i]) /\ f[i] \in Nat
  OBVIOUS
<1> HIDE DEF f
<1>3. CASE n = 0
  <2>1. FlattenSeq(seqs) = seqs
    BY <1>1, <1>3 DEF FlattenSeq
  <2>2. seqs = <<>>
    BY <1>1, <1>3
  <2>3. Total(n, f) = 0
    BY <1>3, SumOfZeros
  <2>4. <<>> \in Seq(S) /\ Len(<<>>) = 0
    OBVIOUS
  <2> QED
    BY <2>1, <2>2, <2>3, <2>4 DEF f
<1>4. CASE n # 0
  <2>1. n \in Nat \ {0}
    BY <1>4
  <2>2. PICK h : JoinedUp(h, n, S, seqs) /\ FlattenSeq(seqs) = h[n]
    BY <1>1, <2>1, FlattenIsLast
  <2>3. PICK g : SumsOf(g, n, f) /\ Total(n, f) = g[n]
    BY <1>2, SumIsLast
  <2>4. h \in [1..n -> Seq(S)]
        /\ \A k \in 1..n : h[k] = IF k = 1 THEN seqs[k] ELSE h[k - 1] \o seqs[k]
    BY <2>2 DEF JoinedUp
  <2>5. g[0] = 0 /\ \A k \in 1..n : g[k] = g[k - 1] + f[k]
    BY <2>3 DEF SumsOf
  <2> DEFINE P == {k \in 0..n : k # 0 => Len(h[k]) = g[k]}
  <2>6. 0 \in P
    OBVIOUS
  <2>7. ASSUME NEW k \in 0..n, k \in P, k < n PROVE k + 1 \in P
    <3> DEFINE i == k + 1
    <3>1. i \in 1..n /\ i - 1 = k /\ (i = 1 <=> k = 0)
      BY <2>7
    <3>2. h[i] = IF k = 0 THEN seqs[i] ELSE h[k] \o seqs[i]
      BY <3>1, <2>4
    <3>3. g[i] = g[k] + Len(seqs[i]) /\ seqs[i] \in Seq(S)
      BY <3>1, <2>5, <1>2
    <3> HIDE DEF i
    <3>4. Len(h[i]) = g[i]
      <4>1. CASE k = 0
        BY <2>5, <3>2, <3>3, <4>1
      <4>2. CASE k # 0
        <5>1. h[k] \in Seq(S) /\ Len(h[k]) = g[k]
          BY <2>4, <2>7, <4>2
        <5>2. Len(h[k] \o seqs[i]) = Len(h[k]) + Len(seqs[i])
          BY <3>3, <5>1, JoinedLength
        <5> QED
          BY <3>2, <3>3, <4>2, <5>1, <5>2
      <4> QED
        BY <4>1, <4>2
    <3> QED
      BY <3>1, <3>4 DEF i
  <2> HIDE DEF P
  <2>8. 0..n \subseteq P
    BY <2>6, <2>7, Upward
  <2>9. n \in P
    BY <2>8
  <2>10. Len(h[n]) = g[n] /\ h[n] \in Seq(S)
    BY <2>1, <2>4, <2>9 DEF P
  <2> QED
    BY <2>2, <2>3, <2>10 DEF f
<1> QED
  BY <1>3, <1>4

\* At most one each adds up to at most their number.
LEMMA SumOfUnits ==
  ASSUME NEW n \in Nat, NEW f, \A i \in 1..n : f[i] \in {0, 1}
  PROVE  Total(n, f) <= n
<1>1. PICK g : SumsOf(g, n, f) /\ Total(n, f) = g[n]
  BY SumIsLast
<1>2. g \in [0..n -> Nat] /\ g[0] = 0 /\ \A k \in 1..n : g[k] = g[k - 1] + f[k]
  BY <1>1 DEF SumsOf
<1> DEFINE P == {k \in 0..n : g[k] <= k}
<1>3. 0 \in P
  BY <1>2
<1>4. ASSUME NEW k \in 0..n, k \in P, k < n PROVE k + 1 \in P
  <2>1. k + 1 \in 1..n /\ (k + 1) - 1 = k /\ g[k] \in Nat
    BY <1>2, <1>4
  <2>2. g[k + 1] = g[k] + f[k + 1] /\ f[k + 1] \in {0, 1}
    BY <1>2, <2>1
  <2> QED
    BY <1>4, <2>1, <2>2
<1> HIDE DEF P
<1>5. 0..n \subseteq P
  BY <1>3, <1>4, Upward
<1>6. n \in P
  BY <1>5
<1> QED
  BY <1>1, <1>6 DEF P

\* Dropping repetitions gives no more elements.
LEMMA DistinctLength ==
  ASSUME NEW S, NEW s \in Seq(S)
  PROVE  Distinct(s) \in Seq(S) /\ Len(Distinct(s)) <= Len(s)
<1> DEFINE n == Len(s)
           parts == [k \in DOMAIN s |->
                      IF \E j \in 1..k - 1 : s[j] = s[k] THEN <<>> ELSE <<s[k]>>]
           f == [i \in 1..n |-> Len(parts[i])]
<1>1. n \in Nat /\ DOMAIN s = 1..n /\ \A i \in 1..n : s[i] \in S
  OBVIOUS
<1>2. parts = [i \in 1..n |-> parts[i]]
  BY <1>1
<1>3. \A i \in 1..n : parts[i] \in {<<>>, <<s[i]>>}
  BY <1>1
<1>4. Distinct(s) = FlattenSeq(parts)
  BY DEF Distinct
<1> HIDE DEF parts
<1>5. ASSUME NEW i \in 1..n PROVE parts[i] \in Seq(S) /\ Len(parts[i]) \in {0, 1}
  <2>1. <<>> \in Seq(S) /\ Len(<<>>) = 0
    OBVIOUS
  <2>2. <<s[i]>> \in Seq(S) /\ Len(<<s[i]>>) = 1
    BY <1>1
  <2> QED
    BY <1>3, <2>1, <2>2
<1>6. \A i \in 1..n : f[i] \in {0, 1}
  BY <1>5
<1> HIDE DEF n
<1>7. FlattenSeq(parts) \in Seq(S) /\ Len(FlattenSeq(parts)) = Total(n, f)
  BY <1>1, <1>2, <1>5, FlattenLength
<1> HIDE DEF f
<1>8. Total(n, f) <= n
  BY <1>1, <1>6, SumOfUnits
<1> QED
  BY <1>4, <1>7, <1>8 DEF n

\* A sum of naturals is one.
LEMMA TotalIsNat ==
  ASSUME NEW n \in Nat, NEW f, \A i \in 1..n : f[i] \in Nat
  PROVE  Total(n, f) \in Nat
<1>1. PICK g : SumsOf(g, n, f) /\ Total(n, f) = g[n]
  BY SumIsLast
<1> QED
  BY <1>1 DEF SumsOf

-----------------------------------------------------------------------------
(* The results of a batch.                                                    *)

Items == DOMAIN NewsItems
Listed(s) == Len(s) \in Nat /\ DOMAIN s = 1..Len(s)

\* A result of a batch's call stays within the share of that call.
Within(plan, tokens, evidence, i, result) ==
  /\ result.tokens \in Nat /\ result.evidence \in Seq(Items)
  /\ IF i \in Prepared(plan)
     THEN /\ result.tokens <= TokenBudget(plan, i, tokens)
          /\ Len(result.evidence) <= EvidenceBudget(plan, i, evidence)
     ELSE result.tokens = 0 /\ result.evidence = <<>>

\* The calls that run, and those that search the news, are some of a plan's.
LEMMA SomeOfThePlan ==
  ASSUME NEW plan, Listed(plan)
  PROVE  /\ Prepared(plan) \in SUBSET (1..Len(plan))
         /\ NewsCalls(plan) \in SUBSET (1..Len(plan))
         /\ \A i \in Prepared(plan) : plan[i].tool \in DOMAIN Tools
<1>1. \A i \in Prepared(plan) : plan[i].tool \in DOMAIN Tools
  BY DEF Prepared, Refusal
<1> QED
  BY <1>1 DEF Prepared, NewsCalls, Listed

LEMMA ShareIsNat ==
  ASSUME NEW n \in Nat, NEW A \in SUBSET (1..n), A # {}, NEW total \in Nat, NEW i
  PROVE  Share(total, A, i) \in Nat
<1>1. IsFiniteSet(A) /\ Cardinality(A) \in Nat
  BY BelowCounts
<1>2. Cardinality(A) \in Nat \ {0}
  BY <1>1, FS_EmptySet
<1>3. total \div Cardinality(A) \in Nat
  BY <1>2, Quotient
<1> QED
  BY <1>3 DEF Share

\* What a running call may spend.
LEMMA BudgetsAreNat ==
  ASSUME NEW plan, Listed(plan), NEW tokens \in Nat, NEW evidence \in Nat, NEW i \in 1..Len(plan)
  PROVE  /\ i \in Prepared(plan) => TokenBudget(plan, i, tokens) \in Nat
         /\ EvidenceBudget(plan, i, evidence) \in Nat
<1>1. Len(plan) \in Nat
  BY DEF Listed
<1>2. /\ Prepared(plan) \in SUBSET (1..Len(plan)) /\ NewsCalls(plan) \in SUBSET (1..Len(plan))
      /\ \A j \in Prepared(plan) : plan[j].tool \in DOMAIN Tools
  BY SomeOfThePlan
<1>3. ASSUME i \in Prepared(plan) PROVE TokenBudget(plan, i, tokens) \in Nat
  <2>1. Share(tokens, Prepared(plan), i) \in Nat
    BY <1>1, <1>2, <1>3, ShareIsNat
  <2>2. Tools[plan[i].tool].tokens \in Nat
    BY <1>2, <1>3, AgentAssumption DEF ValidRegistry
  <2> QED
    BY <2>1, <2>2 DEF TokenBudget, AtMost
<1>4. EvidenceBudget(plan, i, evidence) \in Nat
  <2>1. CASE IsNews(plan[i])
    <3>1. NewsCalls(plan) # {}
      BY <2>1 DEF NewsCalls, Listed
    <3>2. Share(evidence, NewsCalls(plan), i) \in Nat
      BY <1>1, <1>2, <3>1, ShareIsNat
    <3> QED
      BY <2>1, <3>2 DEF EvidenceBudget
  <2>2. CASE ~IsNews(plan[i])
    BY <2>2 DEF EvidenceBudget
  <2> QED
    BY <2>1, <2>2
<1> QED
  BY <1>3, <1>4

\* Together the results of a batch stay within what was divided among its calls.
LEMMA ResultsFit ==
  ASSUME NEW plan, Listed(plan), NEW tokens \in Nat, NEW evidence \in Nat, NEW results,
         results = [i \in 1..Len(plan) |-> results[i]],
         \A i \in 1..Len(plan) : Within(plan, tokens, evidence, i, results[i])
  PROVE  /\ Len(results) = Len(plan)
         /\ SpentOf(results) \in Nat /\ SpentOf(results) <= tokens
         /\ Found(results) \in Seq(Items) /\ Len(Found(results)) <= evidence
<1> DEFINE n == Len(plan)
           f == [i \in 1..n |-> results[i].tokens]
           seqs == [i \in 1..n |-> results[i].evidence]
           g == [i \in 1..n |-> Len(seqs[i])]
<1>1. n \in Nat
  BY DEF Listed
<1>2. /\ Prepared(plan) \in SUBSET (1..n) /\ NewsCalls(plan) \in SUBSET (1..n)
  BY SomeOfThePlan
<1>3. results \in Seq({results[i] : i \in 1..n}) /\ Len(results) = n /\ DOMAIN results = 1..n
  BY <1>1
<1>4. ASSUME NEW i \in 1..n
      PROVE  /\ f[i] \in Nat /\ seqs[i] \in Seq(Items) /\ g[i] \in Nat /\ g[i] = Len(seqs[i])
             /\ f[i] = results[i].tokens /\ seqs[i] = results[i].evidence
  BY DEF Within
<1>5. SpentOf(results) = Total(n, f) /\ Found(results) = FlattenSeq(seqs)
  BY <1>3 DEF SpentOf, Found
<1>6. seqs = [i \in 1..n |-> seqs[i]]
  OBVIOUS
<1> HIDE DEF n, f, seqs
<1>7. Found(results) \in Seq(Items) /\ Len(Found(results)) = Total(n, g)
  <2>1. \A i \in 1..n : seqs[i] \in Seq(Items)
    BY <1>4
  <2> QED
    BY <1>1, <1>5, <1>6, <2>1, FlattenLength
<1> HIDE DEF g
<1>8. Total(n, f) <= tokens
  <2>1. ASSUME NEW i \in Prepared(plan) PROVE f[i] <= Share(tokens, Prepared(plan), i)
    <3>1. i \in 1..n /\ Prepared(plan) # {}
      BY <1>2
    <3>2. Share(tokens, Prepared(plan), i) \in Nat
      BY <1>1, <1>2, <3>1, ShareIsNat
    <3>3. Tools[plan[i].tool].tokens \in Nat
      BY SomeOfThePlan, AgentAssumption DEF ValidRegistry
    <3>4. f[i] \in Nat /\ f[i] <= TokenBudget(plan, i, tokens)
      BY <1>4, <3>1 DEF Within, n
    <3>5. TokenBudget(plan, i, tokens) <= Share(tokens, Prepared(plan), i)
      BY <3>2, <3>3 DEF TokenBudget, AtMost
    <3>6. TokenBudget(plan, i, tokens) \in Nat
      BY <3>1, BudgetsAreNat DEF n
    <3> QED
      BY <3>2, <3>4, <3>5, <3>6
  <2>2. \A i \in (1..n) \ Prepared(plan) : f[i] = 0
    BY <1>4 DEF Within, n
  <2>3. \A i \in 1..n : f[i] \in Nat
    BY <1>4
  <2> QED
    BY <1>1, <1>2, <2>1, <2>2, <2>3, SharesAddUp
<1>9. Total(n, g) <= evidence
  <2>1. ASSUME NEW i \in 1..n PROVE g[i] <= EvidenceBudget(plan, i, evidence)
    <3>1. EvidenceBudget(plan, i, evidence) \in Nat
      BY BudgetsAreNat DEF n
    <3>2. CASE i \in Prepared(plan)
      BY <1>4, <3>2 DEF Within, n
    <3>3. CASE i \notin Prepared(plan)
      <4>1. g[i] = 0
        BY <1>4, <3>3 DEF Within, n
      <4> QED
        BY <3>1, <4>1
    <3> QED
      BY <3>2, <3>3
  <2>2. ASSUME NEW i \in NewsCalls(plan) PROVE g[i] <= Share(evidence, NewsCalls(plan), i)
    <3>1. i \in 1..n /\ IsNews(plan[i])
      BY <1>2 DEF NewsCalls
    <3> QED
      BY <2>1, <3>1 DEF EvidenceBudget
  <2>3. ASSUME NEW i \in (1..n) \ NewsCalls(plan) PROVE g[i] = 0
    <3>1. ~IsNews(plan[i])
      BY <2>3 DEF NewsCalls, Listed, n
    <3>2. g[i] <= 0 /\ g[i] \in Nat
      BY <1>4, <2>1, <3>1 DEF EvidenceBudget
    <3> QED
      BY <3>2
  <2>4. \A i \in 1..n : g[i] \in Nat
    BY <1>4
  <2> QED
    BY <1>1, <1>2, <2>2, <2>3, <2>4, SharesAddUp
<1>10. Total(n, f) \in Nat
  BY <1>1, <1>4, TotalIsNat
<1> QED
  BY <1>3, <1>5, <1>7, <1>8, <1>9, <1>10 DEF n

\* A call that brings nothing back stays within anything.
LEMMA RefusedWithin ==
  ASSUME NEW plan, Listed(plan), NEW tokens \in Nat, NEW evidence \in Nat,
         NEW i \in 1..Len(plan), NEW call, NEW status, NEW code
  PROVE  Within(plan, tokens, evidence, i, Refused(call, status, code))
<1> DEFINE result == Refused(call, status, code)
<1>1. result.tokens = 0 /\ result.evidence = <<>>
  BY DEF Refused
<1>2. <<>> \in Seq(Items) /\ Len(<<>>) = 0
  OBVIOUS
<1>3. /\ i \in Prepared(plan) => TokenBudget(plan, i, tokens) \in Nat
      /\ EvidenceBudget(plan, i, evidence) \in Nat
  BY BudgetsAreNat
<1> HIDE DEF result
<1>4. Within(plan, tokens, evidence, i, result)
  BY <1>1, <1>2, <1>3 DEF Within
<1> QED
  BY <1>4 DEF result

\* The packet that fits: some of the rows, from the first on.
LEMMA FittingType ==
  ASSUME NEW found \in Seq(Items), NEW budget
  PROVE  Fitting(found, budget) \in 0..Len(found)
<1> DEFINE all == 1..Len(found)
           fit == {n \in all : Weight(found, n) <= budget}
<1>1. Len(found) \in Nat
  OBVIOUS
<1>2. IsFiniteSet(all) /\ Cardinality(all) = Len(found)
  BY <1>1, FS_Interval
<1>3. fit \subseteq all
  OBVIOUS
<1> HIDE DEF all, fit
<1>4. IsFiniteSet(fit) /\ Cardinality(fit) <= Cardinality(all)
  BY <1>2, <1>3, FS_Subset
<1>5. Cardinality(fit) \in Nat
  BY <1>4, FS_CardinalityType
<1>6. Fitting(found, budget) = Cardinality(fit)
  BY DEF Fitting, fit, all
<1> QED
  BY <1>1, <1>2, <1>4, <1>5, <1>6

LEMMA WeightIsNat ==
  ASSUME NEW found \in Seq(Items), NEW n \in 0..Len(found)
  PROVE  Weight(found, n) \in Nat
<1> DEFINE f == [i \in 1..n |-> NewsItems[found[i]].size]
<1>1. ENVELOPE \in Nat /\ \A e \in Items : NewsItems[e].size \in Nat
  BY AgentAssumption DEF AgentConstants, Items
<1>2. \A i \in 1..n : f[i] \in Nat
  <2> TAKE i \in 1..n
  <2>1. found[i] \in Items
    OBVIOUS
  <2> QED
    BY <1>1, <2>1
<1> HIDE DEF f
<1>3. Total(n, f) \in Nat
  BY <1>2, TotalIsNat
<1> QED
  BY <1>1, <1>3 DEF Weight, f

\* What a news search returns is within the budgets it was given.
LEMMA NewsWithin ==
  ASSUME NEW plan, Listed(plan), NEW tokens \in Nat, NEW evidence \in Nat,
         NEW i \in Prepared(plan), NEW call, NEW answer \in Answers
  PROVE  Within(plan, tokens, evidence, i,
                NewsResult(call, answer, EvidenceBudget(plan, i, evidence),
                           TokenBudget(plan, i, tokens)))
<1> DEFINE most == EvidenceBudget(plan, i, evidence)
           budget == TokenBudget(plan, i, tokens)
           found == answer.rows
           n == Fitting(found, budget)
           result == NewsResult(call, answer, most, budget)
<1>1. i \in 1..Len(plan)
  BY SomeOfThePlan
<1>2. most \in Nat /\ budget \in Nat
  BY <1>1, BudgetsAreNat
<1>3. found \in Seq(Items)
  BY AgentAssumption DEF AgentConstants, Items
<1>4. n \in 0..Len(found)
  BY <1>3, FittingType
<1>5. Weight(found, n) \in Nat
  BY <1>3, <1>4, WeightIsNat
<1>6. NEWS_PAGE \in Nat
  BY AgentAssumption DEF AgentConstants
<1>7. SubSeq(found, 1, n) \in Seq(Items) /\ Len(SubSeq(found, 1, n)) = n
  BY <1>3, <1>4
<1>8. CASE \E status, code : result = Refused(call, status, code)
  BY <1>1, <1>8, RefusedWithin
<1>9. CASE /\ result = Succeeded(call, Weight(found, n), SubSeq(found, 1, n))
           /\ Len(found) <= AtMost(NEWS_PAGE, most) /\ Weight(found, n) <= budget
  <2>1. Len(found) \in Nat
    BY <1>3
  <2> HIDE DEF result, n, found, most, budget
  <2>2. result.tokens = Weight(found, n) /\ result.evidence = SubSeq(found, 1, n)
    BY <1>9 DEF Succeeded
  <2>3. n <= most
    BY <1>2, <1>4, <1>6, <1>9, <2>1 DEF AtMost
  <2>4. result.tokens \in Nat /\ result.evidence \in Seq(Items)
    BY <1>5, <1>7, <2>2
  <2>5. result.tokens <= budget /\ Len(result.evidence) <= most
    BY <1>7, <1>9, <2>2, <2>3
  <2>6. Within(plan, tokens, evidence, i, result)
    BY <2>4, <2>5 DEF Within, most, budget
  <2> QED
    BY <2>6 DEF result, most, budget
<1>10. \/ \E status, code : result = Refused(call, status, code)
       \/ /\ result = Succeeded(call, Weight(found, n), SubSeq(found, 1, n))
          /\ Len(found) <= AtMost(NEWS_PAGE, most) /\ Weight(found, n) <= budget
  <2> HIDE DEF most, budget
  <2>1. AtMost(NEWS_PAGE, most) \in Nat /\ Len(found) \in Nat
    BY <1>2, <1>3, <1>6 DEF AtMost
  <2> QED
    BY <1>2, <1>5, <2>1 DEF NewsResult
<1> QED
  BY <1>8, <1>9, <1>10

\* So is what any other tool returns.
LEMMA OtherWithin ==
  ASSUME NEW plan, Listed(plan), NEW tokens \in Nat, NEW evidence \in Nat,
         NEW i \in Prepared(plan), NEW call, NEW size \in Sizes
  PROVE  Within(plan, tokens, evidence, i,
                OtherResult(call, size, TokenBudget(plan, i, tokens)))
<1> DEFINE budget == TokenBudget(plan, i, tokens)
           result == OtherResult(call, size, budget)
<1>1. i \in 1..Len(plan)
  BY SomeOfThePlan
<1>2. budget \in Nat /\ EvidenceBudget(plan, i, evidence) \in Nat
  BY <1>1, BudgetsAreNat
<1>3. size \in Nat
  BY AgentAssumption DEF AgentConstants
<1>4. CASE size > budget
  <2>1. result = Refused(call, "FAILED", "TOOL_RESULT_BUDGET_EXCEEDED")
    BY <1>4 DEF OtherResult
  <2> QED
    BY <1>1, <2>1, RefusedWithin
<1>5. CASE ~(size > budget)
  <2>1. result.tokens = size /\ result.evidence = <<>>
    BY <1>5 DEF OtherResult, Succeeded
  <2>2. <<>> \in Seq(Items) /\ Len(<<>>) = 0
    OBVIOUS
  <2> HIDE DEF result, budget
  <2>3. size <= budget
    BY <1>2, <1>3, <1>5
  <2>4. Within(plan, tokens, evidence, i, result)
    BY <1>2, <1>3, <2>1, <2>2, <2>3 DEF Within, budget
  <2> QED
    BY <2>4 DEF result, budget
<1> QED
  BY <1>4, <1>5

\* A decoded turn lists its calls.
LEMMA CallsAreListed ==
  ASSUME NEW profile, NEW reply \in Replies
  PROVE  Listed(Decoded(profile, reply).calls)
<1> DEFINE parts == reply.parts
           some == [i \in DOMAIN parts |->
                     IF parts[i].kind = "call" THEN <<parts[i]>> ELSE <<>>]
           calls == OfKind(parts, "call")
<1>1. parts \in Seq(Parts)
  BY AgentAssumption DEF AgentConstants
<1>2. Len(parts) \in Nat /\ DOMAIN parts = 1..Len(parts)
  BY <1>1
<1>3. \A i \in 1..Len(parts) : some[i] \in Seq(Parts)
  <2> TAKE i \in 1..Len(parts)
  <2>1. parts[i] \in Parts
    BY <1>1
  <2>2. <<parts[i]>> \in Seq(Parts) /\ <<>> \in Seq(Parts)
    BY <2>1
  <2> HIDE DEF parts
  <2> QED
    BY <1>2, <2>2
<1>4. some = [i \in 1..Len(parts) |-> some[i]]
  BY <1>2
<1>5. calls = FlattenSeq(some)
  BY DEF OfKind
<1> HIDE DEF some
<1>6. calls \in Seq(Parts)
  BY <1>2, <1>3, <1>4, <1>5, FlattenLength
<1> HIDE DEF calls, parts
<1>7. Listed([i \in DOMAIN calls |-> calls[i].call])
  <2>1. DOMAIN calls = 1..Len(calls) /\ Len(calls) \in Nat
    BY <1>6
  <2> DEFINE s == [i \in 1..Len(calls) |-> calls[i].call]
  <2>2. s \in Seq({calls[i].call : i \in 1..Len(calls)})
    BY <2>1
  <2> HIDE DEF s
  <2>3. Listed(s)
    BY <2>2 DEF Listed
  <2> QED
    BY <2>1, <2>3 DEF s
<1> QED
  BY <1>7 DEF Decoded, calls, parts

-----------------------------------------------------------------------------
(* The inductive invariant: an attempt that runs a batch has divided among its  *)
(* calls exactly what it has left, and each result is within its call's share.  *)

RunFields ==
  {"step", "attempt", "turn", "calls", "rounds", "tokens", "available", "shown", "receipts",
   "contents", "models", "planned", "reply", "code", "cited", "cards"}
BatchFields ==
  {"plan", "results", "pending", "threads", "clock", "waiting", "tokens", "evidence"}
RunShaped == run = [f \in RunFields |-> run[f]]
BatchShaped == batch = [f \in BatchFields |-> batch[f]]

\* What the attempt has used, and that its loop can go on.
SpentSoFar ==
  /\ run.turn \in Nat /\ run.calls \in Nat /\ run.rounds \in Nat /\ run.tokens \in Nat
  /\ run.available \in Seq(Items)
  /\ BudgetsKept
  /\ run.step \in {"context", "model"} => run.turn < MAX_TURNS
  /\ run.step = "plan" => Listed(run.reply.calls)

\* A running batch fits into what the attempt has left.
Fits ==
  /\ Listed(batch.plan) /\ run.calls + Len(batch.plan) <= MAX_CALLS
  /\ run.rounds < MAX_ROUNDS /\ run.turn < MAX_TURNS
  /\ batch.tokens = RESULT_TOKENS - run.tokens
  /\ batch.evidence = AtLeast(0, MAX_EVIDENCE - Len(run.available))

Settled(i, result) == Within(batch.plan, batch.tokens, batch.evidence, i, result)
Divided ==
  LET n == Len(batch.plan) IN
  /\ batch.results = [i \in 1..n |-> batch.results[i]]
  /\ batch.threads = [i \in 1..n |-> batch.threads[i]]
  /\ \A i \in 1..n :
       /\ Settled(i, batch.results[i])
       /\ batch.threads[i].step = "done" => Settled(i, batch.threads[i].result)

BudgetInv ==
  RunShaped /\ BatchShaped /\ SpentSoFar /\ (run.step = "tools" => Fits /\ Divided)

\* The causes that a kept budget excludes.
Excluded == {"EVIDENCE_BUDGET_EXCEEDED", "MODEL_TURN_BUDGET_EXCEEDED"}

Goes(step, code) == run' = [run EXCEPT !.step = step, !.code = code]

\* An attempt that ends, or goes on to its next request, spends nothing.
LEMMA StepKeeps ==
  ASSUME BudgetInv, NEW step, NEW code, code \notin Excluded,
         step \notin {"plan", "tools"},
         step \in {"context", "model"} => run.turn < MAX_TURNS,
         Goes(step, code), batch' = batch
  PROVE  BudgetInv'
<1>1. RunShaped /\ BatchShaped /\ SpentSoFar
  BY DEF BudgetInv
<1>2. RunShaped'
  BY <1>1 DEF Goes, RunShaped, RunFields
<1>3. BatchShaped'
  BY <1>1 DEF BatchShaped
<1>4. /\ run'.step = step /\ run'.code = code
      /\ run'.turn = run.turn /\ run'.calls = run.calls /\ run'.rounds = run.rounds
      /\ run'.tokens = run.tokens /\ run'.available = run.available
  BY <1>1 DEF Goes, RunShaped, RunFields
<1>5. SpentSoFar'
  BY <1>1, <1>4 DEF SpentSoFar, BudgetsKept, Excluded
<1> QED
  BY <1>2, <1>3, <1>4, <1>5 DEF BudgetInv

LEMMA FailKeeps ==
  ASSUME BudgetInv, NEW code, code \notin Excluded, Fail(code), batch' = batch
  PROVE  BudgetInv'
<1>1. Goes("failed", code)
  BY DEF Fail, Goes
<1> QED
  BY <1>1, StepKeeps

LEMMA PrepareKeeps ==
  ASSUME BudgetInv, Prepare
  PROVE  BudgetInv'
<1>1. run.step = "context" /\ batch' = batch /\ RunShaped /\ SpentSoFar
  BY DEF Prepare, BudgetInv
<1>2. CASE Fail("CONTEXT_BUILD_FAILED")
  BY <1>1, <1>2, FailKeeps DEF Excluded
<1>3. CASE run' = [run EXCEPT !.step = "model"]
  <2>1. Goes("model", run.code)
    BY <1>1, <1>3 DEF Goes, RunShaped, RunFields
  <2>2. run.code \notin Excluded /\ run.turn < MAX_TURNS
    BY <1>1 DEF SpentSoFar, BudgetsKept, Excluded
  <2> QED
    BY <1>1, <2>1, <2>2, StepKeeps
<1> QED
  BY <1>2, <1>3 DEF Prepare

LEMMA ModelTurnKeeps ==
  ASSUME BudgetInv, ModelTurn
  PROVE  BudgetInv'
<1> DEFINE r == [run EXCEPT !.turn = @ + 1]
<1>1. run.step = "model" /\ batch' = batch /\ RunShaped /\ BatchShaped /\ SpentSoFar
  BY DEF ModelTurn, BudgetInv
<1>2. run.turn # MAX_TURNS
  BY <1>1, AgentAssumption DEF SpentSoFar, ValidBudgets
<1>3. CASE \E code \in Unanswered \cup {"ACTIVE_CONTEXT_BUDGET_EXCEEDED", "NO_COMPATIBLE_MODEL",
             "MODEL_TURN_INCOMPLETE", "INVALID_FUNCTION_CALL", "INVALID_MODEL_TURN"} : Fail(code)
  <2>1. PICK code : code \notin Excluded /\ Fail(code)
    BY <1>3 DEF Unanswered, Excluded
  <2> QED
    BY <1>1, <2>1, FailKeeps
<1>4. CASE \E p \in Routes(r), reply \in Replies :
             LET turn == Decoded(p, reply) IN
             run' = [r EXCEPT !.step = IF turn.calls = <<>> THEN "answer" ELSE "plan",
                       !.models = Append(@, p.id), !.planned = PlannedFirst(r), !.reply = turn]
  <2>1. PICK p \in Routes(r), reply \in Replies :
          run' = [r EXCEPT !.step = IF Decoded(p, reply).calls = <<>> THEN "answer" ELSE "plan",
                    !.models = Append(@, p.id), !.planned = PlannedFirst(r),
                    !.reply = Decoded(p, reply)]
    BY <1>4
  <2> DEFINE turn == Decoded(p, reply)
             models == Append(r.models, p.id)
             planned == PlannedFirst(r)
             step == IF turn.calls = <<>> THEN "answer" ELSE "plan"
  <2>2. Listed(turn.calls)
    BY CallsAreListed
  <2>3. run' = [r EXCEPT !.step = step, !.models = models, !.planned = planned, !.reply = turn]
    BY <2>1
  <2>4. step \in {"answer", "plan"}
    OBVIOUS
  <2> HIDE DEF turn, models, planned, step
  <2>5. run' = [run EXCEPT !.turn = @ + 1, !.step = step, !.models = models,
                  !.planned = planned, !.reply = turn]
    BY <1>1, <2>3 DEF RunShaped, RunFields
  <2> HIDE DEF r
  <2>6. RunShaped'
    BY <1>1, <2>5 DEF RunShaped, RunFields
  <2>7. /\ run'.step = step /\ run'.turn = run.turn + 1 /\ run'.reply = turn
        /\ run'.calls = run.calls /\ run'.rounds = run.rounds /\ run'.tokens = run.tokens
        /\ run'.available = run.available /\ run'.code = run.code
    BY <1>1, <2>5 DEF RunShaped, RunFields
  <2>8. SpentSoFar'
    BY <1>1, <2>2, <2>4, <2>7 DEF SpentSoFar, BudgetsKept
  <2> QED
    BY <1>1, <2>4, <2>6, <2>7, <2>8 DEF BudgetInv, BatchShaped
<1> QED
  <2>1. \/ \E code \in {"ACTIVE_CONTEXT_BUDGET_EXCEEDED", "NO_COMPATIBLE_MODEL"} : Fail(code)
        \/ Request(r)
    BY <1>2 DEF ModelTurn
  <2>2. CASE Request(r)
    <3>1. CASE \E code \in Unanswered : Fail(code)
      BY <1>3, <3>1
    <3>2. CASE \E p \in Routes(r), reply \in Replies :
                 LET turn == Decoded(p, reply) IN
                 IF turn.error # "" THEN Fail(turn.error)
                 ELSE run' = [r EXCEPT !.step = IF turn.calls = <<>> THEN "answer" ELSE "plan",
                        !.models = Append(@, p.id), !.planned = PlannedFirst(r), !.reply = turn]
      <4>1. PICK p \in Routes(r), reply \in Replies :
              LET turn == Decoded(p, reply) IN
              IF turn.error # "" THEN Fail(turn.error)
              ELSE run' = [r EXCEPT !.step = IF turn.calls = <<>> THEN "answer" ELSE "plan",
                     !.models = Append(@, p.id), !.planned = PlannedFirst(r), !.reply = turn]
        BY <3>2
      <4>2. CASE Decoded(p, reply).error # ""
        <5>1. Decoded(p, reply).error \in
                {"MODEL_TURN_INCOMPLETE", "INVALID_FUNCTION_CALL", "INVALID_MODEL_TURN"}
          BY <4>2 DEF Decoded
        <5>2. Fail(Decoded(p, reply).error)
          BY <4>1, <4>2
        <5> QED
          BY <1>3, <5>1, <5>2
      <4>3. CASE Decoded(p, reply).error = ""
        BY <1>4, <4>1, <4>3
      <4> QED
        BY <4>2, <4>3
    <3> QED
      BY <2>2, <3>1, <3>2 DEF Request
  <2> QED
    BY <1>3, <2>1, <2>2

LEMMA FinalAnswerKeeps ==
  ASSUME BudgetInv, FinalAnswer
  PROVE  BudgetInv'
<1>1. run.step = "answer" /\ batch' = batch /\ RunShaped /\ BatchShaped /\ SpentSoFar
  BY DEF FinalAnswer, BudgetInv
<1>2. CASE \E code \in {"EMPTY_FINAL_ANSWER", "INVALID_EVIDENCE_ANSWER",
                         "OUTPUT_BUDGET_EXCEEDED"} : Fail(code)
  BY <1>1, <1>2, FailKeeps DEF Excluded
<1>3. CASE \E cited, cards :
             run' = [run EXCEPT !.step = "answered", !.cited = cited, !.cards = cards]
  <2>1. PICK cited, cards :
          run' = [run EXCEPT !.step = "answered", !.cited = cited, !.cards = cards]
    BY <1>3
  <2>2. RunShaped'
    BY <1>1, <2>1 DEF RunShaped, RunFields
  <2>3. /\ run'.step = "answered" /\ run'.code = run.code
        /\ run'.turn = run.turn /\ run'.calls = run.calls /\ run'.rounds = run.rounds
        /\ run'.tokens = run.tokens /\ run'.available = run.available
    BY <1>1, <2>1 DEF RunShaped, RunFields
  <2>4. SpentSoFar'
    BY <1>1, <2>3 DEF SpentSoFar, BudgetsKept
  <2> QED
    BY <1>1, <2>2, <2>3, <2>4 DEF BudgetInv, BatchShaped
<1> QED
  BY <1>2, <1>3 DEF FinalAnswer

\* A new batch: its calls are within the calls that remain.
LEMMA PlanKeeps ==
  ASSUME BudgetInv, Plan
  PROVE  BudgetInv'
<1> DEFINE plan == run.reply.calls
           n == Len(plan)
           results == [i \in DOMAIN plan |-> Refused(plan[i], "REJECTED", Refusal(plan[i]))]
           threads == [i \in DOMAIN plan |->
                         [step |-> "new", result |-> Refused(plan[i], "", "")]]
           quota == Quota
<1>1. run.step = "plan" /\ RunShaped /\ BatchShaped /\ SpentSoFar
  BY DEF Plan, BudgetInv
<1>2. CASE batch' = batch /\ \E code \in {"TOOL_CALL_OUTSIDE_BUDGET", "TOOL_PLAN_BUDGET_EXCEEDED",
             "TOOL_RESULT_BUDGET_EXCEEDED", "INVALID_TOOL_PLAN"} : Fail(code)
  BY <1>2, FailKeeps DEF Excluded
<1>3. CASE /\ ToolsAllowed(run) /\ ~(n > Planned(run)) /\ ~(quota.tokens < FLOOR)
           /\ run' = [run EXCEPT !.step = "tools"]
           /\ batch' = [NoBatch EXCEPT !.plan = plan, !.pending = Prepared(plan),
                !.tokens = quota.tokens, !.evidence = quota.evidence,
                !.results = results, !.threads = threads]
  <2>1. Listed(plan) /\ n \in Nat /\ DOMAIN plan = 1..n
    BY <1>1 DEF SpentSoFar, Listed
  <2>2. /\ MAX_CALLS \in Nat /\ MAX_PARALLEL \in Nat /\ RESULT_TOKENS \in Nat
        /\ MAX_EVIDENCE \in Nat /\ MAX_TURNS \in Nat
    BY AgentAssumption DEF ValidBudgets, FLOOR
  <2>3. /\ run.turn \in Nat /\ run.calls \in Nat /\ run.rounds \in Nat /\ run.tokens \in Nat
        /\ run.available \in Seq(Items) /\ Len(run.available) \in Nat
        /\ run.tokens <= RESULT_TOKENS
    BY <1>1 DEF SpentSoFar, BudgetsKept
  <2>4. run.turn < MAX_TURNS /\ run.rounds < MAX_ROUNDS
    BY <1>3 DEF ToolsAllowed
  <2>5. run.calls + n <= MAX_CALLS
    <3>1. Planned(run) \in Int /\ Planned(run) <= MAX_CALLS - run.calls
      <4> DEFINE rest == AtMost(MAX_PARALLEL, Cardinality(Authorized))
      <4>1. Planned(run) = AtMost(MAX_CALLS - run.calls, rest)
        BY <1>3 DEF Planned, Remaining
      <4>2. IsFiniteSet(Authorized)
        <5>1. Authorized \subseteq DOMAIN Tools /\ IsFiniteSet(DOMAIN Tools)
          BY AgentAssumption DEF ValidRegistry, Authorized
        <5> QED
          BY <5>1, FS_Subset
      <4>3. Cardinality(Authorized) \in Nat
        BY <4>2, FS_CardinalityType
      <4>4. rest \in Nat
        BY <2>2, <4>3 DEF AtMost
      <4> HIDE DEF rest
      <4> QED
        BY <2>2, <2>3, <4>1, <4>4 DEF AtMost
    <3> QED
      BY <1>3, <2>1, <2>2, <2>3, <3>1
  <2>6. quota.tokens = RESULT_TOKENS - run.tokens
        /\ quota.evidence = AtLeast(0, MAX_EVIDENCE - Len(run.available))
    BY DEF Quota
  <2>7. quota.tokens \in Nat /\ quota.evidence \in Nat
    BY <2>2, <2>3, <2>6 DEF AtLeast
  <2>8. /\ results = [i \in 1..n |-> results[i]] /\ threads = [i \in 1..n |-> threads[i]]
        /\ \A i \in 1..n : threads[i].step = "new"
    BY <2>1
  <2>9. \A i \in 1..n : Within(plan, quota.tokens, quota.evidence, i, results[i])
    BY <2>1, <2>7, RefusedWithin
  <2> HIDE DEF plan, n, results, threads, quota
  <2>10. BatchShaped'
    BY <1>3 DEF NoBatch, BatchShaped, BatchFields
  <2>11. /\ batch'.plan = plan /\ batch'.tokens = quota.tokens /\ batch'.evidence = quota.evidence
         /\ batch'.results = results /\ batch'.threads = threads
    BY <1>3 DEF NoBatch
  <2>12. RunShaped'
    BY <1>1, <1>3 DEF RunShaped, RunFields
  <2>13. /\ run'.step = "tools" /\ run'.code = run.code
         /\ run'.turn = run.turn /\ run'.calls = run.calls /\ run'.rounds = run.rounds
         /\ run'.tokens = run.tokens /\ run'.available = run.available
    BY <1>1, <1>3 DEF RunShaped, RunFields
  <2>14. SpentSoFar'
    BY <1>1, <2>13 DEF SpentSoFar, BudgetsKept
  <2>15. Fits'
    BY <2>1, <2>4, <2>5, <2>6, <2>11, <2>13 DEF Fits, n
  <2>16. Divided'
    BY <2>8, <2>9, <2>11 DEF Divided, Settled, n
  <2> QED
    BY <2>10, <2>12, <2>14, <2>15, <2>16 DEF BudgetInv
<1> QED
  BY <1>2, <1>3 DEF Plan

\* The budgets of a batch that fits are naturals.
LEMMA BatchIsBounded ==
  ASSUME Fits, SpentSoFar
  PROVE  /\ Listed(batch.plan) /\ Len(batch.plan) \in Nat
         /\ batch.tokens \in Nat /\ batch.evidence \in Nat
<1>1. RESULT_TOKENS \in Nat /\ MAX_EVIDENCE \in Nat
  BY AgentAssumption DEF ValidBudgets, FLOOR
<1>2. run.tokens \in Nat /\ run.tokens <= RESULT_TOKENS /\ Len(run.available) \in Nat
  BY DEF SpentSoFar, BudgetsKept
<1>3. RESULT_TOKENS - run.tokens \in Nat
  BY <1>1, <1>2
<1>4. AtLeast(0, MAX_EVIDENCE - Len(run.available)) \in Nat
  BY <1>1, <1>2 DEF AtLeast
<1> QED
  BY <1>3, <1>4 DEF Fits, Listed

\* A step of a running batch that keeps its plan and its budgets.
LEMMA BatchKeeps ==
  ASSUME BudgetInv, run' = run, BatchShaped',
         batch'.plan = batch.plan, batch'.tokens = batch.tokens,
         batch'.evidence = batch.evidence,
         run.step = "tools" =>
           /\ batch'.results = [i \in 1..Len(batch.plan) |-> batch'.results[i]]
           /\ batch'.threads = [i \in 1..Len(batch.plan) |-> batch'.threads[i]]
           /\ \A i \in 1..Len(batch.plan) :
                /\ Settled(i, batch'.results[i])
                /\ batch'.threads[i].step = "done" => Settled(i, batch'.threads[i].result)
  PROVE  BudgetInv'
<1>1. RunShaped /\ SpentSoFar /\ (run.step = "tools" => Fits /\ Divided)
  BY DEF BudgetInv
<1>2. RunShaped' /\ SpentSoFar'
  BY <1>1 DEF RunShaped, SpentSoFar, BudgetsKept
<1>3. run'.step = "tools" => Fits' /\ Divided'
  BY <1>1 DEF Fits, Divided, Settled
<1> QED
  BY <1>2, <1>3 DEF BudgetInv

\* A thread goes on; what it ends with is within its share.
LEMMA ThreadKeeps ==
  ASSUME BudgetInv, NEW i, Thread(i)
  PROVE  BudgetInv'
<1>1. /\ run' = run /\ BatchShaped /\ SpentSoFar /\ i \in Prepared(batch.plan)
      /\ run.step = "tools" => Fits /\ Divided
  BY DEF Thread, BudgetInv
<1> DEFINE Kept(result) ==
             run.step = "tools" => Settled(i, result)
<1>2. \E thread : /\ batch' = [batch EXCEPT !.threads[i] = thread]
                  /\ thread.step = "done" => Kept(thread.result)
  <2>1. ASSUME NEW status, NEW code PROVE Kept(Refused(Call(i), status, code))
    <3> SUFFICES ASSUME run.step = "tools" PROVE Settled(i, Refused(Call(i), status, code))
      OBVIOUS
    <3>1. Fits
      BY <1>1
    <3> QED
      BY <1>1, <3>1, BatchIsBounded, SomeOfThePlan, RefusedWithin DEF Settled
  <2>2. ASSUME NEW result, Finish(i, result), Kept(result)
        PROVE  \E thread : /\ batch' = [batch EXCEPT !.threads[i] = thread]
                           /\ thread.step = "done" => Kept(thread.result)
    <3> DEFINE thread == [step |-> "done", result |-> result]
    <3>1. thread.result = result
      OBVIOUS
    <3>2. batch' = [batch EXCEPT !.threads[i] = thread]
      BY <2>2 DEF Finish
    <3> HIDE DEF thread, Kept
    <3> QED
      BY <2>2, <3>1, <3>2
  <2>3. CASE Begin(i)
    <3>1. CASE \E status, code : Finish(i, Refused(Call(i), status, code))
      <4> HIDE DEF Kept
      <4> QED
        BY <2>1, <2>2, <3>1
    <3>2. CASE batch' = [batch EXCEPT !.threads[i] = [step |-> "calling", result |-> @.result]]
      <4> DEFINE thread == [step |-> "calling", result |-> batch.threads[i].result]
      <4>1. thread.step # "done" /\ batch' = [batch EXCEPT !.threads[i] = thread]
        BY <3>2
      <4> QED
        BY <4>1
    <3> QED
      BY <2>3, <3>1, <3>2 DEF Begin
  <2>4. CASE End(i)
    <3>1. CASE Finish(i, Refused(Call(i), "FAILED", "TOOL_EXECUTION_FAILED"))
      <4> HIDE DEF Kept
      <4> QED
        BY <2>1, <2>2, <3>1
    <3>2. ASSUME NEW a \in Answers,
                 Finish(i, NewsResult(Call(i), a, Evidence(i), Tokens(i)))
          PROVE  \E thread : /\ batch' = [batch EXCEPT !.threads[i] = thread]
                             /\ thread.step = "done" => Kept(thread.result)
      <4>1. Kept(NewsResult(Call(i), a, Evidence(i), Tokens(i)))
        <5> SUFFICES ASSUME run.step = "tools"
                     PROVE  Settled(i, NewsResult(Call(i), a, Evidence(i), Tokens(i)))
          OBVIOUS
        <5>1. Fits
          BY <1>1
        <5> QED
          BY <1>1, <5>1, BatchIsBounded, NewsWithin DEF Settled, Evidence, Tokens
      <4> HIDE DEF Kept
      <4> QED
        BY <2>2, <3>2, <4>1
    <3>3. ASSUME NEW size \in Sizes, Finish(i, OtherResult(Call(i), size, Tokens(i)))
          PROVE  \E thread : /\ batch' = [batch EXCEPT !.threads[i] = thread]
                             /\ thread.step = "done" => Kept(thread.result)
      <4>1. Kept(OtherResult(Call(i), size, Tokens(i)))
        <5> SUFFICES ASSUME run.step = "tools"
                     PROVE  Settled(i, OtherResult(Call(i), size, Tokens(i)))
          OBVIOUS
        <5>1. Fits
          BY <1>1
        <5> QED
          BY <1>1, <5>1, BatchIsBounded, OtherWithin DEF Settled, Tokens
      <4> HIDE DEF Kept
      <4> QED
        BY <2>2, <3>3, <4>1
    <3> QED
      BY <2>4, <3>1, <3>2, <3>3 DEF End
  <2> QED
    BY <2>3, <2>4 DEF Thread
<1>3. PICK thread : /\ batch' = [batch EXCEPT !.threads[i] = thread]
                    /\ thread.step = "done" => Kept(thread.result)
  BY <1>2
<1>4. BatchShaped'
  BY <1>1, <1>3 DEF BatchShaped, BatchFields
<1>5. /\ batch'.plan = batch.plan /\ batch'.tokens = batch.tokens
      /\ batch'.evidence = batch.evidence /\ batch'.results = batch.results
      /\ batch'.threads = [batch.threads EXCEPT ![i] = thread]
  BY <1>1, <1>3 DEF BatchShaped, BatchFields
<1>6. ASSUME run.step = "tools"
      PROVE  /\ batch'.results = [k \in 1..Len(batch.plan) |-> batch'.results[k]]
             /\ batch'.threads = [k \in 1..Len(batch.plan) |-> batch'.threads[k]]
             /\ \A k \in 1..Len(batch.plan) :
                  /\ Settled(k, batch'.results[k])
                  /\ batch'.threads[k].step = "done" => Settled(k, batch'.threads[k].result)
  <2> DEFINE n == Len(batch.plan)
  <2>1. /\ Divided
        /\ thread.step = "done" => Settled(i, thread.result)
    BY <1>1, <1>3, <1>6
  <2> HIDE DEF Kept, n
  <2>2. batch'.threads = [k \in 1..n |-> IF k = i THEN thread ELSE batch.threads[k]]
    BY <1>5, <2>1 DEF Divided, n
  <2>3. \A k \in 1..n : /\ Settled(k, batch'.results[k])
                        /\ batch'.threads[k].step = "done" => Settled(k, batch'.threads[k].result)
    <3> TAKE k \in 1..n
    <3>1. /\ Settled(k, batch.results[k])
          /\ batch.threads[k].step = "done" => Settled(k, batch.threads[k].result)
      BY <2>1 DEF Divided, n
    <3>2. CASE k = i
      BY <1>5, <2>1, <2>2, <3>1, <3>2
    <3>3. CASE k # i
      BY <1>5, <2>2, <3>1, <3>3
    <3> QED
      BY <3>2, <3>3
  <2>4. /\ batch'.results = [k \in 1..n |-> batch'.results[k]]
        /\ batch'.threads = [k \in 1..n |-> batch'.threads[k]]
    BY <1>5, <2>1, <2>2 DEF Divided, n
  <2> QED
    BY <2>3, <2>4 DEF n
<1> QED
  BY <1>1, <1>4, <1>5, <1>6, BatchKeeps

\* What is done is recorded as its thread left it.
LEMMA WakeKeeps ==
  ASSUME BudgetInv, Wake
  PROVE  BudgetInv'
<1> DEFINE n == Len(batch.plan)
           results == [i \in DOMAIN batch.results |->
                         IF i \in Done THEN batch.threads[i].result ELSE batch.results[i]]
           pending == batch.pending \ Done
<1>1. run' = run /\ BatchShaped /\ Divided
  BY DEF Wake, BudgetInv
<1>2. batch' = [batch EXCEPT !.pending = pending, !.waiting = FALSE, !.results = results]
  BY DEF Wake
<1>3. DOMAIN batch.results = 1..n
  BY <1>1 DEF Divided
<1>4. results = [i \in 1..n |-> results[i]]
  BY <1>3
<1>5. \A i \in 1..n : Settled(i, results[i])
  BY <1>1, <1>3 DEF Divided, Done
<1> HIDE DEF n, results, pending
<1>6. BatchShaped'
  BY <1>1, <1>2 DEF BatchShaped, BatchFields
<1>7. /\ batch'.plan = batch.plan /\ batch'.tokens = batch.tokens
      /\ batch'.evidence = batch.evidence /\ batch'.results = results
      /\ batch'.threads = batch.threads
  BY <1>1, <1>2 DEF BatchShaped, BatchFields
<1>8. /\ batch'.threads = [i \in 1..n |-> batch'.threads[i]]
      /\ \A i \in 1..n :
           batch'.threads[i].step = "done" => Settled(i, batch'.threads[i].result)
  BY <1>1, <1>7 DEF Divided, n
<1> QED
  BY <1>1, <1>4, <1>5, <1>6, <1>7, <1>8, BatchKeeps DEF n

\* What is late brings nothing.
LEMMA ExpireKeeps ==
  ASSUME BudgetInv, Expire
  PROVE  BudgetInv'
<1> DEFINE n == Len(batch.plan)
           late == {i \in batch.pending : batch.clock >= Deadline(i)}
           results == [i \in DOMAIN batch.results |->
                         IF i \in late THEN Refused(Call(i), "TIMED_OUT", "TOOL_TIMEOUT")
                         ELSE batch.results[i]]
           pending == batch.pending \ late
<1>1. /\ run' = run /\ BatchShaped /\ SpentSoFar
      /\ run.step = "tools" => Fits /\ Divided
  BY DEF Expire, BudgetInv
<1>2. batch' = [batch EXCEPT !.pending = pending, !.waiting = TRUE, !.results = results]
  BY DEF Expire
<1>3. ASSUME run.step = "tools"
      PROVE  results = [i \in 1..n |-> results[i]] /\ \A i \in 1..n : Settled(i, results[i])
  <2>1. DOMAIN batch.results = 1..n
    BY <1>1, <1>3 DEF Divided
  <2> HIDE DEF late
  <2>2. ASSUME NEW i \in 1..n PROVE Settled(i, results[i])
    <3>1. Settled(i, batch.results[i])
      BY <1>1, <1>3 DEF Divided
    <3>2. Settled(i, Refused(Call(i), "TIMED_OUT", "TOOL_TIMEOUT"))
      BY <1>1, <1>3, BatchIsBounded, RefusedWithin DEF Settled
    <3> QED
      BY <2>1, <3>1, <3>2
  <2> QED
    BY <2>1, <2>2
<1> HIDE DEF n, results, pending, late
<1>4. BatchShaped'
  BY <1>1, <1>2 DEF BatchShaped, BatchFields
<1>5. /\ batch'.plan = batch.plan /\ batch'.tokens = batch.tokens
      /\ batch'.evidence = batch.evidence /\ batch'.results = results
      /\ batch'.threads = batch.threads
  BY <1>1, <1>2 DEF BatchShaped, BatchFields
<1>6. ASSUME run.step = "tools"
      PROVE  /\ batch'.threads = [i \in 1..n |-> batch'.threads[i]]
             /\ \A i \in 1..n :
                  batch'.threads[i].step = "done" => Settled(i, batch'.threads[i].result)
  BY <1>1, <1>5, <1>6 DEF Divided, n
<1> QED
  BY <1>1, <1>3, <1>4, <1>5, <1>6, BatchKeeps DEF n

LEMMA TickKeeps ==
  ASSUME BudgetInv, Tick
  PROVE  BudgetInv'
<1>1. run' = run /\ BatchShaped /\ Divided
  BY DEF Tick, BudgetInv
<1>2. batch' = [batch EXCEPT !.clock = @ + 1]
  BY DEF Tick
<1>3. BatchShaped'
  BY <1>1, <1>2 DEF BatchShaped, BatchFields
<1>4. /\ batch'.plan = batch.plan /\ batch'.tokens = batch.tokens
      /\ batch'.evidence = batch.evidence /\ batch'.results = batch.results
      /\ batch'.threads = batch.threads
  BY <1>1, <1>2 DEF BatchShaped, BatchFields
<1> QED
  BY <1>1, <1>3, <1>4, BatchKeeps DEF Divided

LEMMA LenIsNat ==
  ASSUME NEW S, NEW s \in Seq(S)
  PROVE  Len(s) \in Nat
OBVIOUS

LEMMA WithinLeft ==
  ASSUME NEW used \in Nat, NEW more \in Nat, NEW all \in Nat, more <= all - used
  PROVE  used + more <= all
OBVIOUS

\* A settled batch adds no more than the attempt had left.
LEMMA SettleKeeps ==
  ASSUME BudgetInv, Settle
  PROVE  BudgetInv'
<1> DEFINE results == batch.results
           after == Absorbed(results)
           joined == run.available \o Found(results)
           available == Distinct(joined)
<1>1. /\ run.step = "tools" /\ batch' = batch
      /\ RunShaped /\ BatchShaped /\ SpentSoFar /\ Fits /\ Divided
  BY DEF Settle, BudgetInv
<1>2. /\ Listed(batch.plan) /\ Len(batch.plan) \in Nat
      /\ batch.tokens \in Nat /\ batch.evidence \in Nat
  BY <1>1, BatchIsBounded
<1>3. /\ Len(results) = Len(batch.plan)
      /\ SpentOf(results) \in Nat /\ SpentOf(results) <= batch.tokens
      /\ Found(results) \in Seq(Items) /\ Len(Found(results)) <= batch.evidence
  BY <1>1, <1>2, ResultsFit DEF Divided, Settled
<1>4. /\ run.calls \in Nat /\ run.rounds \in Nat /\ run.tokens \in Nat /\ run.turn \in Nat
      /\ run.available \in Seq(Items) /\ Len(run.available) \in Nat
      /\ Len(run.available) <= MAX_EVIDENCE /\ run.code \notin Excluded
  BY <1>1 DEF SpentSoFar, BudgetsKept, Excluded
<1>5. /\ RESULT_TOKENS \in Nat /\ MAX_EVIDENCE \in Nat /\ MAX_TURNS \in Nat /\ MAX_CALLS \in Nat
  BY AgentAssumption DEF ValidBudgets, FLOOR
<1>6. available \in Seq(Items) /\ Len(available) <= MAX_EVIDENCE
  <2>1. joined \in Seq(Items) /\ Len(joined) = Len(run.available) + Len(Found(results))
    BY <1>3, <1>4, JoinedLength
  <2>2. Len(joined) <= MAX_EVIDENCE
    <3>1. Len(Found(results)) \in Nat
      BY <1>3
    <3>2. MAX_EVIDENCE - Len(run.available) \in Nat
      BY <1>4, <1>5
    <3>3. batch.evidence = AtLeast(0, MAX_EVIDENCE - Len(run.available))
      BY <1>1 DEF Fits
    <3>4. batch.evidence = MAX_EVIDENCE - Len(run.available)
      BY <3>2, <3>3 DEF AtLeast
    <3>5. Len(Found(results)) <= MAX_EVIDENCE - Len(run.available)
      BY <1>3, <3>4
    <3> QED
      BY <1>4, <1>5, <2>1, <3>1, <3>5, WithinLeft
  <2> HIDE DEF joined
  <2>3. Distinct(joined) \in Seq(Items) /\ Len(Distinct(joined)) <= Len(joined)
    BY <2>1, DistinctLength
  <2>4. Len(Distinct(joined)) \in Nat /\ Len(joined) \in Nat
    BY <2>1, <2>3, LenIsNat
  <2>5. Len(Distinct(joined)) <= MAX_EVIDENCE
    BY <1>5, <2>2, <2>3, <2>4
  <2> QED
    BY <2>3, <2>5 DEF joined
<1>7. /\ run.tokens + SpentOf(results) <= RESULT_TOKENS
      /\ run.calls + Len(results) <= MAX_CALLS
      /\ run.rounds + 1 <= MAX_ROUNDS
  <2>1. /\ run.calls + Len(batch.plan) <= MAX_CALLS /\ run.rounds < 2
        /\ batch.tokens = RESULT_TOKENS - run.tokens
    BY <1>1 DEF Fits, MAX_ROUNDS
  <2>2. SpentOf(results) <= RESULT_TOKENS - run.tokens
    BY <1>3, <2>1
  <2>3. run.tokens + SpentOf(results) <= RESULT_TOKENS
    BY <1>3, <1>4, <1>5, <2>2, WithinLeft
  <2>4. run.rounds + 1 <= 2
    BY <1>4, <2>1
  <2> QED
    BY <1>3, <2>1, <2>3, <2>4 DEF MAX_ROUNDS
<1>8. /\ after = [f \in RunFields |-> after[f]]
      /\ after.step = "model" /\ after.code = run.code /\ after.turn = run.turn
      /\ after.calls = run.calls + Len(results) /\ after.rounds = run.rounds + 1
      /\ after.tokens = run.tokens + SpentOf(results) /\ after.available = available
  <2> DEFINE shown == Distinct(run.shown \o Found(SelectSeq(results, IsShown)))
             receipts == Append(run.receipts, results)
             contents == run.contents \o << [role |-> "model", parts |-> run.reply.content],
                                            Responses(batch.plan, results) >>
             spent == SpentOf(results)
             calls == Len(results)
  <2> HIDE DEF shown, receipts, contents, spent, calls, available
  <2>1. after = [run EXCEPT !.step = "model", !.calls = @ + calls, !.rounds = @ + 1,
                  !.tokens = @ + spent, !.available = available, !.shown = shown,
                  !.receipts = receipts, !.contents = contents]
    BY <1>1 DEF Absorbed, RunShaped, RunFields, shown, receipts, contents, spent, calls, available
  <2> HIDE DEF after
  <2> QED
    BY <1>1, <2>1 DEF RunShaped, RunFields, calls, spent
<1> HIDE DEF after, available
<1>9. ~(after.tokens > RESULT_TOKENS) /\ ~(Len(after.available) > MAX_EVIDENCE)
  <2>1. Len(available) \in Nat /\ after.tokens \in Nat
    BY <1>3, <1>4, <1>6, <1>8
  <2> QED
    BY <1>5, <1>6, <1>7, <1>8, <2>1
<1>10. CASE run' = after
  <2>1. RunShaped'
    BY <1>8, <1>10 DEF RunShaped
  <2>2. SpentSoFar'
    <3>1. run.turn < MAX_TURNS
      BY <1>1 DEF Fits
    <3>2. /\ run'.calls \in Nat /\ run'.rounds \in Nat /\ run'.tokens \in Nat
      <4>1. /\ run.calls + Len(results) \in Nat /\ run.rounds + 1 \in Nat
            /\ run.tokens + SpentOf(results) \in Nat
        <5> DEFINE calls == Len(results)
                   spent == SpentOf(results)
        <5>1. calls \in Nat /\ spent \in Nat
          BY <1>2, <1>3
        <5> HIDE DEF calls, spent
        <5>2. run.calls + calls \in Nat /\ run.rounds + 1 \in Nat /\ run.tokens + spent \in Nat
          BY <1>4, <5>1
        <5> QED
          BY <5>2 DEF calls, spent
      <4> QED
        BY <1>8, <1>10, <4>1
    <3> QED
      BY <1>4, <1>6, <1>7, <1>8, <1>10, <3>1, <3>2 DEF SpentSoFar, BudgetsKept, Excluded
  <2> QED
    BY <1>1, <1>8, <1>10, <2>1, <2>2 DEF BudgetInv, BatchShaped
<1>11. CASE \E code \in {"CHAT_MACHINE_WRITE_REJECTED", "REMOTE_DEPENDENCY_UNAVAILABLE"} :
              Fail(code)
  BY <1>1, <1>11, FailKeeps DEF Excluded
<1> QED
  BY <1>9, <1>10, <1>11 DEF Settle, after

LEMMA BeginsWithin ==
  ASSUME NEW attempt
  PROVE  LET begun == Begun(attempt) IN
         /\ begun = [f \in RunFields |-> begun[f]]
         /\ begun.step = "context" /\ begun.code = "" /\ begun.turn = 0 /\ begun.calls = 0
         /\ begun.rounds = 0 /\ begun.tokens = 0 /\ begun.available = <<>>
<1> DEFINE contents == << [role |-> "user", parts |-> <<>>] >>
           reply == NoReply
<1> HIDE DEF contents, reply
<1> QED
  BY DEF Begun, RunFields, contents, reply

\* An attempt begins with its budgets whole.
LEMMA BegunKeeps ==
  ASSUME NEW attempt, run' = Begun(attempt), batch' = NoBatch
  PROVE  BudgetInv'
<1> DEFINE begun == Begun(attempt)
<1>1. /\ begun = [f \in RunFields |-> begun[f]]
      /\ begun.step = "context" /\ begun.code = "" /\ begun.turn = 0 /\ begun.calls = 0
      /\ begun.rounds = 0 /\ begun.tokens = 0 /\ begun.available = <<>>
  BY BeginsWithin
<1> HIDE DEF begun
<1>2. RunShaped' /\ run'.step = "context"
  BY <1>1 DEF RunShaped, begun
<1>3. BatchShaped'
  BY DEF BatchShaped, NoBatch, BatchFields
<1>4. /\ MAX_CALLS \in Nat /\ RESULT_TOKENS \in Nat /\ MAX_EVIDENCE \in Nat
      /\ MAX_TURNS \in Nat \ {0}
  BY AgentAssumption DEF ValidBudgets, FLOOR
<1>5. <<>> \in Seq(Items) /\ Len(<<>>) = 0
  OBVIOUS
<1>6. SpentSoFar'
  <2>1. /\ run'.step = "context" /\ run'.code = "" /\ run'.turn = 0 /\ run'.calls = 0
        /\ run'.rounds = 0 /\ run'.tokens = 0 /\ run'.available = <<>>
    BY <1>1 DEF begun
  <2>2. run'.available \in Seq(Items) /\ Len(run'.available) = 0
    BY <1>5, <2>1
  <2>3. 0 <= MAX_CALLS /\ 0 <= MAX_ROUNDS /\ 0 <= RESULT_TOKENS /\ 0 <= MAX_EVIDENCE
        /\ 0 < MAX_TURNS
    BY <1>4 DEF MAX_ROUNDS
  <2>4. BudgetsKept'
    BY <2>1, <2>2, <2>3 DEF BudgetsKept
  <2>5. run'.turn = 0 /\ run'.calls = 0 /\ run'.rounds = 0 /\ run'.tokens = 0
    BY <2>1
  <2>6. run'.step # "plan"
    BY <2>1
  <2>7. /\ run'.turn \in Nat /\ run'.calls \in Nat /\ run'.rounds \in Nat
        /\ run'.tokens \in Nat /\ run'.turn < MAX_TURNS
    BY <1>4, <2>5
  <2> QED
    BY <2>2, <2>4, <2>5, <2>6, <2>7 DEF SpentSoFar
<1> QED
  BY <1>2, <1>3, <1>6 DEF BudgetInv

LEMMA GiveBackKeeps ==
  ASSUME BudgetInv, GiveBack
  PROVE  BudgetInv'
<1>1. batch' = NoBatch /\ RunShaped /\ SpentSoFar
  BY DEF GiveBack, BudgetInv
<1>2. CASE run' = Begun(run.attempt + 1)
  BY <1>1, <1>2, BegunKeeps
<1>3. CASE run' = [run EXCEPT !.step = "over"]
  <2>1. RunShaped'
    BY <1>1, <1>3 DEF RunShaped, RunFields
  <2>2. /\ run'.step = "over" /\ run'.code = run.code
        /\ run'.turn = run.turn /\ run'.calls = run.calls /\ run'.rounds = run.rounds
        /\ run'.tokens = run.tokens /\ run'.available = run.available
    BY <1>1, <1>3 DEF RunShaped, RunFields
  <2>3. SpentSoFar'
    BY <1>1, <2>2 DEF SpentSoFar, BudgetsKept
  <2>4. BatchShaped'
    BY <1>1 DEF BatchShaped, NoBatch, BatchFields
  <2> QED
    BY <2>1, <2>2, <2>3, <2>4 DEF BudgetInv
<1> QED
  BY <1>2, <1>3 DEF GiveBack

\* AgentInit => BudgetInv.
LEMMA AgentInitBudgets ==
  ASSUME AgentInit
  PROVE  BudgetInv
<1> DEFINE begun == Begun(1)
<1>1. /\ begun = [f \in RunFields |-> begun[f]]
      /\ begun.step = "context" /\ begun.code = "" /\ begun.turn = 0 /\ begun.calls = 0
      /\ begun.rounds = 0 /\ begun.tokens = 0 /\ begun.available = <<>>
  BY BeginsWithin
<1>2. run = begun /\ batch = NoBatch
  BY DEF AgentInit
<1> HIDE DEF begun
<1>3. RunShaped
  BY <1>1, <1>2 DEF RunShaped
<1>4. BatchShaped
  BY <1>2 DEF BatchShaped, NoBatch, BatchFields
<1>5. /\ MAX_CALLS \in Nat /\ RESULT_TOKENS \in Nat /\ MAX_EVIDENCE \in Nat
      /\ MAX_TURNS \in Nat \ {0}
  BY AgentAssumption DEF ValidBudgets, FLOOR
<1>6. <<>> \in Seq(Items) /\ Len(<<>>) = 0
  OBVIOUS
<1>7. SpentSoFar
  <2>1. run.available \in Seq(Items) /\ Len(run.available) = 0
    BY <1>1, <1>2, <1>6
  <2>2. 0 <= MAX_CALLS /\ 0 <= MAX_ROUNDS /\ 0 <= RESULT_TOKENS /\ 0 <= MAX_EVIDENCE
        /\ 0 < MAX_TURNS
    BY <1>5 DEF MAX_ROUNDS
  <2>3. BudgetsKept
    BY <1>1, <1>2, <2>1, <2>2 DEF BudgetsKept
  <2>4. run.turn = 0 /\ run.calls = 0 /\ run.rounds = 0 /\ run.tokens = 0 /\ run.step # "plan"
    BY <1>1, <1>2
  <2>5. /\ run.turn \in Nat /\ run.calls \in Nat /\ run.rounds \in Nat
        /\ run.tokens \in Nat /\ run.turn < MAX_TURNS
    BY <1>5, <2>4
  <2> QED
    BY <2>1, <2>3, <2>4, <2>5 DEF SpentSoFar
<1> QED
  BY <1>1, <1>2, <1>3, <1>4, <1>7 DEF BudgetInv

\* Every step keeps the invariant.
LEMMA AgentStepBudgets ==
  ASSUME BudgetInv, [AgentNext]_agentVars
  PROVE  BudgetInv'
<1>1. CASE AgentNext
  <2>1. CASE \E i \in DOMAIN batch.threads : Thread(i)
    BY <2>1, ThreadKeeps
  <2> QED
    BY <1>1, <2>1, PrepareKeeps, ModelTurnKeeps, FinalAnswerKeeps, PlanKeeps, WakeKeeps,
       ExpireKeeps, TickKeeps, SettleKeeps, GiveBackKeeps DEF AgentNext
<1>2. CASE UNCHANGED agentVars
  <2>1. run' = run /\ batch' = batch
    BY <1>2 DEF agentVars
  <2> QED
    BY <2>1 DEF BudgetInv, RunShaped, BatchShaped, SpentSoFar, BudgetsKept, Fits, Divided, Settled
<1> QED
  BY <1>1, <1>2

\* However the calls of its batches are refused, fail, time out or fill their shares,
\* a turn's attempt stays within its calls, rounds, result tokens and evidence, and
\* run_bounded_assistant_agent never runs past its last model request (agent.py:825).
THEOREM AgentKeepsBudgets == AgentSpec => []BudgetsKept
<1>1. AgentInit => BudgetInv
  BY AgentInitBudgets
<1>2. BudgetInv /\ [AgentNext]_agentVars => BudgetInv'
  BY AgentStepBudgets
<1>3. BudgetInv => BudgetsKept
  BY DEF BudgetInv, SpentSoFar
<1> QED
  BY <1>1, <1>2, <1>3, PTL DEF AgentSpec

-----------------------------------------------------------------------------
(* The capacity router: what its table and its routes are.                   *)

RowStates == {"NEWS", "IN_FLIGHT", "ENDED"}
Row == [pool : Pools, model : Range(PlanModels), at : Nat,
        tokens : Estimates \cup Actuals \cup {1}, state : RowStates, expires : Nat]
Steps == {"choose", "try", "call", "sent", "refused"}
Routed == [step : Steps, service : Services, estimate : Estimates, since : Nat,
           model : Nat, pools : Seq(Pools), key : Nat, attempts : Nat, id : Nat]

\* The table and the local variables of the routes keep their shape.
TableTyped == now \in Nat /\ rows \in Seq(Row) /\ \A i \in DOMAIN rows : rows[i].at <= now
RouteTyped(r) ==
  /\ r = Unrouted \/ r \in Routed
  /\ r.step \in Steps => r.model >= 1
  /\ r.step \in Steps \ {"choose"} =>
       /\ r.model <= Len(PlanModels) /\ r.pools # <<>>
       /\ \A i \in DOMAIN r.pools : HasPolicy(r.pools[i], PlanModels[r.model])
RoutesTyped == DOMAIN route = RouteWorkers /\ \A w \in RouteWorkers : RouteTyped(route[w])
\* A call under way has a row of its own, which has not expired.
PairOf(r) == <<Head(r.pools), PlanModels[r.model]>>
OnCall(r) == r.step \in {"call", "sent", "refused"}
HasRow(r, table, t) ==
  OnCall(r) =>
    /\ r.id \in DOMAIN table /\ table[r.id].state = "IN_FLIGHT" /\ table[r.id].expires > t
    /\ table[r.id].pool = Head(r.pools) /\ table[r.id].model = PlanModels[r.model]
CallsReserved == \A w \in RouteWorkers : HasRow(route[w], rows, now)
RowsOwned ==
  \A v, w \in RouteWorkers : Calling(v) /\ Calling(w) /\ v # w => route[v].id # route[w].id

CapacityInv ==
  TableTyped /\ RoutesTyped /\ CallsReserved /\ RowsOwned /\ WithinSoft /\ BoundedCalls

-----------------------------------------------------------------------------
\* The limits of a pair with a policy are numbers.
LEMMA LimitsAreNumbers ==
  ASSUME NEW p, NEW m, HasPolicy(p, m)
  PROVE  /\ Limits(p, m)[1] \in Int /\ Limits(p, m)[2] \in Int
         /\ Limits(p, m)[4] = Policy(p, m).inFlight /\ Policy(p, m).inFlight \in Nat
         /\ Policy(p, m).ttl \in Nat /\ Policy(p, m).ttl > 0
<1>1. Policy(p, m) \in PoliciesFor(p, m)
  BY DEF HasPolicy, Policy
<1>2. PoliciesFor(p, m) \subseteq Policies
  BY DEF PoliciesFor, Policies
<1> DEFINE c == Policy(p, m)
<1>3. c.rpd \in Nat /\ c.rpm \in Nat /\ c.soft \in Nat /\ c.inFlight \in Nat
      /\ c.ttl \in Nat /\ c.ttl > 0
  BY <1>1, <1>2, CapacityAssumption
<1>4. Limits(p, m) = <<Soft(c.rpd, c), Soft(c.rpm, c), Soft(c.tpm, c), c.inFlight>>
  BY DEF Limits
<1> HIDE DEF c
<1>5. \A x \in Nat : Soft(x, c) \in Int
  <2> TAKE x \in Nat
  <2>1. x * c.soft \in Int
    BY <1>3
  <2>2. \A y \in Int : y \div 10000 \in Int
    OBVIOUS
  <2> QED
    BY <2>1, <2>2 DEF Soft
<1>6. Soft(c.rpd, c) \in Int /\ Soft(c.rpm, c) \in Int
  BY <1>3, <1>5
<1> QED
  BY <1>3, <1>4, <1>6 DEF c

\* The best-first order is a sequence of usable pools.
LEMMA BestFirstIsUsable ==
  ASSUME NEW r, NEW m, NEW s \in BestFirst(r, m), Usable(r, m) # {}
  PROVE  /\ s \in Seq(Pools) /\ s # <<>>
         /\ \A i \in DOMAIN s : HasPolicy(s[i], m)
<1>1. Usable(r, m) \subseteq Pools /\ \A p \in Usable(r, m) : HasPolicy(p, m)
  BY DEF Usable, Eligible
<1>2. IsFiniteSet(Usable(r, m))
  BY <1>1, FS_Subset, CapacityAssumption
<1>3. Cardinality(Usable(r, m)) \in Nat /\ Cardinality(Usable(r, m)) # 0
  BY <1>2, FS_CardinalityType, FS_EmptySet
<1>4. s \in [1..Cardinality(Usable(r, m)) -> Usable(r, m)]
  BY DEF BestFirst, SetToSeqs
<1> HIDE DEF BestFirst
<1>5. s \in Seq(Usable(r, m)) /\ Len(s) = Cardinality(Usable(r, m))
  BY <1>3, <1>4
<1> QED
  BY <1>1, <1>3, <1>4, <1>5

-----------------------------------------------------------------------------
(* What a row was admitted against does not change when the table grows.     *)

SameRows(old, new) ==
  /\ DOMAIN old \subseteq DOMAIN new
  /\ \A i \in DOMAIN old :
       /\ new[i].pool = old[i].pool /\ new[i].model = old[i].model /\ new[i].at = old[i].at
       /\ new[i].expires = old[i].expires
       /\ new[i].state = "NEWS" <=> old[i].state = "NEWS"
Earlier(table, i) ==
  {j \in DOMAIN table :
     /\ j <= i /\ table[j].pool = table[i].pool
     /\ table[j].model \in Policy(table[i].pool, table[i].model).shared}
OfMinute(table, i) == {j \in Earlier(table, i) : table[j].at > table[i].at - MINUTE}
OfItsDay(table, i) == {j \in Earlier(table, i) : table[j].at \div DAY = table[i].at \div DAY}
SoftAt(table, i) ==
  /\ Cardinality(OfMinute(table, i)) <= Limits(table[i].pool, table[i].model)[2]
  /\ Cardinality(OfItsDay(table, i)) <= Limits(table[i].pool, table[i].model)[1]

\* The soft shares, row by row.
LEMMA WithinSoftIs ==
  WithinSoft <=> \A i \in DOMAIN rows : rows[i].state # "NEWS" => SoftAt(rows, i)
<1> SUFFICES ASSUME NEW i \in DOMAIN rows
             PROVE  LET p == rows[i].pool
                        m == rows[i].model
                        before == {j \in Shared(p, m) : j <= i}
                    IN /\ {j \in before : rows[j].at > rows[i].at - MINUTE} = OfMinute(rows, i)
                       /\ {j \in before : rows[j].at \div DAY = rows[i].at \div DAY}
                            = OfItsDay(rows, i)
  BY DEF WithinSoft, SoftAt
<1> QED
  BY DEF Shared, OfMinute, OfItsDay, Earlier

\* A row stays within the shares it was admitted under: they are those of the rows before it.
LEMMA SoftStays ==
  ASSUME NEW old \in Seq(Row), NEW new \in Seq(Row), SameRows(old, new),
         NEW i \in DOMAIN old, SoftAt(old, i)
  PROVE  SoftAt(new, i)
<1>1. DOMAIN old = 1..Len(old) /\ DOMAIN new = 1..Len(new)
      /\ Len(old) \in Nat /\ Len(new) \in Nat
  OBVIOUS
<1>2. \A j \in DOMAIN new : j <= i => j \in DOMAIN old
  BY <1>1
<1>3. \A j \in DOMAIN old : j \in DOMAIN new
        /\ new[j].pool = old[j].pool /\ new[j].model = old[j].model /\ new[j].at = old[j].at
  BY DEF SameRows
<1>4. Earlier(new, i) = Earlier(old, i)
  BY <1>2, <1>3 DEF Earlier
<1>5. Earlier(old, i) \subseteq DOMAIN old
  BY DEF Earlier
<1>6. OfMinute(new, i) = OfMinute(old, i) /\ OfItsDay(new, i) = OfItsDay(old, i)
  BY <1>3, <1>4, <1>5 DEF OfMinute, OfItsDay
<1> QED
  BY <1>3, <1>6 DEF SoftAt

\* A set with one element more.
LEMMA ByOneMore ==
  ASSUME NEW A, NEW B, NEW x, IsFiniteSet(B), A \subseteq B \cup {x}
  PROVE  /\ Cardinality(A) \in Nat /\ Cardinality(B) \in Nat
         /\ IsFiniteSet(A) /\ Cardinality(A) <= Cardinality(B) + 1
<1>0. Cardinality(B) \in Nat
  BY FS_CardinalityType
<1>1. IsFiniteSet(B \cup {x}) /\ Cardinality(B \cup {x}) <= Cardinality(B) + 1
  BY <1>0, FS_AddElement
<1>2. IsFiniteSet(A) /\ Cardinality(A) <= Cardinality(B \cup {x})
  BY <1>1, FS_Subset
<1>3. Cardinality(A) \in Nat /\ Cardinality(B \cup {x}) \in Nat
  BY <1>1, <1>2, FS_CardinalityType
<1> QED
  BY <1>0, <1>1, <1>2, <1>3

\* A request admitted now is below the soft share of its minute and its day.
LEMMA AdmittedBelowSoft ==
  ASSUME TableTyped, NEW p \in Pools, NEW m \in Range(PlanModels), NEW e,
         HasPolicy(p, m), Available(p, m, e, now),
         NEW new \in Seq(Row), Len(new) = Len(rows) + 1, SameRows(rows, new),
         new[Len(new)].pool = p, new[Len(new)].model = m, new[Len(new)].at = now
  PROVE  SoftAt(new, Len(new))
<1> DEFINE n == Len(new)
<1>1. /\ DOMAIN rows = 1..Len(rows) /\ DOMAIN new = 1..Len(new) /\ Len(rows) \in Nat
      /\ n \in Nat /\ DOMAIN new = DOMAIN rows \cup {n}
  BY DEF TableTyped
<1>2. \A j \in DOMAIN rows :
        /\ new[j].pool = rows[j].pool /\ new[j].model = rows[j].model /\ new[j].at = rows[j].at
        /\ rows[j].at <= now
  BY DEF SameRows, TableTyped
<1>3. /\ Projected(p, m, e, now)[1] <= Limits(p, m)[1]
      /\ Projected(p, m, e, now)[2] <= Limits(p, m)[2]
  BY DEF Available
<1>4. /\ Cardinality(OfDay(p, m, now)) + 1 <= Limits(p, m)[1]
      /\ Cardinality(Rolling(p, m, now)) + 1 <= Limits(p, m)[2]
  BY <1>3 DEF Projected
<1> HIDE DEF n
<1>5. new[n].pool = p /\ new[n].model = m /\ new[n].at = now
  BY DEF n
<1>6. Earlier(new, n) \subseteq Shared(p, m) \cup {n}
  BY <1>1, <1>2, <1>5 DEF Earlier, Shared
<1>7. OfMinute(new, n) \subseteq Rolling(p, m, now) \cup {n}
  <2> SUFFICES ASSUME NEW j \in OfMinute(new, n), j # n PROVE j \in Rolling(p, m, now)
    OBVIOUS
  <2>1. j \in Shared(p, m) /\ j \in DOMAIN rows
    BY <1>6 DEF OfMinute, Shared
  <2>2. new[j].at > now - MINUTE
    BY <1>5 DEF OfMinute
  <2> QED
    BY <2>1, <2>2, <1>2 DEF Rolling
<1>8. OfItsDay(new, n) \subseteq OfDay(p, m, now) \cup {n}
  <2> SUFFICES ASSUME NEW j \in OfItsDay(new, n), j # n PROVE j \in OfDay(p, m, now)
    OBVIOUS
  <2>1. j \in Shared(p, m) /\ j \in DOMAIN rows
    BY <1>6 DEF OfItsDay, Shared
  <2>2. new[j].at \div DAY = now \div DAY
    BY <1>5 DEF OfItsDay
  <2> QED
    BY <2>1, <2>2, <1>2 DEF OfDay
<1>9. IsFiniteSet(DOMAIN rows)
  BY <1>1, FS_Interval
<1>10. IsFiniteSet(Rolling(p, m, now)) /\ IsFiniteSet(OfDay(p, m, now))
  <2>1. Rolling(p, m, now) \subseteq DOMAIN rows /\ OfDay(p, m, now) \subseteq DOMAIN rows
    BY DEF Rolling, OfDay, Shared
  <2> QED
    BY <2>1, <1>9, FS_Subset
<1>11. Cardinality(OfMinute(new, n)) <= Cardinality(Rolling(p, m, now)) + 1
       /\ Cardinality(OfMinute(new, n)) \in Nat /\ Cardinality(Rolling(p, m, now)) \in Nat
  BY <1>7, <1>10, ByOneMore
<1>12. Cardinality(OfItsDay(new, n)) <= Cardinality(OfDay(p, m, now)) + 1
       /\ Cardinality(OfItsDay(new, n)) \in Nat /\ Cardinality(OfDay(p, m, now)) \in Nat
  BY <1>8, <1>10, ByOneMore
<1>13. Limits(p, m)[1] \in Int /\ Limits(p, m)[2] \in Int
  BY LimitsAreNumbers
<1>14. /\ Cardinality(OfMinute(new, n)) <= Limits(p, m)[2]
       /\ Cardinality(OfItsDay(new, n)) <= Limits(p, m)[1]
  BY <1>4, <1>11, <1>12, <1>13
<1> QED
  BY <1>5, <1>14 DEF SoftAt, n

-----------------------------------------------------------------------------
(* The calls under way at a pair are among its reservations.                 *)

CallsAt(routes, pair) == {w \in RouteWorkers : OnCall(routes[w]) /\ PairOf(routes[w]) = pair}

\* The bound on calls in terms of CallsAt.
LEMMA BoundedCallsIs ==
  BoundedCalls <=>
    \A pair \in Pairs : HasPolicy(pair[1], pair[2]) =>
      Cardinality(CallsAt(route, pair)) <= Policy(pair[1], pair[2]).inFlight
<1>1. \A pair : CallsAt(route, pair) =
        {w \in RouteWorkers :
           Calling(w) /\ <<Head(route[w].pools), PlanModels[route[w].model]>> = pair}
  BY DEF CallsAt, OnCall, Calling, PairOf
<1> QED
  BY <1>1 DEF BoundedCalls

\* Each call under way has a reservation of its own in flight at its pair.
LEMMA CallsAreReserved ==
  ASSUME TableTyped, CallsReserved, RowsOwned, NEW p, NEW m
  PROVE  /\ IsFiniteSet(CallsAt(route, <<p, m>>))
         /\ IsFiniteSet(InFlight(p, m, now))
         /\ Cardinality(CallsAt(route, <<p, m>>)) <= Cardinality(InFlight(p, m, now))
<1> DEFINE C == CallsAt(route, <<p, m>>)
           f == [w \in C |-> route[w].id]
<1>1. IsFiniteSet(InFlight(p, m, now))
  <2>1. InFlight(p, m, now) \subseteq DOMAIN rows
    BY DEF InFlight
  <2>2. IsFiniteSet(DOMAIN rows)
    BY FS_Interval DEF TableTyped
  <2> QED
    BY <2>1, <2>2, FS_Subset
<1>2. \A w \in C : route[w].id \in InFlight(p, m, now)
  BY DEF CallsAt, CallsReserved, HasRow, InFlight, PairOf
<1>3. \A v, w \in C : v # w => route[v].id # route[w].id
  BY DEF CallsAt, RowsOwned, Calling, OnCall
<1>4. f \in Injection(C, InFlight(p, m, now))
  BY <1>2, <1>3 DEF Injection, IsInjective
<1> QED
  BY <1>1, <1>4, FS_Injection

\* The same two after a step.
LEMMA SoftThen ==
  (WithinSoft <=> \A i \in DOMAIN rows : rows[i].state # "NEWS" => SoftAt(rows, i))'
BY WithinSoftIs, PTL

LEMMA CallsThen ==
  (BoundedCalls <=>
     \A pair \in Pairs : HasPolicy(pair[1], pair[2]) =>
       Cardinality(CallsAt(route, pair)) <= Policy(pair[1], pair[2]).inFlight)'
BY BoundedCallsIs, PTL

-----------------------------------------------------------------------------
(* Steps that begin no call: a worker's own call may end, and with it its    *)
(* reservation; no other row changes but in its tokens.                      *)

StillCalls(old, new) == OnCall(new) => OnCall(old) /\ new.id = old.id /\ PairOf(new) = PairOf(old)
KeepsCalls(w, new) ==
  \A i \in DOMAIN rows :
    rows[i].state = "IN_FLIGHT" /\ rows'[i].state # "IN_FLIGHT" =>
      OnCall(route[w]) /\ i = route[w].id /\ ~OnCall(new)

\* Such a step keeps the invariant.
LEMMA Quiet ==
  ASSUME CapacityInv, NEW w \in RouteWorkers, NEW r, RouteTyped(r), StillCalls(route[w], r),
         now' = now, route' = [route EXCEPT ![w] = r],
         rows' \in Seq(Row), Len(rows') = Len(rows), SameRows(rows, rows'), KeepsCalls(w, r)
  PROVE  CapacityInv'
<1>1. /\ TableTyped /\ RoutesTyped /\ CallsReserved /\ RowsOwned /\ WithinSoft /\ BoundedCalls
  BY DEF CapacityInv
<1>2. /\ DOMAIN route = RouteWorkers /\ DOMAIN route' = RouteWorkers /\ route'[w] = r
      /\ \A v \in RouteWorkers : v # w => route'[v] = route[v]
  BY <1>1 DEF RoutesTyped
<1>3. DOMAIN rows' = DOMAIN rows
  BY <1>1 DEF TableTyped
<1>4. TableTyped'
  BY <1>1, <1>3 DEF TableTyped, SameRows
<1>5. RoutesTyped'
  BY <1>1, <1>2 DEF RoutesTyped
<1>6. RowsOwned'
  <2> SUFFICES ASSUME NEW u \in RouteWorkers, NEW v \in RouteWorkers, u # v,
                      OnCall(route'[u]), OnCall(route'[v])
               PROVE  route'[u].id # route'[v].id
    BY DEF RowsOwned, Calling, OnCall
  <2>1. OnCall(route[u]) /\ route'[u].id = route[u].id
    BY <1>2 DEF StillCalls
  <2>2. OnCall(route[v]) /\ route'[v].id = route[v].id
    BY <1>2 DEF StillCalls
  <2> QED
    BY <1>1, <2>1, <2>2 DEF RowsOwned, Calling, OnCall
<1>7. CallsReserved'
  <2> SUFFICES ASSUME NEW v \in RouteWorkers, OnCall(route'[v])
               PROVE  HasRow(route'[v], rows', now)
    BY DEF CallsReserved, HasRow
  <2>1. /\ OnCall(route[v]) /\ route'[v].id = route[v].id
        /\ Head(route'[v].pools) = Head(route[v].pools)
        /\ PlanModels[route'[v].model] = PlanModels[route[v].model]
    BY <1>2 DEF StillCalls, PairOf
  <2>2. HasRow(route[v], rows, now)
    BY <1>1 DEF CallsReserved
  <2> DEFINE i == route[v].id
  <2>3. /\ i \in DOMAIN rows /\ rows[i].state = "IN_FLIGHT" /\ rows[i].expires > now
        /\ rows[i].pool = Head(route[v].pools) /\ rows[i].model = PlanModels[route[v].model]
    BY <2>1, <2>2 DEF HasRow
  <2>4. rows'[i].state = "IN_FLIGHT"
    <3>1. CASE v = w
      BY <3>1, <1>2, <2>3 DEF KeepsCalls
    <3>2. CASE v # w
      <4> SUFFICES ASSUME OnCall(route[w]) PROVE i # route[w].id
        BY <2>3 DEF KeepsCalls
      <4> QED
        BY <3>2, <1>1, <2>1 DEF RowsOwned, Calling, OnCall
    <3> QED
      BY <3>1, <3>2
  <2>5. /\ rows'[i].expires = rows[i].expires /\ rows'[i].pool = rows[i].pool
        /\ rows'[i].model = rows[i].model
    BY <2>3 DEF SameRows
  <2> QED
    BY <1>3, <2>1, <2>3, <2>4, <2>5 DEF HasRow
<1>8. WithinSoft'
  <2> SUFFICES ASSUME NEW i \in DOMAIN rows', rows'[i].state # "NEWS"
               PROVE  SoftAt(rows', i)
    BY SoftThen
  <2>1. rows[i].state # "NEWS"
    BY <1>3 DEF SameRows
  <2>2. SoftAt(rows, i)
    BY <1>1, <1>3, <2>1, WithinSoftIs
  <2> QED
    BY <1>1, <1>3, <2>2, SoftStays DEF TableTyped
<1>9. BoundedCalls'
  <2> SUFFICES ASSUME NEW pair \in Pairs, HasPolicy(pair[1], pair[2])
               PROVE  Cardinality(CallsAt(route', pair)) <= Policy(pair[1], pair[2]).inFlight
    BY CallsThen
  <2>1. CallsAt(route', pair) \subseteq CallsAt(route, pair)
    BY <1>2 DEF CallsAt, StillCalls
  <2>2. IsFiniteSet(CallsAt(route, pair))
    <3>1. pair = <<pair[1], pair[2]>>
      BY DEF Pairs
    <3> QED
      BY <1>1, <3>1, CallsAreReserved
  <2>3. Cardinality(CallsAt(route', pair)) <= Cardinality(CallsAt(route, pair))
        /\ Cardinality(CallsAt(route', pair)) \in Nat /\ Cardinality(CallsAt(route, pair)) \in Nat
    BY <2>1, <2>2, FS_Subset, FS_CardinalityType
  <2>4. Cardinality(CallsAt(route, pair)) <= Policy(pair[1], pair[2]).inFlight
    BY <1>1, BoundedCallsIs
  <2>5. Policy(pair[1], pair[2]).inFlight \in Nat
    BY LimitsAreNumbers
  <2> QED
    BY <2>3, <2>4, <2>5
<1> QED
  BY <1>4, <1>5, <1>6, <1>7, <1>8, <1>9 DEF CapacityInv

-----------------------------------------------------------------------------
(* The routes' moves.                                                        *)

\* An idle worker.
LEMMA UnroutedIs ==
  ASSUME NEW r, r = Unrouted
  PROVE  RouteTyped(r) /\ ~OnCall(r) /\ r.step = "idle"
BY DEF RouteTyped, OnCall, Unrouted, Steps

\* A worker on a route.
LEMMA RoutedIs ==
  ASSUME NEW r, RouteTyped(r), r.step # "idle"
  PROVE  r \in Routed /\ r.model >= 1
<1>1. r # Unrouted
  BY DEF Unrouted
<1> QED
  BY <1>1 DEF RouteTyped, Routed

\* A route at a pool: the pool and the model have a policy.
LEMMA TriedIs ==
  ASSUME NEW r, RouteTyped(r), r.step \in Steps \ {"choose"}
  PROVE  /\ r \in Routed /\ r.model \in 1..Len(PlanModels) /\ r.pools # <<>>
         /\ r.pools \in Seq(Pools)
         /\ \A i \in DOMAIN r.pools : HasPolicy(r.pools[i], PlanModels[r.model])
         /\ Head(r.pools) \in Pools /\ HasPolicy(Head(r.pools), PlanModels[r.model])
         /\ PlanModels[r.model] \in Range(PlanModels)
<1>1. r \in Routed /\ r.model >= 1
  BY RoutedIs DEF Steps
<1>2. /\ r.model <= Len(PlanModels) /\ r.pools # <<>>
      /\ \A i \in DOMAIN r.pools : HasPolicy(r.pools[i], PlanModels[r.model])
  BY DEF RouteTyped
<1>3. r.model \in Nat /\ r.pools \in Seq(Pools)
  BY <1>1 DEF Routed
<1>4. Head(r.pools) = r.pools[1] /\ 1 \in DOMAIN r.pools
  BY <1>2, <1>3
<1>5. r.model \in 1..Len(PlanModels) /\ PlanModels[r.model] \in Range(PlanModels)
  <2>1. PlanModels \in Seq(Range(PlanModels))
    BY CapacityAssumption
  <2>2. r.model \in 1..Len(PlanModels)
    BY <1>1, <1>2, <1>3, <2>1
  <2> QED
    BY <2>1, <2>2
<1> QED
  BY <1>1, <1>2, <1>3, <1>4, <1>5

\* What is left of a list without its first element.
LEMMA TailIs ==
  ASSUME NEW S, NEW s \in Seq(S), Len(s) > 1
  PROVE  /\ Tail(s) \in Seq(S) /\ Tail(s) # <<>>
         /\ \A i \in DOMAIN Tail(s) : i + 1 \in DOMAIN s /\ Tail(s)[i] = s[i + 1]
<1> DEFINE t == Tail(s)
<1>1. t \in Seq(S)
  OBVIOUS
<1>2. Len(t) = Len(s) - 1 /\ Len(s) \in Nat /\ DOMAIN s = 1..Len(s)
  OBVIOUS
<1>3. \A i \in 1..(Len(s) - 1) : t[i] = s[i + 1]
  OBVIOUS
<1> HIDE DEF t
<1>4. t # <<>> /\ DOMAIN t = 1..(Len(s) - 1)
  BY <1>1, <1>2
<1>5. \A i \in DOMAIN t : i + 1 \in DOMAIN s /\ t[i] = s[i + 1]
  BY <1>2, <1>3, <1>4
<1> QED
  BY <1>1, <1>4, <1>5 DEF t

\* A route that turns to its next pool, or its next model, is on no call.
LEMMA NextPoolTyped ==
  ASSUME NEW r, RouteTyped(r), r.step \in Steps \ {"choose"}
  PROVE  RouteTyped(NextPool(r)) /\ ~OnCall(NextPool(r))
<1>1. /\ r \in Routed /\ r.model \in 1..Len(PlanModels) /\ r.pools # <<>>
      /\ r.pools \in Seq(Pools)
      /\ \A i \in DOMAIN r.pools : HasPolicy(r.pools[i], PlanModels[r.model])
  BY TriedIs
<1>2. CASE Len(r.pools) > 1
  <2> DEFINE n == NextPool(r)
  <2>1. n = [r EXCEPT !.step = "try", !.pools = Tail(@), !.key = 1]
    BY <1>2 DEF NextPool
  <2>2. Tail(r.pools) \in Seq(Pools) /\ Tail(r.pools) # <<>>
        /\ \A i \in DOMAIN Tail(r.pools) : i + 1 \in DOMAIN r.pools
                                              /\ Tail(r.pools)[i] = r.pools[i + 1]
    BY <1>1, <1>2, TailIs
  <2> HIDE DEF n
  <2>3. n.step = "try" /\ n.model = r.model /\ n.pools = Tail(r.pools)
    BY <1>1, <2>1 DEF Routed
  <2>4. n \in Routed
    <3>1. r \in Routed /\ Tail(r.pools) \in Seq(Pools) /\ "try" \in Steps
      BY <1>1, <2>2 DEF Steps
    <3> QED
      BY <2>1, <3>1 DEF Routed
  <2>5. n.model >= 1 /\ n.model <= Len(PlanModels)
    BY <1>1, <2>3
  <2>6. \A i \in DOMAIN n.pools : HasPolicy(n.pools[i], PlanModels[n.model])
    BY <1>1, <2>2, <2>3
  <2> QED
    BY <2>2, <2>3, <2>4, <2>5, <2>6 DEF n, RouteTyped, OnCall
<1>3. CASE ~(Len(r.pools) > 1)
  <2> DEFINE n == NextPool(r)
  <2>1. n = [r EXCEPT !.step = "choose", !.model = @ + 1, !.pools = <<>>]
    BY <1>3 DEF NextPool
  <2>2. n.step = "choose" /\ n.model = r.model + 1 /\ r.model + 1 \in Nat /\ r.model + 1 >= 1
    BY <1>1, <2>1 DEF Routed
  <2> HIDE DEF n
  <2>3. n \in Routed
    <3>1. r \in Routed /\ <<>> \in Seq(Pools) /\ "choose" \in Steps
      BY <1>1 DEF Steps
    <3>2. r.model + 1 \in Nat
      BY <2>2
    <3> QED
      BY <2>1, <3>1, <3>2 DEF Routed
  <2> QED
    BY <2>2, <2>3 DEF n, RouteTyped, OnCall
<1> QED
  BY <1>2, <1>3

\* The same of the next key.
LEMMA NextKeyTyped ==
  ASSUME NEW r, RouteTyped(r), r.step \in Steps \ {"choose"}
  PROVE  RouteTyped(NextKey(r)) /\ ~OnCall(NextKey(r))
<1>1. /\ r \in Routed /\ r.model \in 1..Len(PlanModels) /\ r.pools # <<>>
      /\ \A i \in DOMAIN r.pools : HasPolicy(r.pools[i], PlanModels[r.model])
  BY TriedIs
<1>2. CASE NextKey(r) = [r EXCEPT !.step = "try", !.key = @ + 1]
  <2> DEFINE n == NextKey(r)
  <2>0. n = [r EXCEPT !.step = "try", !.key = @ + 1]
    BY <1>2
  <2> HIDE DEF n
  <2>1. n.step = "try" /\ n.model = r.model /\ n.pools = r.pools
    BY <1>1, <2>0 DEF Routed
  <2>2. n \in Routed
    <3>1. r \in Routed /\ r.key + 1 \in Nat /\ "try" \in Steps
      BY <1>1 DEF Routed, Steps
    <3> QED
      BY <2>0, <3>1 DEF Routed
  <2>3. n.model >= 1 /\ n.model <= Len(PlanModels)
    BY <1>1, <2>1
  <2> QED
    BY <1>1, <2>1, <2>2, <2>3 DEF n, RouteTyped, OnCall
<1>3. CASE NextKey(r) = NextPool(r)
  BY <1>3, NextPoolTyped
<1> QED
  BY <1>2, <1>3 DEF NextKey

-----------------------------------------------------------------------------
(* The actions.                                                              *)

\* A table that a step leaves alone.
LEMMA SameTable ==
  ASSUME TableTyped, UNCHANGED rows, NEW w, NEW r
  PROVE  /\ rows' \in Seq(Row) /\ Len(rows') = Len(rows) /\ SameRows(rows, rows')
         /\ KeepsCalls(w, r)
BY DEF TableTyped, SameRows, KeepsCalls

\* Each action keeps the invariant.
LEMMA BeginRouteKeeps ==
  ASSUME CapacityInv, NEW w \in RouteWorkers, BeginRoute(w)
  PROVE  CapacityInv'
<1>1. PICK s \in Services, e \in Estimates :
        route' = [route EXCEPT ![w] =
          [step |-> "choose", service |-> s, estimate |-> e, since |-> now,
           model |-> 1, pools |-> <<>>, key |-> 1, attempts |-> 0, id |-> 0]]
  BY DEF BeginRoute
<1> DEFINE r == [step |-> "choose", service |-> s, estimate |-> e, since |-> now,
                 model |-> 1, pools |-> <<>>, key |-> 1, attempts |-> 0, id |-> 0]
<1>2. TableTyped /\ now \in Nat /\ UNCHANGED <<now, rows>>
  BY DEF CapacityInv, TableTyped, BeginRoute
<1>3. r.step = "choose" /\ r.model = 1
  OBVIOUS
<1>4. r \in Routed
  <2>1. <<>> \in Seq(Pools) /\ "choose" \in Steps
    BY DEF Steps
  <2> QED
    BY <1>2, <2>1 DEF Routed
<1> HIDE DEF r
<1>5. RouteTyped(r) /\ StillCalls(route[w], r)
  BY <1>3, <1>4 DEF RouteTyped, StillCalls, OnCall
<1>6. route' = [route EXCEPT ![w] = r]
  BY <1>1 DEF r
<1>7. /\ rows' \in Seq(Row) /\ Len(rows') = Len(rows) /\ SameRows(rows, rows')
      /\ KeepsCalls(w, r)
  BY <1>2, SameTable
<1> QED
  BY <1>2, <1>5, <1>6, <1>7, Quiet

\* A step of a route that leaves the table alone and is on no call after it.
LEMMA RouteMoves ==
  ASSUME CapacityInv, NEW w \in RouteWorkers, NEW r, RouteTyped(r), ~OnCall(r),
         UNCHANGED <<now, rows>>, route' = [route EXCEPT ![w] = r]
  PROVE  CapacityInv'
<1>1. TableTyped
  BY DEF CapacityInv
<1>2. StillCalls(route[w], r)
  BY DEF StillCalls
<1>3. /\ rows' \in Seq(Row) /\ Len(rows') = Len(rows) /\ SameRows(rows, rows')
      /\ KeepsCalls(w, r)
  BY <1>1, SameTable
<1> QED
  BY <1>2, <1>3, Quiet

\* The route of any worker.
LEMMA RouteOf ==
  ASSUME CapacityInv, NEW w \in RouteWorkers
  PROVE  RouteTyped(route[w])
BY DEF CapacityInv, RoutesTyped

\* A look at the pools changes the route alone.
LEMMA ChooseKeeps ==
  ASSUME CapacityInv, NEW w \in RouteWorkers, Choose(w)
  PROVE  CapacityInv'
<1> DEFINE r == route[w]
           m == PlanModels[r.model]
<1>1. r.step = "choose" /\ UNCHANGED <<now, rows>>
  BY DEF Choose
<1>2. r \in Routed /\ r.model >= 1
  BY <1>1, RouteOf, RoutedIs
<1>3. CASE route' = [route EXCEPT ![w] = Unrouted]
  BY <1>1, <1>3, UnroutedIs, RouteMoves
<1>4. CASE route' = [route EXCEPT ![w] = [r EXCEPT !.model = @ + 1]]
  <2> DEFINE n == [r EXCEPT !.model = @ + 1]
  <2>1. n.step = "choose" /\ n.model = r.model + 1 /\ n.model >= 1 /\ r.model + 1 \in Nat
    BY <1>1, <1>2 DEF Routed
  <2>2. n \in Routed
    BY <1>2, <2>1 DEF Routed
  <2> HIDE DEF n
  <2>3. RouteTyped(n) /\ ~OnCall(n)
    BY <2>1, <2>2 DEF RouteTyped, OnCall
  <2>4. route' = [route EXCEPT ![w] = n]
    BY <1>4 DEF n
  <2> QED
    BY <1>1, <2>3, <2>4, RouteMoves
<1>5. ASSUME NEW s \in BestFirst(r, m), r.model <= Len(PlanModels), Usable(r, m) # {},
             route' = [route EXCEPT ![w] = [r EXCEPT !.step = "try", !.key = 1, !.pools = s]]
      PROVE  CapacityInv'
  <2> DEFINE n == [r EXCEPT !.step = "try", !.key = 1, !.pools = s]
  <2>1. s \in Seq(Pools) /\ s # <<>> /\ \A i \in DOMAIN s : HasPolicy(s[i], m)
    BY <1>5, BestFirstIsUsable
  <2>2. n.step = "try" /\ n.model = r.model /\ n.pools = s
    BY <1>2 DEF Routed
  <2>3. n \in Routed
    <3>1. "try" \in Steps
      BY DEF Steps
    <3> QED
      BY <1>2, <2>1, <3>1 DEF Routed
  <2>4. \A i \in DOMAIN n.pools : HasPolicy(n.pools[i], PlanModels[n.model])
    BY <2>1, <2>2
  <2> HIDE DEF n
  <2>5. RouteTyped(n) /\ ~OnCall(n)
    BY <1>2, <1>5, <2>1, <2>2, <2>3, <2>4 DEF RouteTyped, OnCall
  <2>6. route' = [route EXCEPT ![w] = n]
    BY <1>5 DEF n
  <2> QED
    BY <1>1, <2>5, <2>6, RouteMoves
<1> QED
  BY <1>3, <1>4, <1>5 DEF Choose

\* The worker is on a call, and its route says where.
LEMMA CallIs ==
  ASSUME CapacityInv, NEW w \in RouteWorkers, OnCall(route[w])
  PROVE  /\ route[w].step \in Steps \ {"choose"} /\ RouteTyped(route[w])
         /\ route[w] \in Routed /\ route[w].id \in DOMAIN rows
         /\ rows[route[w].id].state = "IN_FLIGHT"
<1>1. HasRow(route[w], rows, now) /\ RouteTyped(route[w])
  BY RouteOf DEF CapacityInv, CallsReserved
<1>2. route[w].step \in Steps \ {"choose"}
  BY DEF OnCall, Steps
<1> QED
  BY <1>1, <1>2, TriedIs DEF HasRow

\* A confirmation changes the tokens of the row of its own call.
LEMMA ConfirmKeeps ==
  ASSUME CapacityInv, NEW w \in RouteWorkers, Confirm(w)
  PROVE  CapacityInv'
<1> DEFINE r == route[w]
<1>1. r.step = "call" /\ now' = now
  BY DEF Confirm
<1>2. OnCall(r)
  BY <1>1 DEF OnCall
<1>3. /\ r.step \in Steps \ {"choose"} /\ RouteTyped(r) /\ r \in Routed /\ r.id \in DOMAIN rows
  BY <1>2, CallIs
<1>4. TableTyped /\ DOMAIN route = RouteWorkers
  BY DEF CapacityInv, RoutesTyped
<1>5. PICK st \in {"sent", "refused"} : route' = [route EXCEPT ![w] = [r EXCEPT !.step = st]]
  <2>1. \/ route' = [route EXCEPT ![w].step = "sent"]
        \/ route' = [route EXCEPT ![w].step = "refused"]
    BY DEF Confirm
  <2> QED
    BY <2>1
<1> DEFINE n == [r EXCEPT !.step = st]
<1>6. n.step = st /\ n.model = r.model /\ n.pools = r.pools /\ n.id = r.id
  BY <1>3 DEF Routed
<1>7. n \in Routed
  <2>1. st \in Steps
    BY DEF Steps
  <2> QED
    BY <1>3, <2>1 DEF Routed
<1>8. route' = [route EXCEPT ![w] = n]
  BY <1>5
<1> HIDE DEF n
<1>9. RouteTyped(n)
  BY <1>3, <1>6, <1>7 DEF RouteTyped
<1>10. StillCalls(r, n)
  BY <1>2, <1>6 DEF StillCalls, PairOf
<1>11. \/ rows' = rows
       \/ \E actual \in Actuals : rows' = [rows EXCEPT ![r.id].tokens = actual]
  BY DEF Confirm
<1>12. /\ rows' \in Seq(Row) /\ Len(rows') = Len(rows) /\ SameRows(rows, rows')
       /\ KeepsCalls(w, n)
  <2>1. CASE rows' = rows
    BY <1>4, <2>1, SameTable
  <2>2. ASSUME NEW a \in Actuals, rows' = [rows EXCEPT ![r.id].tokens = a]
        PROVE  /\ rows' \in Seq(Row) /\ Len(rows') = Len(rows) /\ SameRows(rows, rows')
               /\ KeepsCalls(w, n)
    <3> DEFINE x == [rows[r.id] EXCEPT !.tokens = a]
    <3>1. rows \in Seq(Row) /\ rows[r.id] \in Row
      BY <1>3, <1>4 DEF TableTyped
    <3>2. /\ x \in Row /\ x.pool = rows[r.id].pool /\ x.model = rows[r.id].model
          /\ x.at = rows[r.id].at /\ x.state = rows[r.id].state
          /\ x.expires = rows[r.id].expires
      BY <3>1 DEF Row
    <3>3. rows' = [rows EXCEPT ![r.id] = x]
      BY <2>2
    <3> HIDE DEF x
    <3>4. rows' \in Seq(Row) /\ Len(rows') = Len(rows)
      BY <1>3, <3>1, <3>2, <3>3
    <3>5. DOMAIN rows' = DOMAIN rows
          /\ \A i \in DOMAIN rows : rows'[i] = IF i = r.id THEN x ELSE rows[i]
      BY <1>3, <3>3
    <3> QED
      BY <3>2, <3>4, <3>5 DEF SameRows, KeepsCalls
  <2> QED
    BY <1>11, <2>1, <2>2
<1> QED
  BY <1>1, <1>8, <1>9, <1>10, <1>12, Quiet

\* A call ends, and with it its reservation.
LEMMA FinishKeeps ==
  ASSUME CapacityInv, NEW w \in RouteWorkers, OnCall(route[w]), NEW effect, NEW n,
         RouteTyped(n), ~OnCall(n), FinishReservation(w, effect, n)
  PROVE  CapacityInv'
<1> DEFINE id == route[w].id
           x == [rows[id] EXCEPT !.state = "ENDED"]
<1>1. id \in DOMAIN rows /\ rows[id].state = "IN_FLIGHT"
  BY CallIs
<1>2. /\ rows' = [rows EXCEPT ![id] = x] /\ now' = now
      /\ route' = [route EXCEPT ![w] = n]
  BY <1>1 DEF FinishReservation, Concluded
<1>3. rows \in Seq(Row) /\ rows[id] \in Row
  BY <1>1 DEF CapacityInv, TableTyped
<1>4. /\ x \in Row /\ x.pool = rows[id].pool /\ x.model = rows[id].model
      /\ x.at = rows[id].at /\ x.state = "ENDED" /\ x.expires = rows[id].expires
  BY <1>3 DEF Row, RowStates
<1> HIDE DEF x
<1>5. rows' \in Seq(Row) /\ Len(rows') = Len(rows)
  BY <1>1, <1>2, <1>3, <1>4
<1>6. DOMAIN rows' = DOMAIN rows
      /\ \A i \in DOMAIN rows : rows'[i] = IF i = id THEN x ELSE rows[i]
  BY <1>1, <1>2
<1>7. SameRows(rows, rows') /\ KeepsCalls(w, n)
  BY <1>1, <1>4, <1>6 DEF SameRows, KeepsCalls
<1>8. StillCalls(route[w], n)
  BY DEF StillCalls
<1> QED
  BY <1>2, <1>5, <1>7, <1>8, Quiet

\* Every outcome ends the call.
LEMMA OutcomeKeeps ==
  ASSUME CapacityInv, NEW w \in RouteWorkers, Outcome(w) \/ RefusedCall(w)
  PROVE  CapacityInv'
<1>1. OnCall(route[w])
  BY DEF OnCall, Outcome, RefusedCall
<1>2. RouteTyped(route[w]) /\ route[w].step \in Steps \ {"choose"}
  BY <1>1, CallIs
<1>3. PICK effect, n : /\ n \in {Unrouted, NextPool(route[w]), NextKey(route[w])}
                      /\ FinishReservation(w, effect, n)
  BY DEF Outcome, RefusedCall
<1>4. RouteTyped(n) /\ ~OnCall(n)
  BY <1>2, <1>3, UnroutedIs, NextPoolTyped, NextKeyTyped
<1> QED
  BY <1>1, <1>3, <1>4, FinishKeeps

\* A route that is left keeps its row.
LEMMA EndRouteKeeps ==
  ASSUME CapacityInv, NEW w \in RouteWorkers, Lose(w) \/ Crash(w)
  PROVE  CapacityInv'
<1>1. UNCHANGED <<now, rows>> /\ route' = [route EXCEPT ![w] = Unrouted]
  BY DEF Lose, Crash
<1> QED
  BY <1>1, UnroutedIs, RouteMoves

\* What the table is after a row was added to it.
Added(x, new) ==
  /\ new \in Seq(Row) /\ Len(new) = Len(rows) + 1 /\ new[Len(new)] = x
  /\ SameRows(rows, new)
  /\ \A i \in DOMAIN rows :
       rows[i].state = "IN_FLIGHT" /\ rows[i].expires > now => new[i].state = "IN_FLIGHT"

\* A table that grew by one row admitted within the soft shares, or not asked for
\* by the assistant, is still within them.
LEMMA AddedWithinSoft ==
  ASSUME CapacityInv, NEW x, Added(x, rows'), x.at = now, now' = now,
         x.state = "NEWS" \/ SoftAt(rows', Len(rows'))
  PROVE  WithinSoft' /\ TableTyped'
<1>1. TableTyped /\ WithinSoft
  BY DEF CapacityInv
<1>2. /\ rows \in Seq(Row) /\ rows' \in Seq(Row) /\ Len(rows') = Len(rows) + 1
      /\ rows'[Len(rows')] = x /\ SameRows(rows, rows')
  BY <1>1 DEF TableTyped, Added
<1>3. DOMAIN rows' = DOMAIN rows \cup {Len(rows')}
  <2>1. DOMAIN rows = 1..Len(rows) /\ DOMAIN rows' = 1..(Len(rows) + 1) /\ Len(rows) \in Nat
    BY <1>2
  <2> QED
    BY <1>2, <2>1
<1>4. \A i \in DOMAIN rows : rows[i].at <= now /\ rows'[i].at = rows[i].at
  BY <1>1, <1>2 DEF TableTyped, SameRows
<1>5. now \in Nat
  BY <1>1 DEF TableTyped
<1>6. TableTyped'
  BY <1>2, <1>3, <1>4, <1>5 DEF TableTyped
<1>7. WithinSoft'
  <2> SUFFICES ASSUME NEW i \in DOMAIN rows', rows'[i].state # "NEWS"
               PROVE  SoftAt(rows', i)
    BY SoftThen
  <2>1. CASE i = Len(rows')
    BY <1>2, <2>1
  <2>2. CASE i \in DOMAIN rows
    <3>1. rows[i].state # "NEWS"
      BY <1>2, <2>2 DEF SameRows
    <3>2. SoftAt(rows, i)
      BY <1>1, <2>2, <3>1, WithinSoftIs
    <3> QED
      BY <1>2, <2>2, <3>2, SoftStays
  <2> QED
    BY <1>3, <2>1, <2>2
<1> QED
  BY <1>6, <1>7

\* The calls that were under way keep their rows.
LEMMA AddedKeepsCalls ==
  ASSUME CapacityInv, NEW x, Added(x, rows'), NEW w \in RouteWorkers, OnCall(route[w])
  PROVE  HasRow(route[w], rows', now)
<1>1. /\ route[w].id \in DOMAIN rows /\ rows[route[w].id].state = "IN_FLIGHT"
      /\ rows[route[w].id].expires > now
      /\ rows[route[w].id].pool = Head(route[w].pools)
      /\ rows[route[w].id].model = PlanModels[route[w].model]
  BY DEF CapacityInv, CallsReserved, HasRow
<1>2. SameRows(rows, rows') /\ rows'[route[w].id].state = "IN_FLIGHT"
  BY <1>1 DEF Added
<1> QED
  BY <1>1, <1>2 DEF HasRow, SameRows

\* A row of the news lanes is asked nothing.
LEMMA NewsKeeps ==
  ASSUME CapacityInv, News
  PROVE  CapacityInv'
<1>1. PICK p \in Pools, m \in Range(PlanModels) :
        rows' = Append(rows, [pool |-> p, model |-> m, at |-> now, tokens |-> 1,
                              state |-> "NEWS", expires |-> 0])
  BY DEF News
<1> DEFINE x == [pool |-> p, model |-> m, at |-> now, tokens |-> 1,
                 state |-> "NEWS", expires |-> 0]
<1>2. UNCHANGED <<now, route>>
  BY DEF News
<1>3. TableTyped /\ now \in Nat /\ rows \in Seq(Row)
  BY DEF CapacityInv, TableTyped
<1>4. x \in Row /\ x.state = "NEWS" /\ x.at = now
  BY <1>3 DEF Row, RowStates
<1>5. rows' = Append(rows, x)
  BY <1>1
<1> HIDE DEF x
<1>6. /\ rows' \in Seq(Row) /\ Len(rows') = Len(rows) + 1 /\ rows'[Len(rows')] = x
      /\ DOMAIN rows \subseteq DOMAIN rows' /\ \A i \in DOMAIN rows : rows'[i] = rows[i]
  BY <1>3, <1>4, <1>5
<1>7. Added(x, rows')
  BY <1>6 DEF Added, SameRows
<1>8. WithinSoft' /\ TableTyped'
  BY <1>2, <1>4, <1>7, AddedWithinSoft
<1>9. CallsReserved'
  <2> SUFFICES ASSUME NEW w \in RouteWorkers, OnCall(route[w])
               PROVE  HasRow(route[w], rows', now)
    BY <1>2 DEF CallsReserved, HasRow
  <2> QED
    BY <1>7, AddedKeepsCalls
<1>10. RoutesTyped' /\ RowsOwned'
  BY <1>2 DEF CapacityInv, RoutesTyped, RowsOwned, Calling
<1>11. BoundedCalls'
  BY <1>2 DEF CapacityInv, BoundedCalls, Calling
<1> QED
  BY <1>8, <1>9, <1>10, <1>11 DEF CapacityInv

\* No call outlives its reservation.
LEMMA ClockKeeps ==
  ASSUME CapacityInv, CapacityTick
  PROVE  CapacityInv'
<1>1. now' = now + 1 /\ UNCHANGED <<rows, route>>
  BY DEF CapacityTick
<1>2. TableTyped'
  <2>1. now \in Nat /\ rows \in Seq(Row) /\ \A i \in DOMAIN rows : rows[i].at <= now
    BY DEF CapacityInv, TableTyped
  <2>2. \A i \in DOMAIN rows : rows[i].at \in Nat
    <3>1. \A i \in DOMAIN rows : rows[i] \in Row
      BY <2>1
    <3> QED
      BY <3>1 DEF Row
  <2> QED
    BY <1>1, <2>1, <2>2 DEF TableTyped
<1>3. CallsReserved'
  <2> SUFFICES ASSUME NEW w \in RouteWorkers, OnCall(route[w])
               PROVE  HasRow(route[w], rows, now')
    BY <1>1 DEF CallsReserved, HasRow
  <2>1. rows[route[w].id].expires > now + 1
    BY DEF CapacityTick, Calling, OnCall
  <2> QED
    BY <1>1, <2>1 DEF CapacityInv, CallsReserved, HasRow
<1>4. RoutesTyped' /\ RowsOwned'
  BY <1>1 DEF CapacityInv, RoutesTyped, RowsOwned, Calling
<1>5. BoundedCalls'
  <2>1. BoundedCalls
    BY DEF CapacityInv
  <2>2. \A pair : CallsAt(route', pair) = CallsAt(route, pair)
    BY <1>1
  <2> QED
    BY <2>1, <2>2, BoundedCallsIs, CallsThen
<1>6. WithinSoft'
  BY <1>1, WithinSoftIs, SoftThen DEF CapacityInv
<1> QED
  BY <1>2, <1>3, <1>4, <1>5, <1>6 DEF CapacityInv

\* The step that begins a call: one transaction measures the pair and adds the row.
LEMMA ReserveKeeps ==
  ASSUME CapacityInv, NEW w \in RouteWorkers, Reserve(w)
  PROVE  CapacityInv'
<1> DEFINE r == route[w]
           m == PlanModels[r.model]
           p == Head(r.pools)
           kept == [i \in DOMAIN rows |->
                      IF rows[i].state = "IN_FLIGHT" /\ rows[i].expires <= now
                      THEN [rows[i] EXCEPT !.state = "ENDED"] ELSE rows[i]]
           x == [pool |-> p, model |-> m, at |-> now, tokens |-> r.estimate,
                 state |-> "IN_FLIGHT", expires |-> now + Policy(p, m).ttl]
<1>1. r.step = "try" /\ now' = now
  BY DEF Reserve
<1>2. RouteTyped(r) /\ r.step \in Steps \ {"choose"}
  BY <1>1, RouteOf DEF Steps
<1>3. r \in Routed /\ p \in Pools /\ m \in Range(PlanModels) /\ HasPolicy(p, m)
  BY <1>2, TriedIs
<1>4. /\ TableTyped /\ now \in Nat /\ rows \in Seq(Row) /\ DOMAIN route = RouteWorkers
      /\ CallsReserved /\ RowsOwned /\ BoundedCalls
  BY DEF CapacityInv, TableTyped, RoutesTyped
<1>5. CASE rows' = rows /\ route' = [route EXCEPT ![w] = NextPool(r)]
  BY <1>1, <1>2, <1>5, NextPoolTyped, RouteMoves
<1>6. ASSUME Available(p, m, r.estimate, now), rows' = Append(kept, x),
             route' = [route EXCEPT ![w].step = "call", ![w].id = Len(rows) + 1,
                                    ![w].attempts = @ + 1]
      PROVE  CapacityInv'
  <2> DEFINE n == [r EXCEPT !.step = "call", !.id = Len(rows) + 1, !.attempts = @ + 1]
  <2>1. route' = [route EXCEPT ![w] = n]
    BY <1>4, <1>6
  <2>2. n.step = "call" /\ n.id = Len(rows) + 1 /\ n.pools = r.pools /\ n.model = r.model
    BY <1>3 DEF Routed
  <2>3. n \in Routed
    <3>1. "call" \in Steps /\ Len(rows) + 1 \in Nat
      BY <1>4 DEF Steps
    <3>2. r.attempts + 1 \in Nat
      BY <1>3 DEF Routed
    <3> QED
      BY <1>3, <3>1, <3>2 DEF Routed
  <2> HIDE DEF n
  <2>4. RouteTyped(n)
    BY <1>2, <2>2, <2>3 DEF RouteTyped, Steps
  <2>5. x \in Row /\ x.pool = p /\ x.model = m /\ x.at = now /\ x.state = "IN_FLIGHT"
        /\ x.expires > now
    <3>1. Policy(p, m).ttl \in Nat /\ Policy(p, m).ttl > 0
      BY <1>3, LimitsAreNumbers
    <3>2. r.estimate \in Estimates
      BY <1>3 DEF Routed
    <3> QED
      BY <1>3, <1>4, <3>1, <3>2 DEF Row, RowStates
  <2>6. /\ kept \in Seq(Row) /\ Len(kept) = Len(rows) /\ DOMAIN kept = DOMAIN rows
        /\ \A i \in DOMAIN rows :
             /\ kept[i].pool = rows[i].pool /\ kept[i].model = rows[i].model
             /\ kept[i].at = rows[i].at /\ kept[i].expires = rows[i].expires
             /\ kept[i].state = "NEWS" <=> rows[i].state = "NEWS"
             /\ rows[i].state = "IN_FLIGHT" /\ rows[i].expires > now
                  => kept[i].state = "IN_FLIGHT"
    <3>1. \A i \in DOMAIN rows : rows[i] \in Row /\ rows[i].expires \in Nat
      <4>1. \A i \in DOMAIN rows : rows[i] \in Row
        BY <1>4
      <4> QED
        BY <4>1 DEF Row
    <3>2. \A i \in DOMAIN rows : kept[i] \in Row
      BY <3>1 DEF Row, RowStates
    <3>3. kept \in Seq(Row) /\ Len(kept) = Len(rows) /\ DOMAIN kept = DOMAIN rows
      BY <1>4, <3>2
    <3>4. \A i \in DOMAIN rows :
             /\ kept[i].pool = rows[i].pool /\ kept[i].model = rows[i].model
             /\ kept[i].at = rows[i].at /\ kept[i].expires = rows[i].expires
             /\ kept[i].state = "NEWS" <=> rows[i].state = "NEWS"
      <4> TAKE i \in DOMAIN rows
      <4>1. rows[i] \in Row
        BY <3>1
      <4>2. CASE rows[i].state = "IN_FLIGHT" /\ rows[i].expires <= now
        <5>1. kept[i] = [rows[i] EXCEPT !.state = "ENDED"]
          BY <4>2
        <5> QED
          BY <4>1, <4>2, <5>1 DEF Row
      <4>3. CASE ~(rows[i].state = "IN_FLIGHT" /\ rows[i].expires <= now)
        <5>1. kept[i] = rows[i]
          BY <4>3
        <5> QED
          BY <5>1
      <4> QED
        BY <4>2, <4>3
    <3>5. \A i \in DOMAIN rows : rows[i].state = "IN_FLIGHT" /\ rows[i].expires > now
                                  => kept[i].state = "IN_FLIGHT"
      BY <1>4, <3>1
    <3> QED
      BY <3>3, <3>4, <3>5
  <2>7. rows' = Append(kept, x)
    BY <1>6
  <2> HIDE DEF x, kept
  <2>8. /\ rows' \in Seq(Row) /\ Len(rows') = Len(rows) + 1 /\ rows'[Len(rows')] = x
        /\ DOMAIN rows \subseteq DOMAIN rows' /\ \A i \in DOMAIN rows : rows'[i] = kept[i]
    BY <1>4, <2>5, <2>6, <2>7
  <2>9. Added(x, rows')
    BY <2>6, <2>8 DEF Added, SameRows
  <2>10. SoftAt(rows', Len(rows'))
    BY <1>3, <1>4, <1>6, <2>5, <2>8, <2>9, AdmittedBelowSoft DEF Added
  <2>11. WithinSoft' /\ TableTyped'
    BY <1>1, <2>5, <2>9, <2>10, AddedWithinSoft
  <2>12. /\ DOMAIN route' = RouteWorkers /\ route'[w] = n
         /\ \A v \in RouteWorkers : v # w => route'[v] = route[v]
    BY <1>4, <2>1
  <2>13. RoutesTyped'
    BY <2>4, <2>12, RouteOf DEF RoutesTyped
  <2>14. CallsReserved'
    <3> SUFFICES ASSUME NEW v \in RouteWorkers, OnCall(route'[v])
                 PROVE  HasRow(route'[v], rows', now)
      BY <1>1 DEF CallsReserved, HasRow
    <3>1. CASE v # w
      BY <2>9, <2>12, <3>1, AddedKeepsCalls
    <3>2. CASE v = w
      <4>1. Len(rows) + 1 \in DOMAIN rows' /\ Len(rows) + 1 = Len(rows')
        BY <1>4, <2>8
      <4> QED
        BY <2>2, <2>5, <2>8, <2>12, <3>2, <4>1 DEF HasRow
    <3> QED
      BY <3>1, <3>2
  <2>15. RowsOwned'
    <3>1. \A v \in RouteWorkers : OnCall(route[v]) => route[v].id # Len(rows) + 1
      <4>1. \A i \in DOMAIN rows : i # Len(rows) + 1
        BY <1>4
      <4> QED
        BY <1>4, <4>1 DEF CallsReserved, HasRow
    <3> QED
      BY <1>4, <2>2, <2>12, <3>1 DEF RowsOwned, Calling, OnCall
  <2>16. BoundedCalls'
    <3> SUFFICES ASSUME NEW pair \in Pairs, HasPolicy(pair[1], pair[2])
                 PROVE  Cardinality(CallsAt(route', pair)) <= Policy(pair[1], pair[2]).inFlight
      BY CallsThen
    <3>1. pair = <<pair[1], pair[2]>>
      BY DEF Pairs
    <3>2. /\ IsFiniteSet(CallsAt(route, pair)) /\ IsFiniteSet(InFlight(pair[1], pair[2], now))
          /\ Cardinality(CallsAt(route, pair)) <= Cardinality(InFlight(pair[1], pair[2], now))
      BY <1>4, <3>1, CallsAreReserved
    <3>3. Policy(pair[1], pair[2]).inFlight \in Nat
          /\ Cardinality(InFlight(pair[1], pair[2], now)) \in Nat
      BY <3>2, LimitsAreNumbers, FS_CardinalityType
    <3>4. CASE pair = <<p, m>>
      <4>1. CallsAt(route', pair) \subseteq CallsAt(route, pair) \cup {w}
        BY <2>12 DEF CallsAt
      <4>2. /\ Cardinality(CallsAt(route', pair)) <= Cardinality(CallsAt(route, pair)) + 1
            /\ Cardinality(CallsAt(route', pair)) \in Nat
            /\ Cardinality(CallsAt(route, pair)) \in Nat
        BY <3>2, <4>1, ByOneMore
      <4>3. Projected(p, m, r.estimate, now)[4] <= Limits(p, m)[4]
        BY <1>6 DEF Available
      <4>4. Cardinality(InFlight(p, m, now)) + 1 <= Policy(p, m).inFlight
        BY <1>3, <4>3, LimitsAreNumbers DEF Projected
      <4> QED
        BY <3>2, <3>3, <3>4, <4>2, <4>4
    <3>5. CASE pair # <<p, m>>
      <4>1. PairOf(n) = <<p, m>>
        BY <2>2 DEF PairOf
      <4>2. CallsAt(route', pair) \subseteq CallsAt(route, pair)
        BY <2>12, <3>5, <4>1 DEF CallsAt
      <4>3. /\ Cardinality(CallsAt(route', pair)) <= Cardinality(CallsAt(route, pair))
            /\ Cardinality(CallsAt(route', pair)) \in Nat
            /\ Cardinality(CallsAt(route, pair)) \in Nat
        BY <3>2, <4>2, FS_Subset, FS_CardinalityType
      <4>4. Cardinality(CallsAt(route, pair)) <= Policy(pair[1], pair[2]).inFlight
        BY <1>4, BoundedCallsIs
      <4> QED
        BY <3>3, <4>3, <4>4
    <3> QED
      BY <3>4, <3>5
  <2> QED
    BY <2>11, <2>13, <2>14, <2>15, <2>16 DEF CapacityInv
<1> QED
  BY <1>5, <1>6 DEF Reserve

-----------------------------------------------------------------------------
(* The theorem.                                                              *)

\* The empty table.
LEMMA CapacityInitially == CapacityInit => CapacityInv
<1> SUFFICES ASSUME CapacityInit PROVE CapacityInv
  OBVIOUS
<1>1. rows = <<>> /\ now = 0 /\ route = [w \in RouteWorkers |-> Unrouted]
  BY DEF CapacityInit
<1>2. rows \in Seq(Row) /\ DOMAIN rows = {}
  BY <1>1
<1>3. TableTyped /\ WithinSoft
  BY <1>1, <1>2 DEF TableTyped, WithinSoft
<1>4. \A w \in RouteWorkers : RouteTyped(route[w]) /\ ~OnCall(route[w])
  BY <1>1, UnroutedIs
<1>5. RoutesTyped /\ CallsReserved
  BY <1>1, <1>4 DEF RoutesTyped, CallsReserved, HasRow
<1>6. RowsOwned
  BY <1>4 DEF RowsOwned, Calling, OnCall
<1>7. BoundedCalls
  <2> SUFFICES ASSUME NEW pair \in Pairs, HasPolicy(pair[1], pair[2])
               PROVE  Cardinality(CallsAt(route, pair)) <= Policy(pair[1], pair[2]).inFlight
    BY BoundedCallsIs
  <2>1. CallsAt(route, pair) = {}
    BY <1>4 DEF CallsAt
  <2>2. Policy(pair[1], pair[2]).inFlight \in Nat
    BY LimitsAreNumbers
  <2> QED
    BY <2>1, <2>2, FS_EmptySet
<1> QED
  BY <1>3, <1>5, <1>6, <1>7 DEF CapacityInv

\* Every step keeps the invariant.
LEMMA CapacitySteps ==
  ASSUME CapacityInv, [CapacityNext]_capacityVars
  PROVE  CapacityInv'
<1>1. CASE UNCHANGED capacityVars
  <2>1. UNCHANGED <<now, rows, route>>
    BY <1>1 DEF capacityVars
  <2>2. TableTyped' /\ RoutesTyped' /\ RowsOwned'
    BY <2>1 DEF CapacityInv, TableTyped, RoutesTyped, RowsOwned, Calling
  <2>3. CallsReserved'
    BY <2>1 DEF CapacityInv, CallsReserved, HasRow
  <2>4. WithinSoft' /\ BoundedCalls'
    BY <2>1, WithinSoftIs, SoftThen, BoundedCallsIs, CallsThen DEF CapacityInv
  <2> QED
    BY <2>2, <2>3, <2>4 DEF CapacityInv
<1>2. CASE \E w \in RouteWorkers : BeginRoute(w) \/ Choose(w) \/ Reserve(w) \/ Confirm(w)
  BY <1>2, BeginRouteKeeps, ChooseKeeps, ReserveKeeps, ConfirmKeeps
<1>3. CASE \E w \in RouteWorkers : Lose(w) \/ Crash(w) \/ Outcome(w) \/ RefusedCall(w)
  BY <1>3, EndRouteKeeps, OutcomeKeeps
<1>4. CASE News \/ CapacityTick
  BY <1>4, NewsKeeps, ClockKeeps
<1> QED
  BY <1>1, <1>2, <1>3, <1>4 DEF CapacityNext

\* Soft capacity is protected before any provider refuses (_reserve_assistant_capacity):
\* whatever workers and news lanes do between a look at a pool and its reservation,
\* every request is admitted below the soft shares of its minute and its day, and no
\* pair has more calls under way than its policy allows.
THEOREM HeadroomIsKept == CapacitySpec => []HeadroomKept
<1>1. CapacityInit => CapacityInv
  BY CapacityInitially
<1>2. CapacityInv /\ [CapacityNext]_capacityVars => CapacityInv'
  BY CapacitySteps
<1>3. CapacityInv => HeadroomKept
  BY DEF CapacityInv, HeadroomKept
<1> QED
  BY <1>1, <1>2, <1>3, PTL DEF CapacitySpec
=============================================================================

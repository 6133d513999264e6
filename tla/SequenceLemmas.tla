---------------------------- MODULE SequenceLemmas ----------------------------
(***************************************************************************)
(* Facts about sequences and finite sets of numbers that proofs cite.  A   *)
(* sequence here is one of its own elements, q \in Seq(Range(q)): the      *)
(* elements of the models' queues are records of different shapes.         *)
(***************************************************************************)
EXTENDS Integers, Sequences, FiniteSets, SequencesExt, Functions, FiniteSetTheorems, TLAPS

(* A set of natural numbers that is not empty has a least one.             *)
LEMMA LeastNatural ==
  ASSUME NEW T \in SUBSET Nat, T # {}
  PROVE  \E x \in T : \A y \in T : x <= y
<1> DEFINE R == {ss \in Nat \X Nat : ss[1] < ss[2]}
<1>0. IsWellFoundedOn(R, Nat)
  BY NatLessThanWellFounded DEF OpToRel
<1> HIDE DEF R
<1>1. PICK x \in T : \A y \in T : ~(<<y, x>> \in R)
  BY <1>0, WFMin
<1>2. ASSUME NEW y \in T PROVE x <= y
  <2>1. x \in Nat /\ y \in Nat
    OBVIOUS
  <2>2. <<y, x>> \in Nat \X Nat /\ <<y, x>>[1] = y /\ <<y, x>>[2] = x
    BY <2>1
  <2>3. ~(y < x)
    BY <1>1, <2>2 DEF R
  <2> QED
    BY <2>1, <2>3
<1> QED
  BY <1>2

(* Which Min finds: SelectInSeq stands on it.                              *)
LEMMA MinIsLeast ==
  ASSUME NEW T \in SUBSET Nat, T # {}
  PROVE  Min(T) \in T /\ \A y \in T : Min(T) <= y
BY LeastNatural DEF Min

(* A sequence over any set is one of its own elements.                     *)
LEMMA RangeOfSequence ==
  ASSUME NEW T, NEW r \in Seq(T)
  PROVE  r \in Seq(Range(r)) /\ DOMAIN r = 1 .. Len(r) /\ Len(r) \in Nat
<1>1. DOMAIN r = 1 .. Len(r) /\ Len(r) \in Nat
  OBVIOUS
<1>2. \A i \in 1 .. Len(r) : r[i] \in Range(r)
  BY <1>1 DEF Range
<1>3. r \in [1 .. Len(r) -> Range(r)]
  BY <1>1, <1>2
<1> QED
  BY <1>1, <1>3

(* So is a function on 1 .. n.                                             *)
LEMMA FunctionAny ==
  ASSUME NEW n \in Nat, NEW f, f = [i \in 1 .. n |-> f[i]]
  PROVE  f \in Seq(Range(f)) /\ Len(f) = n /\ DOMAIN f = 1 .. n
<1>1. DOMAIN f = 1 .. n
  OBVIOUS
<1>2. \A i \in 1 .. n : f[i] \in Range(f)
  BY <1>1 DEF Range
<1> DEFINE S == Range(f)
<1>3. f \in [1 .. n -> S]
  BY <1>2
<1> HIDE DEF S
<1>4. f \in Seq(S) /\ Len(f) = n
  BY <1>3
<1> QED
  BY <1>1, <1>4 DEF S

(* One element of a sequence is replaced.                                  *)
LEMMA ExceptAny ==
  ASSUME NEW q, q \in Seq(Range(q)), NEW p, NEW e
  PROVE  /\ [q EXCEPT ![p] = e] \in Seq(Range([q EXCEPT ![p] = e]))
         /\ DOMAIN [q EXCEPT ![p] = e] = 1 .. Len(q) /\ DOMAIN q = 1 .. Len(q)
         /\ Len([q EXCEPT ![p] = e]) = Len(q) /\ Len(q) \in Nat
         /\ \A i \in 1 .. Len(q) : i # p => [q EXCEPT ![p] = e][i] = q[i]
         /\ p \in 1 .. Len(q) => [q EXCEPT ![p] = e][p] = e
<1> DEFINE r == [q EXCEPT ![p] = e]
<1>1. DOMAIN q = 1 .. Len(q) /\ Len(q) \in Nat
  BY RangeOfSequence
<1>2. /\ DOMAIN r = 1 .. Len(q)
      /\ \A i \in 1 .. Len(q) : i # p => r[i] = q[i]
      /\ p \in 1 .. Len(q) => r[p] = e
  BY <1>1
<1>3. r = [i \in 1 .. Len(q) |-> r[i]]
  BY <1>1
<1> HIDE DEF r
<1>4. r \in Seq(Range(r)) /\ Len(r) = Len(q)
  BY <1>1, <1>3, FunctionAny
<1> QED
  BY <1>1, <1>2, <1>4 DEF r

(* The same for sequences over a known set.                                *)
LEMMA SeqExcept ==
  ASSUME NEW S, NEW q \in Seq(S), NEW p \in 1 .. Len(q), NEW e \in S
  PROVE  LET r == [q EXCEPT ![p] = e]
         IN  /\ r \in Seq(S) /\ Len(r) = Len(q) /\ r[p] = e
             /\ \A i \in 1 .. Len(q) : i # p => r[i] = q[i]
<1> DEFINE r == [q EXCEPT ![p] = e]
<1>1. q \in [1 .. Len(q) -> S] /\ Len(q) \in Nat
  OBVIOUS
<1>2. r \in [1 .. Len(q) -> S] /\ r[p] = e /\ \A i \in 1 .. Len(q) : i # p => r[i] = q[i]
  BY <1>1
<1> HIDE DEF r
<1>3. r \in Seq(S) /\ Len(r) = Len(q)
  BY <1>1, <1>2
<1> QED
  BY <1>2, <1>3 DEF r

(* An element comes to the end.                                            *)
LEMMA AppendAny ==
  ASSUME NEW q, q \in Seq(Range(q)), NEW e
  PROVE  /\ Append(q, e) \in Seq(Range(Append(q, e)))
         /\ DOMAIN Append(q, e) = 1 .. Len(q) + 1
         /\ Len(Append(q, e)) = Len(q) + 1
         /\ \A i \in 1 .. Len(q) : Append(q, e)[i] = q[i]
         /\ Append(q, e)[Len(q) + 1] = e
<1> DEFINE S == Range(q) \cup {e}
<1>1. q \in Seq(S)
  OBVIOUS
<1> HIDE DEF S
<1>2. e \in S
  BY DEF S
<1>3. Append(q, e) \in Seq(S)
  BY <1>1, <1>2
<1>4. /\ Append(q, e) \in Seq(Range(Append(q, e)))
  BY <1>3, RangeOfSequence
<1>5. DOMAIN Append(q, e) = 1 .. Len(q) + 1 /\ Len(Append(q, e)) = Len(q) + 1
         /\ \A i \in 1 .. Len(q) : Append(q, e)[i] = q[i]
         /\ Append(q, e)[Len(q) + 1] = e
  BY <1>1, <1>2
<1> QED
  BY <1>4, <1>5

(* One sequence after another.                                             *)
LEMMA ConcatAny ==
  ASSUME NEW q, q \in Seq(Range(q)), NEW r, r \in Seq(Range(r))
  PROVE  /\ q \o r \in Seq(Range(q \o r))
         /\ DOMAIN (q \o r) = 1 .. Len(q) + Len(r)
         /\ Len(q \o r) = Len(q) + Len(r) /\ Len(q) \in Nat /\ Len(r) \in Nat
         /\ \A i \in 1 .. Len(q) : (q \o r)[i] = q[i]
         /\ \A i \in Len(q) + 1 .. Len(q) + Len(r) : (q \o r)[i] = r[i - Len(q)]
<1> DEFINE S == Range(q) \cup Range(r)
<1>1. q \in Seq(S) /\ r \in Seq(S)
  OBVIOUS
<1> HIDE DEF S
<1>2. q \o r \in Seq(S)
  BY <1>1
<1>3. q \o r \in Seq(Range(q \o r))
  BY <1>2, RangeOfSequence
<1>4. /\ DOMAIN (q \o r) = 1 .. Len(q) + Len(r)
      /\ Len(q \o r) = Len(q) + Len(r) /\ Len(q) \in Nat /\ Len(r) \in Nat
      /\ \A i \in 1 .. Len(q) : (q \o r)[i] = q[i]
      /\ \A i \in Len(q) + 1 .. Len(q) + Len(r) : (q \o r)[i] = r[i - Len(q)]
  BY <1>1
<1> QED
  BY <1>3, <1>4

(* The sequences of one element and of none.                               *)
LEMMA SingletonAny ==
  ASSUME NEW e
  PROVE  /\ <<e>> \in Seq(Range(<<e>>)) /\ Len(<<e>>) = 1 /\ <<e>>[1] = e
         /\ <<>> \in Seq(Range(<<>>)) /\ Len(<<>>) = 0
<1>1. <<e>> \in Seq({e}) /\ Len(<<e>>) = 1 /\ <<e>>[1] = e
  OBVIOUS
<1>2. <<>> \in Seq({}) /\ Len(<<>>) = 0
  OBVIOUS
<1> QED
  BY <1>1, <1>2, RangeOfSequence

(* The first element goes.                                                 *)
LEMMA TailAny ==
  ASSUME NEW q, q \in Seq(Range(q)), q # <<>>
  PROVE  /\ Tail(q) \in Seq(Range(Tail(q)))
         /\ DOMAIN Tail(q) = 1 .. Len(q) - 1
         /\ Len(Tail(q)) = Len(q) - 1 /\ Len(q) \in Nat \ {0}
         /\ \A i \in 1 .. Len(q) - 1 : Tail(q)[i] = q[i + 1]
         /\ Head(q) = q[1]
<1>1. Tail(q) \in Seq(Range(q))
  OBVIOUS
<1>2. /\ DOMAIN Tail(q) = 1 .. Len(q) - 1
         /\ Len(Tail(q)) = Len(q) - 1 /\ Len(q) \in Nat \ {0}
         /\ \A i \in 1 .. Len(q) - 1 : Tail(q)[i] = q[i + 1]
         /\ Head(q) = q[1]
  OBVIOUS
<1>3. Tail(q) \in Seq(Range(Tail(q)))
  BY <1>1, RangeOfSequence
<1> QED
  BY <1>2, <1>3

(* One sequence after another, over the same set.                          *)
LEMMA ConcatSeq ==
  ASSUME NEW S, NEW p \in Seq(S), NEW q \in Seq(S)
  PROVE  /\ p \o q \in Seq(S) /\ Len(p \o q) = Len(p) + Len(q)
         /\ \A j \in 1 .. Len(p) : (p \o q)[j] = p[j]
         /\ \A j \in Len(p) + 1 .. Len(p) + Len(q) : (p \o q)[j] = q[j - Len(p)]
<1>1. p \o q \in Seq(S)
  OBVIOUS
<1>2. Len(p \o q) = Len(p) + Len(q)
  OBVIOUS
<1>3. \A j \in 1 .. Len(p) : (p \o q)[j] = p[j]
  OBVIOUS
<1>4. \A j \in Len(p) + 1 .. Len(p) + Len(q) : (p \o q)[j] = q[j - Len(p)]
  OBVIOUS
<1> QED
  BY <1>1, <1>2, <1>3, <1>4

(* An element goes from where it is first.                                 *)
LEMMA RemoveFirstIs ==
  ASSUME NEW S, NEW q \in Seq(S), NEW e
  PROVE  LET r == RemoveFirst(q, e)
         IN  /\ r \in Seq(S)
             /\ \/ r = q /\ \A j \in 1 .. Len(q) : q[j] # e
                \/ \E k \in 1 .. Len(q) :
                      /\ q[k] = e /\ Len(r) = Len(q) - 1
                      /\ \A j \in 1 .. k - 1 : r[j] = q[j]
                      /\ \A j \in k .. Len(q) - 1 : r[j] = q[j + 1]
<1>1. CASE \A j \in 1 .. Len(q) : q[j] # e
  BY <1>1 DEF RemoveFirst
<1>2. CASE \E j \in 1 .. Len(q) : q[j] = e
  <2> DEFINE I == {j \in 1 .. Len(q) : q[j] = e}
             k == SelectInSeq(q, LAMBDA v : v = e)
  <2>1. k = IF I # {} THEN Min(I) ELSE 0
    BY DEF SelectInSeq
  <2>2. I # {} /\ I \in SUBSET Nat
    BY <1>2
  <2>3. k \in I
    BY <2>1, <2>2, MinIsLeast
  <2>4. k \in 1 .. Len(q) /\ q[k] = e
    BY <2>3
  <2>5. RemoveFirst(q, e) = SubSeq(q, 1, k - 1) \o SubSeq(q, k + 1, Len(q))
    BY <1>2 DEF RemoveFirst, RemoveAt
  <2> HIDE DEF k, I
  <2> DEFINE a == SubSeq(q, 1, k - 1)
             b == SubSeq(q, k + 1, Len(q))
  <2>6. /\ a \in Seq(S) /\ Len(a) = k - 1 /\ \A j \in 1 .. k - 1 : a[j] = q[j]
        /\ b \in Seq(S) /\ Len(b) = Len(q) - k /\ \A j \in 1 .. Len(q) - k : b[j] = q[k + j]
    BY <2>4
  <2> HIDE DEF a, b
  <2>7. /\ a \o b \in Seq(S) /\ Len(a \o b) = Len(q) - 1
        /\ \A j \in 1 .. k - 1 : (a \o b)[j] = q[j]
        /\ \A j \in k .. Len(q) - 1 : (a \o b)[j] = b[j - (k - 1)]
    <3>1. /\ a \o b \in Seq(S) /\ Len(a \o b) = Len(a) + Len(b)
          /\ \A j \in 1 .. Len(a) : (a \o b)[j] = a[j]
          /\ \A j \in Len(a) + 1 .. Len(a) + Len(b) : (a \o b)[j] = b[j - Len(a)]
      BY <2>6, ConcatSeq
    <3>2. Len(a) + 1 = k /\ Len(a) + Len(b) = Len(q) - 1
      BY <2>4, <2>6
    <3> QED
      BY <2>6, <3>1, <3>2
  <2>8. \A j \in k .. Len(q) - 1 : j - (k - 1) \in 1 .. Len(q) - k /\ k + (j - (k - 1)) = j + 1
    BY <2>4
  <2>9. \A j \in k .. Len(q) - 1 : (a \o b)[j] = q[j + 1]
    BY <2>6, <2>7, <2>8
  <2> QED
    BY <2>4, <2>5, <2>7, <2>9 DEF a, b
<1> QED
  BY <1>1, <1>2

(* The elements of order get greater. *)
Ascending(order) == \A i, j \in DOMAIN order : i < j => order[i] < order[j]

(* A finite set of numbers can be listed from the least to the greatest:   *)
(* the smallest set that cannot would, without its least element, be a     *)
(* smaller one.                                                            *)
LEMMA AscendingExists ==
  ASSUME NEW S \in SUBSET Nat, IsFiniteSet(S)
  PROVE  \E order \in [1 .. Cardinality(S) -> S] : Ascending(order)
<1> DEFINE Has(T) == \E order \in [1 .. Cardinality(T) -> T] : Ascending(order)
           B == {n \in Nat : \E T \in SUBSET Nat : IsFiniteSet(T) /\ Cardinality(T) = n /\ ~Has(T)}
<1>1. ASSUME B # {} PROVE FALSE
  <2>1. PICK n \in B : \A k \in B : n <= k
    BY <1>1, LeastNatural
  <2>2. PICK T \in SUBSET Nat : IsFiniteSet(T) /\ Cardinality(T) = n /\ ~Has(T)
    BY <2>1
  <2>3. CASE n = 0
    <3>1. [i \in 1 .. 0 |-> i] \in [1 .. Cardinality(T) -> T] /\ Ascending([i \in 1 .. 0 |-> i])
      BY <2>2, <2>3 DEF Ascending
    <3> QED
      BY <2>2, <3>1
  <2>4. CASE n # 0
    <3>1. T # {}
      BY <2>2, <2>4, FS_EmptySet
    <3>2. PICK m \in T : \A k \in T : m <= k
      BY <3>1, LeastNatural
    <3>3. IsFiniteSet(T \ {m}) /\ Cardinality(T \ {m}) = n - 1 /\ T \ {m} \in SUBSET Nat
      BY <2>2, FS_RemoveElement
    <3>4. n - 1 \in Nat /\ n \in Nat /\ ~(n <= n - 1)
      BY <2>1, <2>4
    <3>5. n - 1 \notin B
      BY <2>1, <3>4
    <3>6. Has(T \ {m})
      BY <3>3, <3>4, <3>5
    <3> HIDE DEF B
    <3>7. PICK rest \in [1 .. n - 1 -> T \ {m}] : Ascending(rest)
      BY <3>3, <3>6
    <3> DEFINE all == [i \in 1 .. n |-> IF i = 1 THEN m ELSE rest[i - 1]]
    <3>8. \A i \in 1 .. n : i # 1 => i - 1 \in 1 .. n - 1
      BY <3>4
    <3>9. all \in [1 .. n -> T]
      BY <3>7, <3>8
    <3>10. ASSUME NEW i \in 1 .. n, NEW j \in 1 .. n, i < j PROVE all[i] < all[j]
      <4>1. j # 1 /\ j - 1 \in 1 .. n - 1 /\ all[j] = rest[j - 1] /\ all[j] \in T \ {m}
        BY <3>7, <3>8, <3>10
      <4>2. CASE i = 1
        <5>1. all[i] = m /\ all[j] \in Nat /\ m \in Nat /\ m # all[j] /\ m <= all[j]
          BY <4>1, <4>2, <3>2
        <5> QED
          BY <5>1
      <4>3. CASE i # 1
        <5>1. i - 1 \in 1 .. n - 1 /\ all[i] = rest[i - 1] /\ i - 1 < j - 1
          BY <3>8, <3>10, <4>3
        <5> QED
          BY <3>7, <4>1, <5>1 DEF Ascending
      <4> QED
        BY <4>2, <4>3
    <3> HIDE DEF all
    <3>11. Ascending(all)
      BY <3>9, <3>10 DEF Ascending
    <3> QED
      BY <2>2, <3>9, <3>11
  <2> QED
    BY <2>3, <2>4
<1>2. Cardinality(S) \in Nat
  BY FS_CardinalityType
<1> QED
  BY <1>1, <1>2

(* Such a list has every element of the set.                               *)
LEMMA AscendingCovers ==
  ASSUME NEW S \in SUBSET Nat, IsFiniteSet(S),
         NEW order \in [1 .. Cardinality(S) -> S], Ascending(order)
  PROVE  \A x \in S : \E i \in 1 .. Cardinality(S) : order[i] = x
<1> DEFINE n == Cardinality(S)
<1>1. n \in Nat
  BY FS_CardinalityType
<1>2. IsFiniteSet(1 .. n) /\ Cardinality(1 .. n) = n
  BY <1>1, FS_Interval
<1>3. IsInjective(order)
  <2> SUFFICES ASSUME NEW a \in 1 .. n, NEW b \in 1 .. n, order[a] = order[b] PROVE a = b
    BY DEF IsInjective
  <2>1. order[a] \in Nat /\ order[b] \in Nat
    OBVIOUS
  <2>2. ~(a < b) /\ ~(b < a)
    BY <2>1 DEF Ascending
  <2> QED
    BY <1>1, <2>2
<1> HIDE DEF n
<1>4. order \in Injection(1 .. n, S)
  BY <1>3 DEF Injection, n
<1>5. order \in Surjection(1 .. n, S)
  BY <1>2, <1>4, FS_Injection DEF n
<1> QED
  BY <1>5 DEF Surjection, n

(* A sequence without repetition is no longer than the set is large.       *)
LEMMA InjectiveIsShort ==
  ASSUME NEW S, IsFiniteSet(S), NEW q \in Seq(S), IsInjective(q)
  PROVE  Len(q) \in Nat /\ Cardinality(S) \in Nat /\ Len(q) <= Cardinality(S)
<1>0. PICK n \in Nat : n = Len(q)
  OBVIOUS
<1>1. Cardinality(S) \in Nat
  BY FS_CardinalityType
<1>2. IsFiniteSet(1 .. n) /\ Cardinality(1 .. n) = n
  <2>1. \A k \in Nat : 1 \in Int /\ k \in Int /\ (IF 1 > k THEN 0 ELSE k - 1 + 1) = k
    OBVIOUS
  <2> QED
    BY <2>1, FS_Interval
<1>3. q \in Injection(1 .. n, S)
  <2>1. q \in [1 .. n -> S]
    BY <1>0
  <2> QED
    BY <2>1 DEF Injection
<1>4. Cardinality(1 .. n) <= Cardinality(S)
  BY <1>3, FS_Injection
<1> QED
  BY <1>0, <1>1, <1>2, <1>4

-----------------------------------------------------------------------------
(* A fold of the community modules is a function iter on the subsets of a  *)
(* finite set; C chooses the element that is folded last, F folds it.      *)

Chooses(S, C) == \A s \in SUBSET S : s # {} => C[s] \in s
Keeps(S, H, F) == \A x \in S, y \in H : F[<<x, y>>] \in H
Folding(S, base, C, F, iter) ==
  \A s \in SUBSET S : iter[s] = IF s = {} THEN base ELSE F[<<C[s], iter[s \ {C[s]}]>>]

(* There is such a function, and it stays in the set H that F stays in.    *)
LEMMA IterExists ==
  ASSUME NEW S, IsFiniteSet(S), NEW H, NEW base \in H,
         NEW C, Chooses(S, C), NEW F, Keeps(S, H, F)
  PROVE  \E iter \in [SUBSET S -> H] : Folding(S, base, C, F, iter)
<1> DEFINE Up(n) == {s \in SUBSET S : Cardinality(s) <= n}
           Good(n, g) == \A s \in Up(n) :
                            g[s] = IF s = {} THEN base ELSE F[<<C[s], g[s \ {C[s]}]>>]
           B == {n \in Nat : ~\E g \in [Up(n) -> H] : Good(n, g)}
<1>0. \A s \in SUBSET S : IsFiniteSet(s) /\ Cardinality(s) \in Nat
  BY FS_Subset, FS_CardinalityType
<1>1. \A s \in SUBSET S : Cardinality(s) = 0 <=> s = {}
  BY <1>0, FS_EmptySet
<1>2. \A s \in SUBSET S : s # {} => /\ s \ {C[s]} \in SUBSET S
                                   /\ Cardinality(s \ {C[s]}) = Cardinality(s) - 1
  BY <1>0, FS_RemoveElement DEF Chooses
<1>3. \E g \in [Up(0) -> H] : Good(0, g)
  <2>1. \A s \in Up(0) : s = {}
    BY <1>0, <1>1
  <2> WITNESS [s \in Up(0) |-> base] \in [Up(0) -> H]
  <2> QED
    BY <2>1
<1>4. ASSUME NEW n \in Nat, NEW g \in [Up(n) -> H], Good(n, g)
      PROVE  \E r \in [Up(n + 1) -> H] : Good(n + 1, r)
  <2> DEFINE r == [s \in Up(n + 1) |-> IF s = {} THEN base ELSE F[<<C[s], g[s \ {C[s]}]>>]]
  <2>1. \A s \in Up(n + 1) : s # {} => s \ {C[s]} \in Up(n) /\ C[s] \in S
    BY <1>0, <1>2 DEF Chooses
  <2>2. r \in [Up(n + 1) -> H]
    BY <2>1 DEF Keeps
  <2>3. \A s \in Up(n) : s \in Up(n + 1) /\ r[s] = g[s]
    BY <1>0, <1>4
  <2>4. \A s \in Up(n + 1) : r[s] = IF s = {} THEN base ELSE F[<<C[s], r[s \ {C[s]}]>>]
    BY <2>1, <2>3
  <2> HIDE DEF r
  <2> QED
    BY <2>2, <2>4
<1>5. B = {}
  <2> SUFFICES ASSUME B # {} PROVE FALSE
    OBVIOUS
  <2>1. PICK n \in B : \A y \in B : n <= y
    BY LeastNatural
  <2>2. n \in Nat /\ n # 0 /\ n - 1 \in Nat /\ n - 1 \notin B
    <3>1. 0 \notin B
      <4> HIDE DEF Up, Good
      <4> QED
        BY <1>3
    <3> HIDE DEF B
    <3>2. n \in Nat /\ n # 0
      BY <2>1, <3>1 DEF B
    <3> QED
      BY <2>1, <3>2
  <2>3. PICK g \in [Up(n - 1) -> H] : Good(n - 1, g)
    BY <2>2
  <2>4. \E r \in [Up(n - 1 + 1) -> H] : Good(n - 1 + 1, r)
    <3> HIDE DEF Up, Good
    <3> QED
      BY <1>4, <2>2, <2>3
  <2>5. n - 1 + 1 = n
    BY <2>2
  <2>6. \E r \in [Up(n) -> H] : Good(n, r)
    <3> HIDE DEF Up, Good
    <3> QED
      BY <2>4, <2>5
  <2> QED
    BY <2>1, <2>6
<1>6. PICK g \in [Up(Cardinality(S)) -> H] : Good(Cardinality(S), g)
  BY <1>0, <1>5
<1>7. Up(Cardinality(S)) = SUBSET S
  BY FS_Subset
<1> QED
  BY <1>6, <1>7 DEF Folding

(* What holds of the empty set, and of a set if it holds of that set       *)
(* without the element folded last, holds of the whole set.                *)
LEMMA SubsetInduction ==
  ASSUME NEW S, IsFiniteSet(S), NEW C, Chooses(S, C), NEW G, {} \in G,
         \A s \in SUBSET S : s # {} /\ s \ {C[s]} \in G => s \in G
  PROVE  S \in G
<1> DEFINE B == {n \in Nat : \E s \in SUBSET S : Cardinality(s) = n /\ s \notin G}
<1>0. \A s \in SUBSET S : IsFiniteSet(s) /\ Cardinality(s) \in Nat
  BY FS_Subset, FS_CardinalityType
<1>1. B = {}
  <2> SUFFICES ASSUME B # {} PROVE FALSE
    OBVIOUS
  <2>1. PICK n \in B : \A y \in B : n <= y
    BY LeastNatural
  <2>2. PICK s \in SUBSET S : Cardinality(s) = n /\ s \notin G
    BY <2>1
  <2>3. s # {}
    BY <2>2
  <2>4. s \ {C[s]} \in SUBSET S /\ Cardinality(s \ {C[s]}) = n - 1 /\ n - 1 \in Nat
    <3>1. C[s] \in s /\ IsFiniteSet(s) /\ n \in Nat
      BY <1>0, <2>1, <2>3 DEF Chooses
    <3>2. Cardinality(s \ {C[s]}) = Cardinality(s) - 1
      BY <3>1, FS_RemoveElement
    <3>3. Cardinality(s) # 0
      BY <2>3, <3>1, FS_EmptySet
    <3> QED
      BY <2>2, <3>1, <3>2, <3>3
  <2>5. n - 1 \in B
    BY <2>2, <2>3, <2>4
  <2> QED
    BY <2>1, <2>4, <2>5
<1> QED
  BY <1>0, <1>1

(* So a function that is built like a fold stays in a set.                 *)
LEMMA IterStays ==
  ASSUME NEW S, IsFiniteSet(S), NEW H,
         NEW C, Chooses(S, C), NEW iter, iter[{}] \in H,
         \A s \in SUBSET S : s # {} /\ iter[s \ {C[s]}] \in H => iter[s] \in H
  PROVE  iter[S] \in H
<1> DEFINE G == {s \in SUBSET S : iter[s] \in H}
<1>1. {} \in G /\ \A s \in SUBSET S : s # {} /\ s \ {C[s]} \in G => s \in G
  OBVIOUS
<1>2. S \in G
  <2> HIDE DEF G
  <2> QED
    BY <1>1, SubsetInduction
<1> QED
  BY <1>2

(* The greatest of some numbers is one of them, and no other is greater.   *)
LEMMA MaxIsIn ==
  ASSUME NEW n \in Nat, NEW s \in SUBSET (1 .. n), s # {}
  PROVE  Max(s) \in s /\ \A y \in s : y <= Max(s)
<1> DEFINE T == {m \in Nat : \E x \in s : m = n - x}
<1>1. T \in SUBSET Nat /\ T # {}
  <2>1. PICK x \in s : TRUE
    OBVIOUS
  <2>2. n - x \in T
    BY <2>1
  <2> QED
    BY <2>2
<1>2. PICK m \in T : \A y \in T : m <= y
  <2> HIDE DEF T
  <2> QED
    BY <1>1, LeastNatural
<1>3. PICK x \in s : m = n - x
  OBVIOUS
<1>4. \A y \in s : x >= y
  <2> SUFFICES ASSUME NEW y \in s PROVE x >= y
    OBVIOUS
  <2>1. n - y \in T
    OBVIOUS
  <2>2. m <= n - y
    BY <1>2, <2>1
  <2> QED
    BY <1>3, <2>2
<1>5. Max(s) \in s /\ \A y \in s : Max(s) >= y
  BY <1>4 DEF Max
<1> HIDE DEF T
<1>6. \A y \in s : y \in Int
  OBVIOUS
<1> QED
  BY <1>5, <1>6
=============================================================================

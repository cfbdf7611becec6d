------------------------------ MODULE Induction -------------------------------
(***************************************************************************)
(* Induction over the natural numbers, functions defined by recursion and  *)
(* sums, for the proofs about pages, streams, sorting and files.  They     *)
(* rest on WFMin of WellFoundedInduction: a nonempty set of numbers has a  *)
(* least member.  A recursive function is taken as the iterates of a step. *)
(* Then the places of the members of an ordered set, the runs of a         *)
(* function along a sequence, and what flattening a sequence of sequences  *)
(* leads to: its sums, its runs and where its parts are.                   *)
(***************************************************************************)
EXTENDS SequencesExt, Sums, WellFoundedInduction, SequenceTheorems, FiniteSetTheorems, TLAPS

\* The numbers below a number: no infinite descent.
LEMMA Below == IsWellFoundedOn({ss \in Nat \X Nat : ss[1] < ss[2]}, Nat)
  BY NatLessThanWellFounded, Zenon DEF OpToRel

\* Induction over the natural numbers, as a statement about sets.
LEMMA Induction ==
  ASSUME NEW T, T \subseteq Nat, 0 \in T, \A n \in T : n + 1 \in T
  PROVE  T = Nat
<1> DEFINE R == {ss \in Nat \X Nat : ss[1] < ss[2]}
           U == Nat \ T
<1>1. SUFFICES ASSUME U # {} PROVE FALSE
  OBVIOUS
<1>2. IsWellFoundedOn(R, Nat)
  BY Below
<1>3. U \subseteq Nat
  OBVIOUS
<1>4. \E x \in U : \A y \in U : ~ (<<y, x>> \in R)
  <2> HIDE DEF R, U
  <2> QED BY <1>1, <1>2, <1>3, WFMin
<1>5. PICK x \in U : \A y \in U : ~ (<<y, x>> \in R)
  BY <1>4
<1>6. x # 0 /\ x \in Nat
  OBVIOUS
<1>7. x - 1 \in U
  BY <1>6
<1>8. <<x - 1, x>> \in R
  BY <1>6
<1> QED BY <1>5, <1>7, <1>8

\* A nonempty set of natural numbers has a smallest member.
LEMMA SmallestOf ==
  ASSUME NEW U, U \subseteq Nat, U # {}
  PROVE  \E m \in U : \A n \in U : m <= n
<1> DEFINE R == {ss \in Nat \X Nat : ss[1] < ss[2]}
<1>1. \E x \in U : \A y \in U : ~ (<<y, x>> \in R)
  <2>1. IsWellFoundedOn(R, Nat)
    BY Below
  <2> HIDE DEF R
  <2> QED BY <2>1, WFMin
<1>2. PICK x \in U : \A y \in U : ~ (<<y, x>> \in R)
  BY <1>1
<1>3. ASSUME NEW n \in U PROVE x <= n
  <2>1. n \in Nat /\ x \in Nat /\ <<n, x>> \notin R
    BY <1>2
  <2>2. ~(n < x)
    BY <2>1
  <2> QED BY <2>1, <2>2
<1> QED BY <1>3

\* A nonempty set of numbers up to N has a largest member.
LEMMA LargestOf ==
  ASSUME NEW N \in Nat, NEW F, F \subseteq 0..N, F # {}
  PROVE  \E m \in F : \A n \in F : n <= m
<1> DEFINE U == {k \in Nat : N - k \in F}
<1>1. U # {}
  <2>1. PICK f : f \in F
    OBVIOUS
  <2>2. N - f \in Nat /\ N - (N - f) = f
    BY <2>1
  <2> QED BY <2>1, <2>2
<1>2. PICK m \in U : \A n \in U : m <= n
  <2>1. U \subseteq Nat
    OBVIOUS
  <2> HIDE DEF U
  <2> QED BY <1>1, <2>1, SmallestOf
<1>3. ASSUME NEW n \in F PROVE n <= N - m
  <2>1. N - n \in U
    OBVIOUS
  <2> QED BY <1>2, <2>1
<1> QED BY <1>2, <1>3

\* Steps from one value to the next, and what they lead to from v0.
Steps(S, V) == [S -> [V -> V]]
Iterates(V, v0, step) ==
  {g \in [Nat -> V] : g[0] = v0 /\ \A n \in Nat : g[n + 1] = step[n][g[n]]}
IteratesUpTo(N, V, v0, step) ==
  {h \in [0..N -> V] : h[0] = v0 /\ \A n \in 1..N : h[n] = step[n][h[n - 1]]}

\* A function defined from its value one below exists on the natural numbers.
LEMMA RecursionOnNat ==
  ASSUME NEW V, NEW v0, v0 \in V, NEW step, step \in Steps(Nat, V)
  PROVE  Iterates(V, v0, step) # {}
<1> USE DEF Steps
<1> DEFINE Approx(n) == {h \in [0..n -> V] : /\ h[0] = v0
                                             /\ \A k \in 0..(n - 1) : h[k + 1] = step[k][h[k]]}
           T == {n \in Nat : Approx(n) # {}}
           Q == {n \in Nat : \A m \in Nat : m >= n =>
                   \A h \in Approx(n), j \in Approx(m) : h[n] = j[n]}
<1>1. 0 \in T
  <2>1. [k \in 0..0 |-> v0] \in Approx(0)
    OBVIOUS
  <2> QED BY <2>1
<1>2. ASSUME NEW n \in T PROVE n + 1 \in T
  <2>1. n \in Nat
    OBVIOUS
  <2>2. PICK h : h \in Approx(n)
    OBVIOUS
  <2>3. n \in 0..n /\ h[n] \in V /\ step[n][h[n]] \in V
    BY <2>1, <2>2
  <2> DEFINE j == [k \in 0..(n + 1) |-> IF k = n + 1 THEN step[n][h[n]] ELSE h[k]]
  <2>4. j \in [0..(n + 1) -> V]
    BY <2>1, <2>2, <2>3
  <2>5. j[0] = v0
    BY <2>1, <2>2
  <2>6. \A k \in 0..((n + 1) - 1) : j[k + 1] = step[k][j[k]]
    BY <2>1, <2>2
  <2>7. j \in Approx(n + 1)
    BY <2>4, <2>5, <2>6
  <2> HIDE DEF j, Approx
  <2> QED BY <2>1, <2>7
<1>3. T = Nat
  <2>1. T \subseteq Nat
    OBVIOUS
  <2> HIDE DEF T
  <2> QED BY <1>1, <1>2, <2>1, Induction
<1>4. 0 \in Q
  OBVIOUS
<1>5. ASSUME NEW n \in Q PROVE n + 1 \in Q
  <2>1. n \in Nat /\ n + 1 \in Nat
    OBVIOUS
  <2>2. ASSUME NEW m \in Nat, m >= n + 1, NEW h \in Approx(n + 1), NEW j \in Approx(m)
        PROVE  h[n + 1] = j[n + 1]
    <3> DEFINE h1 == [k \in 0..n |-> h[k]]
    <3>1. h1 \in Approx(n)
      BY <2>1
    <3>2. h1[n] = j[n]
      <4>1. m >= n
        BY <2>1, <2>2
      <4> HIDE DEF h1, Approx
      <4> QED BY <3>1, <4>1, <2>2
    <3>3. h[n] = j[n]
      BY <2>1, <3>2
    <3>4. h[n + 1] = step[n][h[n]] /\ j[n + 1] = step[n][j[n]]
      BY <2>1, <2>2
    <3> QED BY <3>3, <3>4
  <2> HIDE DEF Approx
  <2> QED BY <2>1, <2>2
<1>6. Q = Nat
  <2>1. Q \subseteq Nat
    OBVIOUS
  <2> HIDE DEF Q
  <2> QED BY <1>4, <1>5, <2>1, Induction
<1> DEFINE A == [n \in Nat |-> CHOOSE h : h \in Approx(n)]
           g == [n \in Nat |-> A[n][n]]
<1>7. \A n \in Nat : A[n] \in Approx(n)
  <2> HIDE DEF Approx
  <2> QED BY <1>3
<1>8. ASSUME NEW n \in Nat
      PROVE  g[n] \in V /\ A[n + 1][n] = g[n] /\ g[n + 1] = step[n][g[n]]
  <2> HIDE DEF A
  <2>1. n + 1 \in Nat /\ n + 1 >= n /\ n \in 0..n
    OBVIOUS
  <2>2. n \in Q
    <3> HIDE DEF Q
    <3> QED BY <1>6
  <2>3. A[n] \in Approx(n) /\ A[n + 1] \in Approx(n + 1)
    <3> HIDE DEF Approx
    <3> QED BY <1>7, <2>1
  <2>4. A[n][n] = A[n + 1][n]
    <3> HIDE DEF Approx
    <3> QED BY <2>1, <2>2, <2>3
  <2>5. A[n + 1][n + 1] = step[n][A[n + 1][n]] /\ A[n][n] \in V
    BY <2>1, <2>3
  <2>6. g[n] = A[n][n] /\ g[n + 1] = A[n + 1][n + 1]
    BY <2>1
  <2> QED BY <2>4, <2>5, <2>6
<1>9. g[0] = v0
  <2>1. A[0] \in Approx(0)
    BY <1>7
  <2> HIDE DEF A
  <2> QED BY <2>1
<1>10. g \in [Nat -> V]
  BY <1>8
<1>11. g \in Iterates(V, v0, step)
  <2> HIDE DEF g
  <2> QED BY <1>8, <1>9, <1>10 DEF Iterates
<1> QED BY <1>11

\* It exists on 0..N when the step is only known up to N.
LEMMA RecursionUpTo ==
  ASSUME NEW V, NEW v0, v0 \in V, NEW N \in Nat, NEW step, step \in Steps(1..N, V)
  PROVE  IteratesUpTo(N, V, v0, step) # {}
<1> DEFINE total == [n \in Nat |-> IF n < N THEN step[n + 1] ELSE [v \in V |-> v]]
<1>1. total \in Steps(Nat, V)
  BY DEF Steps
<1>2. PICK g \in Iterates(V, v0, total) : TRUE
  <2> HIDE DEF total
  <2> QED BY <1>1, RecursionOnNat
<1> USE DEF Iterates
<1> DEFINE h == [n \in 0..N |-> g[n]]
<1>3. h \in [0..N -> V] /\ h[0] = v0
  BY <1>2
<1>4. ASSUME NEW n \in 1..N PROVE h[n] = step[n][h[n - 1]]
  <2>1. n - 1 \in Nat /\ (n - 1) + 1 = n /\ n - 1 < N
    OBVIOUS
  <2>2. g[n] = total[n - 1][g[n - 1]]
    BY <1>2, <2>1
  <2>3. total[n - 1] = step[n]
    BY <2>1
  <2> QED BY <2>1, <2>2, <2>3
<1>5. h \in IteratesUpTo(N, V, v0, step)
  <2> HIDE DEF h
  <2> QED BY <1>3, <1>4 DEF IteratesUpTo
<1> QED BY <1>5

\* Induction over 0..N.
LEMMA InductionUpTo ==
  ASSUME NEW N \in Nat, NEW T, 0 \in T, \A n \in 1..N : n - 1 \in T => n \in T
  PROVE  0..N \subseteq T
<1> DEFINE U == {n \in Nat : n > N \/ n \in T}
<1>1. U \subseteq Nat /\ 0 \in U
  OBVIOUS
<1>2. ASSUME NEW n \in U PROVE n + 1 \in U
  OBVIOUS
<1>3. U = Nat
  <2> HIDE DEF U
  <2> QED BY <1>1, <1>2, Induction
<1> QED BY <1>3

\* The recursive definition of SumTo holds: the sum of n numbers is that of n - 1
\* numbers and the last one.
LEMMA SumToDef ==
  ASSUME NEW s \in Seq(Int), NEW n \in 0..Len(s)
  PROVE  /\ SumTo(s, n) \in Int
         /\ n = 0 => SumTo(s, n) = 0
         /\ n # 0 => SumTo(s, n) = SumTo(s, n - 1) + s[n]
<1> DEFINE S == 0..Len(s)
           F(g) == [k \in S |-> IF k = 0 THEN 0 ELSE g[k - 1] + s[k]]
           step == [k \in 1..Len(s) |-> [v \in Int |-> v + s[k]]]
           total == CHOOSE g : g = F(g)
<1>1. Len(s) \in Nat /\ \A k \in 1..Len(s) : s[k] \in Int
  OBVIOUS
<1>2. step \in Steps(1..Len(s), Int) /\ 0 \in Int
  BY <1>1 DEF Steps
<1>3. PICK h \in IteratesUpTo(Len(s), Int, 0, step) : TRUE
  <2> HIDE DEF step
  <2> QED BY <1>1, <1>2, RecursionUpTo
<1>4. h \in [S -> Int] /\ h[0] = 0 /\ \A k \in 1..Len(s) : h[k] = step[k][h[k - 1]]
  <2> HIDE DEF step
  <2> QED BY <1>3 DEF IteratesUpTo
<1>5. ASSUME NEW k \in S PROVE h[k] = F(h)[k]
  <2>1. CASE k = 0
    BY <2>1, <1>4
  <2>2. CASE k # 0
    <3>1. k \in 1..Len(s) /\ k - 1 \in S
      BY <1>1, <2>2
    <3>2. h[k] = step[k][h[k - 1]] /\ h[k - 1] \in Int
      BY <1>4, <3>1
    <3>3. step[k] = [v \in Int |-> v + s[k]]
      BY <3>1
    <3>4. h[k] = h[k - 1] + s[k]
      BY <3>2, <3>3
    <3> QED BY <2>2, <3>4
  <2> QED BY <2>1, <2>2
<1>6. h = F(h)
  <2>1. h = [k \in S |-> h[k]]
    BY <1>4
  <2>2. F(h) = [k \in S |-> F(h)[k]]
    OBVIOUS
  <2> HIDE DEF F
  <2> QED BY <2>1, <2>2, <1>5
<1>7. total = F(total)
  <2> HIDE DEF F
  <2> QED BY <1>6
<1>8. \A k : k \in S => SumTo(s, k) = total[k]
  BY DEF SumTo
<1> HIDE DEF total
<1>9. \A k \in S : total[k] = IF k = 0 THEN 0 ELSE total[k - 1] + s[k]
  BY <1>7
<1> HIDE DEF F
<1>10. \A k \in S : total[k] \in Int
  <2> DEFINE T == {k \in S : total[k] \in Int}
  <2>1. 0 \in T
    BY <1>1, <1>9
  <2>2. ASSUME NEW k \in 1..Len(s), k - 1 \in T PROVE k \in T
    <3>1. k \in S /\ k # 0 /\ s[k] \in Int /\ total[k - 1] \in Int
      BY <1>1, <2>2
    <3>2. total[k] = total[k - 1] + s[k]
      BY <1>9, <3>1
    <3>3. PICK a \in Int, b \in Int : a = total[k - 1] /\ b = s[k]
      BY <3>1
    <3>4. total[k] = a + b
      BY <3>2, <3>3
    <3>5. total[k] \in Int
      BY <3>4
    <3> HIDE DEF S
    <3> QED BY <3>1, <3>5
  <2>3. S \subseteq T
    <3> HIDE DEF T
    <3> QED BY <1>1, <2>1, <2>2, InductionUpTo
  <2> QED BY <2>3
<1>11. n \in S /\ (n # 0 => n - 1 \in S)
  BY <1>1
<1>12. n # 0 => SumTo(s, n - 1) = total[n - 1]
  BY <1>8, <1>11
<1> QED BY <1>8, <1>9, <1>10, <1>11, <1>12

\* Sequences that agree up to n have the same sum up to n.
LEMMA SumToPrefix ==
  ASSUME NEW s \in Seq(Int), NEW t \in Seq(Int), NEW n \in Nat, n <= Len(s), n <= Len(t),
         \A k \in 1..n : s[k] = t[k]
  PROVE  SumTo(s, n) = SumTo(t, n)
<1> DEFINE T == {k \in 0..n : SumTo(s, k) = SumTo(t, k)}
<1>1. 0 \in T
  <2>1. 0 \in 0..n /\ 0 \in 0..Len(s) /\ 0 \in 0..Len(t)
    OBVIOUS
  <2> QED BY <2>1, SumToDef
<1>2. ASSUME NEW k \in 1..n, k - 1 \in T PROVE k \in T
  <2>1. k \in 0..Len(s) /\ k \in 0..Len(t) /\ k # 0 /\ SumTo(s, k - 1) = SumTo(t, k - 1)
    BY <1>2
  <2> QED BY <2>1, SumToDef
<1>3. 0..n \subseteq T
  <2> HIDE DEF T
  <2> QED BY <1>1, <1>2, InductionUpTo
<1> QED BY <1>3

\* Nothing adds up to 0.
LEMMA SumEmpty == Sum(<<>>) = 0
<1>0. <<>> \in Seq(Int)
  OBVIOUS
<1>1. PICK e \in Seq(Int) : e = <<>>
  BY <1>0, Zenon
<1>2. Len(e) = 0 /\ 0 \in 0..Len(e)
  BY <1>1
<1>3. SumTo(e, 0) = 0
  BY <1>2, SumToDef
<1> QED BY <1>1, <1>2, <1>3 DEF Sum

\* Appending a number adds it to the sum.
LEMMA SumAppend ==
  ASSUME NEW s \in Seq(Int), NEW x \in Int
  PROVE  Sum(Append(s, x)) = Sum(s) + x
<1>1. Append(s, x) \in Seq(Int) /\ Len(Append(s, x)) = Len(s) + 1 /\ Len(s) \in Nat
      /\ (\A k \in 1..Len(s) : Append(s, x)[k] = s[k]) /\ Append(s, x)[Len(s) + 1] = x
  OBVIOUS
<1>2. PICK t \in Seq(Int) : t = Append(s, x)
  BY <1>1
<1>3. SumTo(t, Len(t)) = SumTo(t, Len(t) - 1) + t[Len(t)]
  <2>1. Len(t) \in 0..Len(t) /\ Len(t) # 0
    BY <1>1, <1>2
  <2> QED BY <2>1, SumToDef
<1>4. SumTo(t, Len(s)) = SumTo(s, Len(s))
  <2>1. Len(s) <= Len(s) /\ Len(s) <= Len(t) /\ \A k \in 1..Len(s) : t[k] = s[k]
    BY <1>1, <1>2
  <2> QED BY <1>1, <2>1, SumToPrefix
<1> QED BY <1>1, <1>2, <1>3, <1>4 DEF Sum

\* Sums of integers are integers.
LEMMA SumType ==
  ASSUME NEW s \in Seq(Int) PROVE Sum(s) \in Int
  BY SumToDef DEF Sum

\* A sum of natural numbers is one, and not below any of them.
LEMMA SumNat ==
  ASSUME NEW s \in Seq(Nat)
  PROVE  Sum(s) \in Nat /\ \A i \in 1..Len(s) : s[i] <= Sum(s)
<1> DEFINE T == {k \in 0..Len(s) : SumTo(s, k) \in Nat /\ \A i \in 1..k : s[i] <= SumTo(s, k)}
<1>1. s \in Seq(Int) /\ Len(s) \in Nat
  OBVIOUS
<1>2. 0 \in T
  BY <1>1, SumToDef
<1>3. ASSUME NEW k \in 1..Len(s), k - 1 \in T PROVE k \in T
  <2>1. k \in 0..Len(s) /\ k # 0 /\ s[k] \in Nat
    OBVIOUS
  <2>2. SumTo(s, k) = SumTo(s, k - 1) + s[k]
    BY <1>1, <2>1, SumToDef
  <2>3. SumTo(s, k - 1) \in Nat /\ \A i \in 1..(k - 1) : s[i] <= SumTo(s, k - 1)
    BY <1>3
  <2>4. ASSUME NEW i \in 1..k PROVE s[i] <= SumTo(s, k)
    <3>1. CASE i = k
      BY <2>1, <2>2, <2>3, <3>1
    <3>2. CASE i # k
      <4>1. i \in 1..(k - 1) /\ s[i] \in Nat
        BY <3>2
      <4> QED BY <2>1, <2>2, <2>3, <4>1
    <3> QED BY <3>1, <3>2
  <2> QED BY <2>1, <2>2, <2>3, <2>4
<1>4. 0..Len(s) \subseteq T
  <2> HIDE DEF T
  <2> QED BY <1>1, <1>2, <1>3, InductionUpTo
<1> QED BY <1>1, <1>4 DEF Sum

\* Zeros add up to 0.
LEMMA SumZero ==
  ASSUME NEW s \in Seq(Int), \A i \in 1..Len(s) : s[i] = 0
  PROVE  Sum(s) = 0
<1> DEFINE T == {k \in 0..Len(s) : SumTo(s, k) = 0}
<1>1. Len(s) \in Nat
  OBVIOUS
<1>2. 0 \in T
  BY <1>1, SumToDef
<1>3. ASSUME NEW k \in 1..Len(s), k - 1 \in T PROVE k \in T
  <2>1. k \in 0..Len(s) /\ k # 0 /\ s[k] = 0 /\ SumTo(s, k - 1) = 0
    BY <1>3
  <2> QED BY <2>1, SumToDef
<1>4. 0..Len(s) \subseteq T
  <2> HIDE DEF T
  <2> QED BY <1>1, <1>2, <1>3, InductionUpTo
<1> QED BY <1>1, <1>4 DEF Sum

\* Replacing a number changes the sum by the difference.
LEMMA SumUpdate ==
  ASSUME NEW s \in Seq(Int), NEW i \in 1..Len(s), NEW x \in Int
  PROVE  Sum([s EXCEPT ![i] = x]) = Sum(s) - s[i] + x
<1>0. PICK t \in Seq(Int) : t = [s EXCEPT ![i] = x]
  BY ExceptSeq
<1>1. Len(s) \in Nat /\ Len(t) = Len(s) /\ i \in Nat /\ i # 0
      /\ \A j \in 1..Len(s) : t[j] = IF j = i THEN x ELSE s[j]
  BY <1>0, ExceptSeq
<1>a. PICK d \in Int : d = x - s[i]
  OBVIOUS
<1> DEFINE T == {k \in 0..Len(s) : SumTo(t, k) = SumTo(s, k) + (IF k >= i THEN d ELSE 0)}
<1>2. 0 \in T
  <2>1. 0 \in 0..Len(s) /\ 0 \in 0..Len(t) /\ ~(0 >= i)
    BY <1>1
  <2>2. SumTo(s, 0) = 0 /\ SumTo(t, 0) = 0
    BY <2>1, SumToDef
  <2> QED BY <2>1, <2>2
<1>3. ASSUME NEW k \in 1..Len(s), k - 1 \in T PROVE k \in T
  <2>1. k \in 0..Len(s) /\ k \in 0..Len(t) /\ k # 0 /\ k - 1 \in 0..Len(s) /\ s[k] \in Int /\ t[k] \in Int
    BY <1>1
  <2>2. SumTo(s, k) = SumTo(s, k - 1) + s[k] /\ SumTo(t, k) = SumTo(t, k - 1) + t[k]
        /\ SumTo(s, k - 1) \in Int /\ SumTo(t, k - 1) \in Int
    BY <1>1, <2>1, SumToDef
  <2>3. SumTo(t, k - 1) = SumTo(s, k - 1) + (IF k - 1 >= i THEN d ELSE 0)
    BY <1>3
  <2>4. PICK a \in Int, b \in Int, c \in Int, e \in Int :
           a = SumTo(s, k - 1) /\ b = s[k] /\ c = SumTo(t, k - 1) /\ e = t[k]
    BY <2>1, <2>2
  <2>5. c + e = a + b + (IF k >= i THEN d ELSE 0)
    <3>1. CASE k < i
      <4>1. c = a + 0 /\ e = b
        BY <1>1, <2>1, <2>3, <2>4, <3>1
      <4> QED BY <1>1, <3>1, <4>1
    <3>2. CASE k = i
      <4>1. c = a + 0 /\ e = x /\ d = x - b
        BY <1>1, <1>a, <2>1, <2>3, <2>4, <3>2
      <4> QED BY <1>1, <3>2, <4>1
    <3>3. CASE k > i
      <4>1. c = a + d /\ e = b
        BY <1>1, <2>1, <2>3, <2>4, <3>3
      <4> QED BY <1>1, <3>3, <4>1
    <3> QED BY <1>1, <3>1, <3>2, <3>3
  <2> QED BY <2>1, <2>2, <2>4, <2>5
<1>4. 0..Len(s) \subseteq T
  <2> HIDE DEF T
  <2> QED BY <1>1, <1>2, <1>3, InductionUpTo
<1>5. Len(s) \in T /\ Len(s) >= i
  BY <1>1, <1>4
<1>6. PICK a \in Int, b \in Int : a = Sum(s) /\ b = s[i]
  BY SumType
<1>7. Sum(t) = a + d
  BY <1>1, <1>5, <1>6 DEF Sum
<1>8. a + d = a - b + x
  BY <1>6, <1>a
<1> QED BY <1>0, <1>6, <1>7, <1>8

\* Taking the first number off takes it from the sum.
LEMMA SumTail ==
  ASSUME NEW s \in Seq(Int), s # <<>>
  PROVE  Sum(s) = s[1] + Sum(Tail(s))
<1>0. PICK t \in Seq(Int) : t = Tail(s)
  BY HeadTailProperties
<1>1. PICK n \in Nat : n = Len(t)
  OBVIOUS
<1>2. Len(s) = n + 1 /\ \A k \in 1..n : t[k] = s[k + 1]
  BY <1>0, <1>1, EmptySeq, HeadTailProperties
<1>a. s[1] \in Int
  BY <1>2, ElementOfSeq
<1> DEFINE T == {k \in 0..n : SumTo(s, k + 1) = s[1] + SumTo(t, k)}
<1>3. 0 \in T
  <2>1. 0 \in 0..Len(t) /\ 1 \in 0..Len(s) /\ 0 \in 0..Len(s)
    BY <1>1, <1>2
  <2>2. SumTo(t, 0) = 0 /\ SumTo(s, 1) = SumTo(s, 1 - 1) + s[1] /\ SumTo(s, 0) = 0
    BY <2>1, SumToDef
  <2> QED BY <1>a, <2>2
<1>4. ASSUME NEW k \in 1..n, k - 1 \in T PROVE k \in T
  <2>1. k \in 0..Len(t) /\ k # 0 /\ k + 1 \in 0..Len(s) /\ k + 1 # 0 /\ k \in 0..Len(s) /\ (k + 1) - 1 = k
        /\ k - 1 \in 0..Len(t) /\ t[k] = s[k + 1] /\ (k - 1) + 1 = k
    BY <1>1, <1>2
  <2>2. SumTo(t, k) = SumTo(t, k - 1) + t[k] /\ SumTo(t, k - 1) \in Int
    BY <2>1, SumToDef
  <2>3. SumTo(s, k + 1) = SumTo(s, (k + 1) - 1) + s[k + 1]
    BY <2>1, SumToDef
  <2>4. SumTo(s, (k - 1) + 1) = s[1] + SumTo(t, k - 1)
    BY <1>4
  <2>5. PICK a \in Int, b \in Int, c \in Int : a = s[1] /\ b = SumTo(t, k - 1) /\ c = t[k]
    BY <1>1, <1>a, <2>1, <2>2
  <2>6. (a + b) + c = a + (b + c)
    OBVIOUS
  <2>7. SumTo(s, k + 1) = (a + b) + c /\ SumTo(t, k) = b + c
    BY <2>1, <2>2, <2>3, <2>4, <2>5
  <2> QED BY <2>5, <2>6, <2>7
<1>5. 0..n \subseteq T
  <2> HIDE DEF T
  <2> QED BY <1>3, <1>4, InductionUpTo
<1>6. SumTo(s, n + 1) = s[1] + SumTo(t, n)
  BY <1>5
<1> QED BY <1>0, <1>1, <1>2, <1>6 DEF Sum

\* Rearranging numbers does not change their sum.
Rearrangements(n) == {p \in [1..n -> 1..n] : /\ \A a, b \in 1..n : p[a] = p[b] => a = b
                                             /\ \A c \in 1..n : \E a \in 1..n : p[a] = c}

\* A rearrangement of numbers has the same sum (by sorting the places one by one).
LEMMA SumPermuted ==
  ASSUME NEW s0 \in Seq(Int), NEW p0 \in Rearrangements(Len(s0))
  PROVE  Sum([i \in 1..Len(s0) |-> s0[p0[i]]]) = Sum(s0)
<1> DEFINE T == {n \in Nat : \A s \in Seq(Int) : Len(s) = n =>
                    \A p \in Rearrangements(n) : Sum([i \in 1..n |-> s[p[i]]]) = Sum(s)}
<1>1. 0 \in T
  <2> SUFFICES ASSUME NEW s \in Seq(Int), Len(s) = 0, NEW p \in Rearrangements(0)
               PROVE  Sum([i \in 1..0 |-> s[p[i]]]) = Sum(s)
    OBVIOUS
  <2>1. s = <<>> /\ [i \in 1..0 |-> s[p[i]]] = <<>>
    BY EmptySeq
  <2> QED BY <2>1
<1>2. ASSUME NEW n \in T PROVE n + 1 \in T
  <2>0. n \in Nat /\ n + 1 \in Nat
    OBVIOUS
  <2> SUFFICES ASSUME NEW s \in Seq(Int), Len(s) = n + 1, NEW p \in Rearrangements(n + 1)
               PROVE  Sum([i \in 1..(n + 1) |-> s[p[i]]]) = Sum(s)
    BY <2>0
  <2>1. p \in [1..(n + 1) -> 1..(n + 1)] /\ (\A a, b \in 1..(n + 1) : p[a] = p[b] => a = b)
        /\ \A c \in 1..(n + 1) : \E a \in 1..(n + 1) : p[a] = c
    BY DEF Rearrangements
  <2>2. PICK k \in 1..(n + 1) : p[k] = n + 1
    BY <2>0, <2>1
  <2> DEFINE q == [i \in 1..n |-> IF i = k THEN p[n + 1] ELSE p[i]]
             f == [i \in 1..n |-> s[i]]
             u == [i \in 1..n |-> f[q[i]]]
             t == [i \in 1..(n + 1) |-> s[p[i]]]
  <2>3. q \in Rearrangements(n)
    <3>a. \A i \in 1..n : i \in 1..(n + 1) /\ i # n + 1
      BY <2>0
    <3>b. n + 1 \in 1..(n + 1) /\ \A x \in 1..(n + 1) : x # n + 1 => x \in 1..n
      BY <2>0
    <3>c. \A i \in 1..n : q[i] = IF i = k THEN p[n + 1] ELSE p[i]
      OBVIOUS
    <3>1. ASSUME NEW i \in 1..n PROVE q[i] \in 1..n
      <4>1. CASE i = k
        <5>1. p[n + 1] # n + 1 /\ p[n + 1] \in 1..(n + 1)
          BY <2>1, <2>2, <3>a, <3>b, <4>1
        <5> QED BY <3>b, <3>c, <4>1, <5>1
      <4>2. CASE i # k
        <5>1. p[i] # n + 1 /\ p[i] \in 1..(n + 1)
          BY <2>1, <2>2, <3>a, <3>b, <4>2
        <5> QED BY <3>b, <3>c, <4>2, <5>1
      <4> QED BY <4>1, <4>2
    <3>2. \A a, b \in 1..n : q[a] = q[b] => a = b
      <4> SUFFICES ASSUME NEW a \in 1..n, NEW b \in 1..n, q[a] = q[b] PROVE a = b
        OBVIOUS
      <4>1. q[a] = (IF a = k THEN p[n + 1] ELSE p[a]) /\ q[b] = (IF b = k THEN p[n + 1] ELSE p[b])
        BY <3>c
      <4> HIDE DEF q
      <4> QED BY <2>1, <3>a, <3>b, <4>1
    <3>3. ASSUME NEW c \in 1..n PROVE \E a \in 1..n : q[a] = c
      <4>1. PICK a \in 1..(n + 1) : p[a] = c
        BY <2>0, <2>1
      <4>2. a # k
        BY <2>0, <2>2, <4>1
      <4>3. CASE a = n + 1
        <5>1. k \in 1..n /\ q[k] = c
          BY <2>0, <2>2, <4>1, <4>2, <4>3
        <5> QED BY <5>1
      <4>4. CASE a # n + 1
        <5>1. a \in 1..n /\ q[a] = c
          BY <2>0, <4>1, <4>2, <4>4
        <5> QED BY <5>1
      <4> QED BY <4>3, <4>4
    <3>4. q \in [1..n -> 1..n]
      BY <3>1
    <3> HIDE DEF q
    <3> QED BY <3>2, <3>3, <3>4 DEF Rearrangements
  <2>4. /\ f \in Seq(Int) /\ Len(f) = n /\ u \in Seq(Int) /\ Len(u) = n
        /\ t \in Seq(Int) /\ Len(t) = n + 1 /\ s[n + 1] \in Int
    <3>1. \A i \in 1..(n + 1) : s[i] \in Int
      OBVIOUS
    <3>2. \A i \in 1..n : f[i] \in Int /\ q[i] \in 1..n /\ u[i] \in Int
      <4>1. \A i \in 1..n : f[i] \in Int
        BY <2>0, <3>1
      <4>2. q \in [1..n -> 1..n]
        <5> HIDE DEF q
        <5> QED BY <2>3 DEF Rearrangements
      <4> HIDE DEF q, f
      <4> QED BY <4>1, <4>2
    <3>3. \A i \in 1..(n + 1) : t[i] \in Int
      BY <2>0, <2>1, <3>1
    <3> HIDE DEF q
    <3> QED BY <2>0, <3>1, <3>2, <3>3
  <2>5. Sum(u) = Sum(f)
    <3> HIDE DEF q, f
    <3> QED BY <2>3, <2>4
  <2>6. s = Append(f, s[n + 1])
    <3>1. PICK g \in Seq(Int) : g = Append(f, s[n + 1])
      BY <2>4
    <3>2. Len(g) = n + 1 /\ \A i \in 1..(n + 1) : g[i] = s[i]
      BY <2>0, <2>4, <3>1
    <3> QED BY <3>1, <3>2, SeqEqual
  <2>7. Sum(s) = Sum(f) + s[n + 1]
    <3> HIDE DEF f
    <3>1. Sum(Append(f, s[n + 1])) = Sum(f) + s[n + 1]
      BY <2>4, SumAppend
    <3> QED BY <2>6, <3>1
  <2>8. PICK v \in Seq(Int) : v = Append(u, t[n + 1])
    <3> HIDE DEF u, t
    <3>1. t[n + 1] \in Int
      BY <2>0, <2>4
    <3>2. Append(u, t[n + 1]) \in Seq(Int)
      BY <2>4, <3>1
    <3> QED BY <3>2
  <2>9. Len(v) = n + 1 /\ t[n + 1] \in Int /\ v[k] = t[n + 1] /\ (\A i \in 1..n : v[i] = u[i]) /\ v[n + 1] = t[n + 1]
    <3>1. Len(v) = n + 1 /\ t[n + 1] \in Int /\ (\A i \in 1..n : v[i] = u[i]) /\ v[n + 1] = t[n + 1]
      <4> HIDE DEF u, t
      <4> QED BY <2>0, <2>4, <2>8
    <3>2. k \in 1..n => u[k] = t[n + 1]
      <4>1. ASSUME k \in 1..n PROVE q[k] = p[n + 1] /\ u[k] = f[q[k]] /\ q[k] \in 1..n
        BY <2>3, <4>1 DEF Rearrangements
      <4>2. ASSUME k \in 1..n PROVE f[q[k]] = s[q[k]] /\ t[n + 1] = s[p[n + 1]]
        BY <2>0, <4>1, <4>2
      <4> QED BY <4>1, <4>2
    <3>3. k = n + 1 \/ k \in 1..n
      BY <2>0
    <3> HIDE DEF t, u
    <3> QED BY <3>1, <3>2, <3>3
  <2>10. t = [v EXCEPT ![k] = s[n + 1]]
    <3>1. PICK g \in Seq(Int) : g = [v EXCEPT ![k] = s[n + 1]]
      BY <2>4, <2>9, ExceptSeq
    <3>2. Len(g) = n + 1 /\ \A i \in 1..(n + 1) : g[i] = IF i = k THEN s[n + 1] ELSE v[i]
      BY <2>4, <2>9, <3>1, ExceptSeq
    <3>3. ASSUME NEW i \in 1..(n + 1) PROVE g[i] = t[i]
      <4>1. CASE i = k
        BY <2>2, <3>2, <4>1
      <4>2. CASE i # k /\ i = n + 1
        BY <2>9, <3>2, <4>2
      <4>3. CASE i # k /\ i # n + 1
        <5>a. i \in 1..n
          BY <2>0, <4>3
        <5>1. i \in 1..n /\ g[i] = u[i]
          <6> HIDE DEF u
          <6> QED BY <2>9, <3>2, <4>3, <5>a
        <5>2. u[i] = f[q[i]] /\ q[i] = p[i] /\ q[i] \in 1..n
          BY <2>3, <4>3, <5>1 DEF Rearrangements
        <5> QED BY <5>1, <5>2
      <4> QED BY <4>1, <4>2, <4>3
    <3> HIDE DEF t
    <3> QED BY <2>4, <3>1, <3>2, <3>3, SeqEqual
  <2>11. Sum(t) = Sum(v) - v[k] + s[n + 1]
    <3> HIDE DEF t
    <3>1. k \in 1..Len(v)
      BY <2>9
    <3>2. Sum([v EXCEPT ![k] = s[n + 1]]) = Sum(v) - v[k] + s[n + 1]
      BY <2>4, <3>1, SumUpdate
    <3> QED BY <2>10, <3>2
  <2>12. Sum(v) = Sum(u) + t[n + 1]
    <3> HIDE DEF t, u
    <3> QED BY <2>4, <2>8, <2>9, SumAppend
  <2>13. PICK a \in Int, b \in Int, c \in Int : a = Sum(u) /\ b = t[n + 1] /\ c = s[n + 1]
    <3> HIDE DEF t, u
    <3> QED BY <2>4, <2>9, SumType
  <2>14. Sum(t) = (a + b) - b + c /\ Sum(s) = a + c
    <3> HIDE DEF t, u, f
    <3> QED BY <2>5, <2>7, <2>9, <2>11, <2>12, <2>13
  <2>15. (a + b) - b + c = a + c
    OBVIOUS
  <2> HIDE DEF t
  <2>16. Sum(t) = Sum(s)
    BY <2>14, <2>15
  <2> QED BY <2>16 DEF t
<1>3. T = Nat
  <2>1. T \subseteq Nat
    OBVIOUS
  <2> HIDE DEF T
  <2> QED BY <1>1, <1>2, <2>1, Induction
<1>4. Len(s0) \in T
  <2> HIDE DEF T
  <2> QED BY <1>3
<1> QED BY <1>4

\* A sum over two parts is the sum of the two sums.
LEMMA SumTwo ==
  ASSUME NEW a \in Seq(Int), NEW b \in Seq(Int)
  PROVE  Sum(a \o b) = Sum(a) + Sum(b)
<1>1. PICK m \in Nat : m = Len(a)
  OBVIOUS
<1>2. PICK n \in Nat : n = Len(b)
  OBVIOUS
<1>3. PICK c \in Seq(Int) : c = a \o b
  BY ConcatProperties
<1>4. Len(c) = m + n
  BY <1>1, <1>2, <1>3, ConcatProperties
<1>4a. \A i \in 1 .. m + n : c[i] = IF i <= m THEN a[i] ELSE b[i - m]
  BY <1>1, <1>2, <1>3, ConcatProperties
<1>5. SumTo(a, m) \in Int
  <2>1. m \in 0 .. Len(a)
    BY <1>1
  <2> QED BY <2>1, SumToDef
<1> DEFINE T == {k \in 0 .. n : SumTo(c, m + k) = SumTo(a, m) + SumTo(b, k)}
<1>6. 0 \in T
  <2>1. SumTo(c, m) = SumTo(a, m)
    <3>1. m <= Len(c) /\ m <= Len(a) /\ \A k \in 1 .. m : c[k] = a[k]
      BY <1>1, <1>4, <1>4a
    <3> QED BY <3>1, SumToPrefix
  <2>2. SumTo(b, 0) = 0
    <3>1. 0 \in 0 .. Len(b)
      BY <1>2
    <3> QED BY <3>1, SumToDef
  <2>3. m + 0 = m /\ SumTo(a, m) + 0 = SumTo(a, m)
    BY <1>5
  <2> QED BY <2>1, <2>2, <2>3
<1>7. ASSUME NEW k \in 1 .. n, k - 1 \in T PROVE k \in T
  <2>1. k \in 0 .. Len(b) /\ k # 0 /\ k - 1 \in 0 .. Len(b)
    BY <1>2
  <2>2. SumTo(b, k) = SumTo(b, k - 1) + b[k] /\ SumTo(b, k - 1) \in Int
    BY <2>1, SumToDef
  <2>3. PICK i \in Nat : i = m + k
    OBVIOUS
  <2>4. i \in 0 .. Len(c) /\ i # 0 /\ i - 1 = m + (k - 1) /\ i - 1 \in 0 .. Len(c)
    BY <1>4, <2>3
  <2>5. SumTo(c, i) = SumTo(c, i - 1) + c[i] /\ SumTo(c, i - 1) \in Int
    BY <2>4, SumToDef
  <2>6. c[i] = b[k]
    <3>1. i \in 1 .. m + n /\ ~(i <= m) /\ i - m = k
      BY <2>3
    <3> QED BY <1>4a, <3>1
  <2>7. SumTo(c, m + (k - 1)) = SumTo(a, m) + SumTo(b, k - 1)
    BY <1>7
  <2>8. SumTo(c, i - 1) = SumTo(a, m) + SumTo(b, k - 1)
    BY <2>4, <2>7
  <2>9. b[k] \in Int
    BY <2>1
  <2>10. SumTo(c, i) = SumTo(a, m) + SumTo(b, k)
    BY <1>5, <2>2, <2>5, <2>6, <2>8, <2>9
  <2> QED BY <2>3, <2>10
<1>8. 0 .. n \subseteq T
  <2> HIDE DEF T
  <2> QED BY <1>6, <1>7, InductionUpTo
<1>9. SumTo(c, m + n) = SumTo(a, m) + SumTo(b, n)
  BY <1>8
<1> QED BY <1>1, <1>2, <1>3, <1>4, <1>9 DEF Sum

-----------------------------------------------------------------------------
(* Places in a finite order *)

\* A strict total order of a set, as a set of pairs, and the place of a member in it.
StrictOrder(R, S) ==
    /\ \A a, b \in S : ~(<<a, b>> \in R /\ <<b, a>> \in R)
    /\ \A a, b \in S : a # b => <<a, b>> \in R \/ <<b, a>> \in R
    /\ \A a, b, c \in S : <<a, b>> \in R /\ <<b, c>> \in R => <<a, c>> \in R
RankIn(R, S, c) == Cardinality({d \in S : <<d, c>> \in R}) + 1

\* In a finite set with a strict total order every place is taken.
LEMMA Ranking ==
  ASSUME NEW S, IsFiniteSet(S), NEW R, StrictOrder(R, S)
  PROVE  \A i \in 1 .. Cardinality(S) : \E c \in S : RankIn(R, S, c) = i
<1>1. Cardinality(S) \in Nat
  BY FS_CardinalityType
<1>2. PICK n \in Nat : n = Cardinality(S)
  BY <1>1
<1> DEFINE P(r) == {s \in S : <<s, r>> \in R}
<1>3. ASSUME NEW r \in S
      PROVE  IsFiniteSet(P(r)) /\ Cardinality(P(r)) \in 0 .. n - 1
  <2>1. PICK A : A = P(r)
    OBVIOUS
  <2>2. A \subseteq S /\ r \notin A
    BY <2>1 DEF StrictOrder
  <2>3. IsFiniteSet(A) /\ Cardinality(A) <= n /\ (n = Cardinality(A) => S = A)
    <3>1. A \in SUBSET S
      BY <2>2
    <3> QED BY <1>1, <1>2, <3>1, FS_Subset
  <2>4. Cardinality(A) \in Nat
    BY <2>3, FS_CardinalityType
  <2>5. Cardinality(A) # n
    BY <2>2, <2>3
  <2>7. PICK a \in Nat : a = Cardinality(A)
    BY <2>4
  <2>8. a \in 0 .. n - 1
    BY <2>3, <2>5, <2>7
  <2> QED BY <2>1, <2>3, <2>7, <2>8
<1>4. ASSUME NEW r \in S, NEW s \in S, <<r, s>> \in R PROVE Cardinality(P(r)) < Cardinality(P(s))
  <2>1. PICK A : A = P(r)
    OBVIOUS
  <2>2. PICK B : B = P(s)
    OBVIOUS
  <2>3. A \subseteq B /\ r \in B /\ r \notin A
    BY <1>4, <2>1, <2>2 DEF StrictOrder
  <2>4. IsFiniteSet(B) /\ IsFiniteSet(A)
    BY <1>3, <2>1, <2>2
  <2>5. A \in SUBSET B
    BY <2>3
  <2>6. Cardinality(A) <= Cardinality(B) /\ (Cardinality(B) = Cardinality(A) => B = A)
    BY <2>4, <2>5, FS_Subset
  <2>7. Cardinality(A) \in Nat /\ Cardinality(B) \in Nat
    BY <2>4, FS_CardinalityType
  <2>8. PICK a, b \in Nat : a = Cardinality(A) /\ b = Cardinality(B)
    BY <2>7
  <2>9. a < b
    BY <2>3, <2>6, <2>8
  <2> QED BY <2>1, <2>2, <2>8, <2>9
<1>5. ASSUME NEW r \in S, NEW s \in S, Cardinality(P(r)) = Cardinality(P(s)) PROVE r = s
  <2>1. Cardinality(P(r)) \in 0 .. n - 1
    BY <1>3
  <2>2. Cardinality(P(r)) \in Int
    BY <2>1
  <2>3. <<r, s>> \notin R /\ <<s, r>> \notin R
    BY <1>4, <1>5, <2>2
  <2> QED BY <2>3 DEF StrictOrder
<1> HIDE DEF P
<1>6. PICK f : f = [r \in S |-> Cardinality(P(r))]
  OBVIOUS
<1>7. f \in Injection(S, 0 .. n - 1)
  <2>1. f \in [S -> 0 .. n - 1]
    BY <1>3, <1>6
  <2>2. \A a, b \in S : f[a] = f[b] => a = b
    BY <1>5, <1>6
  <2> QED BY <2>1, <2>2 DEF Injection, IsInjective
<1>8. PICK T : T = 0 .. n - 1
  OBVIOUS
<1>9. IsFiniteSet(T) /\ Cardinality(T) = n
  <2>1. n - 1 \in Int /\ 0 \in Int
    OBVIOUS
  <2>2. IsFiniteSet(0 .. n - 1) /\ Cardinality(0 .. n - 1) = IF 0 > n - 1 THEN 0 ELSE n - 1 - 0 + 1
    BY <2>1, FS_Interval
  <2>3. (IF 0 > n - 1 THEN 0 ELSE n - 1 - 0 + 1) = n
    OBVIOUS
  <2> QED BY <1>8, <2>2, <2>3
<1>10. f \in Surjection(S, T)
  <2>1. f \in Injection(S, T)
    BY <1>7, <1>8
  <2>2. Cardinality(S) = Cardinality(T) <=> f \in Surjection(S, T)
    BY <1>9, <2>1, FS_Injection
  <2> QED BY <1>2, <1>9, <2>2
<1>11. \A j \in 0 .. n - 1 : \E r \in S : Cardinality(P(r)) = j
  BY <1>6, <1>8, <1>10 DEF Surjection
<1>12. ASSUME NEW i \in 1 .. n
       PROVE  \E c \in S : RankIn(R, S, c) = i
  <2>1. i - 1 \in 0 .. n - 1
    OBVIOUS
  <2>2. PICK c \in S : Cardinality(P(c)) = i - 1
    BY <1>11, <2>1
  <2>3. Cardinality(P(c)) + 1 = i
    BY <2>2
  <2> QED BY <2>3 DEF P, RankIn
<1> QED BY <1>2, <1>12

-----------------------------------------------------------------------------
(* Runs of a function along a sequence *)

\* f, a partial function of a state and a token, leads from a to b along the tokens of w.
Path(T, f, a, w, b) ==
    \E h \in [0 .. Len(w) -> T] :
        /\ h[0] = a /\ h[Len(w)] = b
        /\ \A i \in 1 .. Len(w) : <<h[i - 1], w[i]>> \in DOMAIN f /\ h[i] = f[<<h[i - 1], w[i]>>]

\* Without a token nothing changes.
LEMMA PathNone == ASSUME NEW T, NEW f, NEW a \in T PROVE Path(T, f, a, <<>>, a)
<1>1. PICK h : h = [n \in 0 .. 0 |-> a]
  OBVIOUS
<1>2. h \in [0 .. 0 -> T] /\ h[0] = a
  BY <1>1
<1>3. PICK w : w = <<>>
  OBVIOUS
<1>4. Len(w) = 0
  BY <1>3
<1>5. Path(T, f, a, w, a)
  BY <1>2, <1>4 DEF Path
<1> QED BY <1>3, <1>5

\* One token.
LEMMA PathOne ==
  ASSUME NEW T, NEW f, NEW a \in T, NEW b \in T, NEW c, <<a, c>> \in DOMAIN f, f[<<a, c>>] = b
  PROVE  Path(T, f, a, <<c>>, b)
<1>1. PICK h : h = [n \in 0 .. 1 |-> IF n = 0 THEN a ELSE b]
  OBVIOUS
<1>2. h \in [0 .. 1 -> T] /\ h[0] = a /\ h[1] = b
  BY <1>1
<1>3. Len(<<c>>) = 1 /\ <<c>>[1] = c /\ 1 .. 1 = {1}
  OBVIOUS
<1>4. \A i \in 1 .. 1 : <<h[i - 1], <<c>>[i]>> \in DOMAIN f /\ h[i] = f[<<h[i - 1], <<c>>[i]>>]
  BY <1>2, <1>3
<1> QED BY <1>2, <1>3, <1>4 DEF Path

\* One text after the other.
LEMMA PathThen ==
  ASSUME NEW T, NEW S, NEW f, NEW a, NEW b, NEW c, NEW v \in Seq(S), NEW w \in Seq(S),
         Path(T, f, a, v, b), Path(T, f, b, w, c)
  PROVE  Path(T, f, a, v \o w, c)
<1>1. PICK m \in Nat, n \in Nat, l \in Nat : m = Len(v) /\ n = Len(w) /\ l = m + n
  OBVIOUS
<1>2. PICK g \in [0 .. m -> T] :
        /\ g[0] = a /\ g[m] = b
        /\ \A i \in 1 .. m : <<g[i - 1], v[i]>> \in DOMAIN f /\ g[i] = f[<<g[i - 1], v[i]>>]
  BY <1>1 DEF Path
<1>3. PICK h \in [0 .. n -> T] :
        /\ h[0] = b /\ h[n] = c
        /\ \A i \in 1 .. n : <<h[i - 1], w[i]>> \in DOMAIN f /\ h[i] = f[<<h[i - 1], w[i]>>]
  BY <1>1 DEF Path
<1>4. PICK u : u = v \o w
  OBVIOUS
<1>5. Len(u) = l /\ (\A i \in 1 .. m : u[i] = v[i]) /\ \A i \in 1 .. n : u[m + i] = w[i]
  BY <1>1, <1>4
<1>6. PICK k : k = [i \in 0 .. l |-> IF i <= m THEN g[i] ELSE h[i - m]]
  OBVIOUS
<1>7. k \in [0 .. l -> T]
  <2>1. \A i \in 0 .. l : (i <= m => i \in 0 .. m) /\ (~(i <= m) => i - m \in 0 .. n)
    BY <1>1
  <2> QED BY <1>6, <2>1
<1>8. k[0] = a
  BY <1>2, <1>6
<1>9. \A i \in 0 .. m : k[i] = g[i]
  BY <1>1, <1>6
<1>10. \A i \in 0 .. n : k[m + i] = h[i]
  <2>1. SUFFICES ASSUME NEW i \in 0 .. n PROVE k[m + i] = h[i]
    OBVIOUS
  <2>2. CASE i = 0
    <3>1. m + i = m /\ m \in 0 .. m
      BY <2>2
    <3> QED BY <1>2, <1>3, <1>9, <2>2, <3>1
  <2>3. CASE i # 0
    <3>1. m + i \in 0 .. l /\ ~(m + i <= m) /\ (m + i) - m = i
      BY <1>1, <2>3
    <3> QED BY <1>6, <3>1
  <2> QED BY <2>2, <2>3
<1>11. k[l] = c
  BY <1>1, <1>3, <1>10
<1>12. ASSUME NEW i \in 1 .. l
       PROVE  <<k[i - 1], u[i]>> \in DOMAIN f /\ k[i] = f[<<k[i - 1], u[i]>>]
  <2>1. CASE i <= m
    <3>1. i \in 1 .. m /\ i - 1 \in 0 .. m /\ i \in 0 .. m
      BY <2>1
    <3> QED BY <1>2, <1>5, <1>9, <3>1
  <2>2. CASE ~(i <= m)
    <3>1. PICK j \in 1 .. n : i = m + j
      <4>1. i - m \in 1 .. n /\ i = m + (i - m)
        BY <1>1, <2>2
      <4> QED BY <4>1
    <3>2. j - 1 \in 0 .. n /\ j \in 0 .. n /\ i - 1 = m + (j - 1)
      BY <1>1, <3>1
    <3>3. k[i - 1] = h[j - 1] /\ k[i] = h[j] /\ u[i] = w[j]
      BY <1>5, <1>10, <3>1, <3>2
    <3> QED BY <1>3, <3>3
  <2> QED BY <2>1, <2>2
<1>13. Path(T, f, a, u, c)
  BY <1>5, <1>7, <1>8, <1>11, <1>12 DEF Path
<1> QED BY <1>4, <1>13

-----------------------------------------------------------------------------
(* Sequences of sequences *)

\* What the first n of N sequences add up to.
Joins(T, seqs, N) ==
    {h \in [0 .. N -> Seq(T)] :
        /\ h[0] = <<>> /\ \A n \in 1 .. N : h[n] = h[n - 1] \o seqs[n]
        /\ FlattenSeq(seqs) = h[N]}

\* Flattening appends one sequence after the other.
LEMMA Flattening ==
  ASSUME NEW T, NEW seqs \in Seq(Seq(T)), NEW N \in Nat, N = Len(seqs)
  PROVE  Joins(T, seqs, N) # {}
<1> DEFINE F(g) == [i \in 1 .. N |-> IF i = 1 THEN seqs[i] ELSE g[i - 1] \o seqs[i]]
           step == [n \in 1 .. N |-> [v \in Seq(T) |-> v \o seqs[n]]]
           total == CHOOSE g : g = F(g)
<1>1. \A n \in 1 .. N : seqs[n] \in Seq(T)
  OBVIOUS
<1>2. step \in Steps(1 .. N, Seq(T)) /\ <<>> \in Seq(T)
  <2>1. \A n \in 1 .. N, v \in Seq(T) : v \o seqs[n] \in Seq(T)
    BY <1>1, ConcatProperties
  <2> QED BY <2>1 DEF Steps
<1>3. PICK h \in IteratesUpTo(N, Seq(T), <<>>, step) : TRUE
  <2> HIDE DEF step
  <2> QED BY <1>2, RecursionUpTo
<1>4. h \in [0 .. N -> Seq(T)] /\ h[0] = <<>> /\ \A n \in 1 .. N : h[n] = h[n - 1] \o seqs[n]
  <2>1. h \in [0 .. N -> Seq(T)] /\ h[0] = <<>> /\ \A n \in 1 .. N : h[n] = step[n][h[n - 1]]
    <3> HIDE DEF step
    <3> QED BY <1>3 DEF IteratesUpTo
  <2>2. \A n \in 1 .. N : n - 1 \in 0 .. N
    OBVIOUS
  <2>3. \A n \in 1 .. N : step[n][h[n - 1]] = h[n - 1] \o seqs[n]
    BY <2>1, <2>2
  <2> QED BY <2>1, <2>3
<1>5. CASE N = 0
  <2>1. seqs = <<>>
    BY <1>5, EmptySeq
  <2>2. FlattenSeq(seqs) = seqs
    BY <1>5, Zenon DEF FlattenSeq
  <2>3. FlattenSeq(seqs) = h[N]
    BY <1>4, <1>5, <2>1, <2>2
  <2> QED BY <1>4, <2>3 DEF Joins
<1>6. CASE N # 0
  <2>1. PICK g : g = [i \in 1 .. N |-> h[i]]
    OBVIOUS
  <2>2. ASSUME NEW i \in 1 .. N PROVE g[i] = F(g)[i]
    <3>1. CASE i = 1
      <4>a. h[i] = h[i - 1] \o seqs[i]
        BY <1>4
      <4>b. i - 1 = 0
        BY <3>1
      <4>0. i - 1 = 0 /\ h[i] = h[i - 1] \o seqs[i]
        BY <4>a, <4>b
      <4>1. g[i] = h[0] \o seqs[i] /\ seqs[i] \in Seq(T)
        BY <1>1, <2>1, <4>0
      <4>2. <<>> \o seqs[i] = seqs[i]
        BY <4>1, ConcatEmptySeq
      <4> QED BY <1>4, <3>1, <4>1, <4>2
    <3>2. CASE i # 1
      <4>1. i - 1 \in 1 .. N
        BY <3>2
      <4>2. g[i] = h[i - 1] \o seqs[i] /\ g[i - 1] = h[i - 1]
        BY <1>4, <2>1, <4>1
      <4> QED BY <3>2, <4>2
    <3> QED BY <3>1, <3>2
  <2>3. g = F(g)
    <3>1. g = [i \in 1 .. N |-> g[i]]
      BY <2>1
    <3>2. F(g) = [i \in 1 .. N |-> F(g)[i]]
      OBVIOUS
    <3> HIDE DEF F
    <3> QED BY <2>2, <3>1, <3>2
  <2>4. total = F(total)
    <3> HIDE DEF F
    <3> QED BY <2>3
  <2>5. FlattenSeq(seqs) = total[N]
    BY <1>6 DEF FlattenSeq
  <2> HIDE DEF total
  <2>6. \A i \in 1 .. N : total[i] = IF i = 1 THEN seqs[i] ELSE total[i - 1] \o seqs[i]
    BY <2>4
  <2> DEFINE U == {n \in 0 .. N : n = 0 \/ total[n] = h[n]}
  <2>7. 0 \in U
    OBVIOUS
  <2>8. ASSUME NEW n \in 1 .. N, n - 1 \in U PROVE n \in U
    <3>1. CASE n = 1
      <4>a. h[n] = h[n - 1] \o seqs[n]
        BY <1>4
      <4>b. n - 1 = 0
        BY <3>1
      <4>0. n - 1 = 0 /\ h[n] = h[n - 1] \o seqs[n]
        BY <4>a, <4>b
      <4>1. total[n] = seqs[n] /\ h[n] = <<>> \o seqs[n] /\ seqs[n] \in Seq(T)
        BY <1>1, <1>4, <2>6, <3>1, <4>0
      <4>2. <<>> \o seqs[n] = seqs[n]
        BY <4>1, ConcatEmptySeq
      <4> QED BY <4>1, <4>2
    <3>2. CASE n # 1
      <4>1. total[n - 1] = h[n - 1]
        BY <2>8, <3>2
      <4>2. total[n] = total[n - 1] \o seqs[n] /\ h[n] = h[n - 1] \o seqs[n]
        BY <1>4, <2>6, <3>2
      <4>3. total[n] = h[n] /\ n \in 0 .. N
        BY <4>1, <4>2
      <4> HIDE DEF total
      <4> QED BY <4>3
    <3> QED BY <3>1, <3>2
  <2>9. N \in U
    <3> HIDE DEF U
    <3>1. 0 .. N \subseteq U
      BY <2>7, <2>8, InductionUpTo
    <3> QED BY <3>1
  <2>10. total[N] = h[N]
    BY <1>6, <2>9
  <2> QED BY <1>4, <2>5, <2>10 DEF Joins
<1> QED BY <1>5, <1>6

\* A flattened sequence of sequences is a sequence.
LEMMA FlattenIs ==
  ASSUME NEW T, NEW seqs \in Seq(Seq(T))
  PROVE  FlattenSeq(seqs) \in Seq(T)
<1>1. PICK N \in Nat : N = Len(seqs)
  OBVIOUS
<1>2. PICK h : h \in Joins(T, seqs, N)
  BY <1>1, Flattening
<1> QED BY <1>2 DEF Joins

\* Many sequences one behind the other, through the states g.
LEMMA PathFlat ==
  ASSUME NEW T, NEW S, NEW f, NEW seqs \in Seq(Seq(S)), NEW N \in Nat, N = Len(seqs),
         NEW g \in [0 .. N -> T], \A i \in 1 .. N : Path(T, f, g[i - 1], seqs[i], g[i])
  PROVE  Path(T, f, g[0], FlattenSeq(seqs), g[N])
<1>1. PICK h : h \in Joins(S, seqs, N)
  BY Flattening
<1>2. /\ h \in [0 .. N -> Seq(S)] /\ h[0] = <<>>
      /\ \A n \in 1 .. N : h[n] = h[n - 1] \o seqs[n]
      /\ FlattenSeq(seqs) = h[N]
  BY <1>1 DEF Joins
<1> DEFINE U == {n \in 0 .. N : Path(T, f, g[0], h[n], g[n])}
<1>3. 0 \in U
  <2>1. g[0] \in T /\ 0 \in 0 .. N
    OBVIOUS
  <2>2. Path(T, f, g[0], <<>>, g[0])
    BY <2>1, PathNone
  <2> QED BY <1>2, <2>1, <2>2
<1>4. ASSUME NEW n \in 1 .. N, n - 1 \in U PROVE n \in U
  <2>0. n - 1 \in 0 .. N /\ n \in 0 .. N
    OBVIOUS
  <2>1. PICK v \in Seq(S) : v = h[n - 1]
    BY <1>2, <2>0
  <2>2. PICK w \in Seq(S) : w = seqs[n]
    OBVIOUS
  <2>3. Path(T, f, g[0], v, g[n - 1]) /\ Path(T, f, g[n - 1], w, g[n])
    BY <1>4, <2>1, <2>2
  <2>4. PICK a, b, c : a = g[0] /\ b = g[n - 1] /\ c = g[n]
    OBVIOUS
  <2>5. Path(T, f, a, v, b) /\ Path(T, f, b, w, c)
    BY <2>3, <2>4
  <2>6. Path(T, f, a, v \o w, c)
    BY <2>5, PathThen
  <2>7. h[n] = v \o w
    BY <1>2, <2>1, <2>2
  <2> QED BY <2>0, <2>4, <2>6, <2>7
<1>5. 0 .. N \subseteq U
  <2> HIDE DEF U
  <2> QED BY <1>3, <1>4, InductionUpTo
<1> QED BY <1>2, <1>5

\* Sequences that lead from a state back to it, one behind the other.
LEMMA PathAll ==
  ASSUME NEW T, NEW S, NEW f, NEW a \in T, NEW seqs \in Seq(Seq(S)),
         \A i \in DOMAIN seqs : Path(T, f, a, seqs[i], a)
  PROVE  Path(T, f, a, FlattenSeq(seqs), a)
<1>1. PICK N \in Nat : N = Len(seqs)
  OBVIOUS
<1>2. PICK g : g = [i \in 0 .. N |-> a]
  OBVIOUS
<1>3. g \in [0 .. N -> T] /\ g[0] = a /\ g[N] = a
  BY <1>2
<1>4. \A i \in 1 .. N : Path(T, f, g[i - 1], seqs[i], g[i])
  <2>1. SUFFICES ASSUME NEW i \in 1 .. N PROVE Path(T, f, g[i - 1], seqs[i], g[i])
    OBVIOUS
  <2>2. i - 1 \in 0 .. N /\ i \in 0 .. N /\ i \in DOMAIN seqs
    BY <1>1
  <2>3. Path(T, f, a, seqs[i], a)
    BY <2>2
  <2> QED BY <1>2, <2>2, <2>3
<1>5. Path(T, f, g[0], FlattenSeq(seqs), g[N])
  BY <1>1, <1>3, <1>4, PathFlat
<1> QED BY <1>3, <1>5

-----------------------------------------------------------------------------
(* Short sequences, and where the parts of a flattened sequence are *)

\* A sequence of one.
LEMMA OneToken == ASSUME NEW S, NEW c \in S PROVE <<c>> \in Seq(S)
  OBVIOUS

\* A sequence of two.
LEMMA TwoTokens ==
  ASSUME NEW S, NEW a \in S, NEW b \in S
  PROVE  <<a>> \o <<b>> = <<a, b>> /\ <<a, b>> \in Seq(S)
<1>1. PICK u, v : u = <<a>> /\ v = <<b>>
  OBVIOUS
<1>2. u \in Seq(S) /\ v \in Seq(S) /\ Len(u) = 1 /\ Len(v) = 1 /\ u[1] = a /\ v[1] = b
  BY <1>1
<1>3. PICK w : w = u \o v
  OBVIOUS
<1>4. w \in Seq(S) /\ Len(w) = 2 /\ w[1] = a /\ w[2] = b
  <2>1. /\ w \in Seq(S) /\ Len(w) = Len(u) + Len(v)
        /\ \A i \in 1 .. Len(u) + Len(v) : w[i] = IF i <= Len(u) THEN u[i] ELSE v[i - Len(u)]
    BY <1>2, <1>3, ConcatProperties
  <2> QED BY <1>2, <2>1
<1>5. w = <<a, b>>
  BY <1>4
<1> QED BY <1>1, <1>3, <1>4, <1>5

\* A sequence of three.
LEMMA ThreeTokens ==
  ASSUME NEW S, NEW a \in S, NEW b \in S, NEW c \in S
  PROVE  (<<a>> \o <<b>>) \o <<c>> = <<a, b, c>>
<1>1. PICK u, v : u = <<a, b>> /\ v = <<c>>
  OBVIOUS
<1>2. u \in Seq(S) /\ v \in Seq(S) /\ Len(u) = 2 /\ Len(v) = 1 /\ u[1] = a /\ u[2] = b /\ v[1] = c
  BY <1>1
<1>3. PICK w : w = u \o v
  OBVIOUS
<1>4. /\ w \in Seq(S) /\ Len(w) = Len(u) + Len(v)
      /\ \A i \in 1 .. Len(u) + Len(v) : w[i] = IF i <= Len(u) THEN u[i] ELSE v[i - Len(u)]
  BY <1>2, <1>3, ConcatProperties
<1>5. Len(w) = 3 /\ w[1] = a /\ w[2] = b /\ w[3] = c
  BY <1>2, <1>4
<1>6. w = <<a, b, c>>
  <2>1. PICK x : x = <<a, b, c>>
    OBVIOUS
  <2>2. x \in Seq(S) /\ Len(x) = 3 /\ x[1] = a /\ x[2] = b /\ x[3] = c
    BY <2>1
  <2>3. \A i \in 1 .. 3 : w[i] = x[i]
    BY <1>5, <2>2
  <2> QED BY <1>4, <1>5, <2>1, <2>2, <2>3, SeqEqual
<1> QED BY <1>1, <1>3, <1>6, TwoTokens

\* Where the entries of two sequences are behind one another.
LEMMA Joined ==
  ASSUME NEW S, NEW v \in Seq(S), NEW w \in Seq(S)
  PROVE  /\ v \o w \in Seq(S) /\ Len(v \o w) = Len(v) + Len(w)
         /\ \A i \in 1 .. Len(v) : (v \o w)[i] = v[i]
         /\ \A i \in 1 .. Len(w) : (v \o w)[Len(v) + i] = w[i]
<1>1. PICK t : t = v \o w
  OBVIOUS
<1>2. PICK m \in Nat, n \in Nat : m = Len(v) /\ n = Len(w)
  OBVIOUS
<1>3. /\ t \in Seq(S) /\ Len(t) = m + n
      /\ \A i \in 1 .. m + n : t[i] = IF i <= m THEN v[i] ELSE w[i - m]
  BY <1>1, <1>2, ConcatProperties
<1>4. \A i \in 1 .. n : m + i \in 1 .. m + n /\ ~(m + i <= m) /\ (m + i) - m = i
  BY <1>2
<1>5. \A i \in 1 .. m : i \in 1 .. m + n /\ i <= m
  BY <1>2
<1>6. (\A i \in 1 .. m : t[i] = v[i]) /\ \A i \in 1 .. n : t[m + i] = w[i]
  BY <1>3, <1>4, <1>5
<1> QED BY <1>1, <1>2, <1>3, <1>6

\* Two sequences are a sequence.
LEMMA Concatenated ==
  ASSUME NEW S, NEW v \in Seq(S), NEW w \in Seq(S) PROVE v \o w \in Seq(S)
  OBVIOUS

\* The first k sequences end at place ends[k] of the flattened sequence f.
Places(seqs, N, f) ==
    {ends \in [0 .. N -> Nat] :
        /\ ends[0] = 0 /\ ends[N] = Len(f)
        /\ \A k \in 1 .. N :
             /\ ends[k] = ends[k - 1] + Len(seqs[k]) /\ ends[k] <= Len(f)
             /\ \A j \in 1 .. Len(seqs[k]) : f[ends[k - 1] + j] = seqs[k][j]}

\* A flattened sequence has such places.
LEMMA PlacesExist ==
  ASSUME NEW S, NEW seqs \in Seq(Seq(S)), NEW N \in Nat, N = Len(seqs),
         NEW f, f = FlattenSeq(seqs)
  PROVE  f \in Seq(S) /\ Places(seqs, N, f) # {}
<1>1. PICK h : h \in Joins(S, seqs, N)
  BY Flattening
<1>2. /\ h \in [0 .. N -> Seq(S)] /\ h[0] = <<>> /\ (\A n \in 1 .. N : h[n] = h[n - 1] \o seqs[n])
      /\ f = h[N]
  BY <1>1 DEF Joins
<1>2a. \A n \in 1 .. N : n - 1 \in 0 .. N /\ n \in 0 .. N /\ seqs[n] \in Seq(S)
  OBVIOUS
<1>3. PICK ends : ends = [n \in 0 .. N |-> Len(h[n])]
  OBVIOUS
<1>4. ends \in [0 .. N -> Nat] /\ \A n \in 0 .. N : ends[n] = Len(h[n])
  BY <1>2, <1>3
<1>5. ends[0] = 0 /\ ends[N] = Len(f)
  <2>1. Len(<<>>) = 0 /\ 0 \in 0 .. N /\ N \in 0 .. N
    OBVIOUS
  <2> QED BY <1>2, <1>4, <2>1
<1>6. ASSUME NEW n \in 1 .. N
      PROVE  /\ ends[n] = ends[n - 1] + Len(seqs[n])
             /\ \A i \in 1 .. ends[n - 1] : h[n][i] = h[n - 1][i]
             /\ \A i \in 1 .. Len(seqs[n]) : h[n][ends[n - 1] + i] = seqs[n][i]
  <2>1. PICK v, w : v = h[n - 1] /\ w = seqs[n]
    OBVIOUS
  <2>2. v \in Seq(S) /\ w \in Seq(S)
    BY <1>2, <1>2a, <2>1
  <2>3. /\ Len(v \o w) = Len(v) + Len(w)
        /\ (\A i \in 1 .. Len(v) : (v \o w)[i] = v[i])
        /\ \A i \in 1 .. Len(w) : (v \o w)[Len(v) + i] = w[i]
    BY <2>2, Joined
  <2>4. h[n] = v \o w /\ ends[n] = Len(v \o w) /\ ends[n - 1] = Len(v)
    BY <1>2, <1>2a, <1>4, <2>1
  <2> QED BY <2>1, <2>3, <2>4
<1> DEFINE U == {n \in 0 .. N : \A k \in 0 .. n : /\ ends[k] <= ends[n]
                                                 /\ \A i \in 1 .. ends[k] : h[n][i] = h[k][i]}
<1>7. 0 \in U
  BY <1>4
<1>8. ASSUME NEW n \in 1 .. N, n - 1 \in U PROVE n \in U
  <2>1. SUFFICES ASSUME NEW k \in 0 .. n
                 PROVE  ends[k] <= ends[n] /\ \A i \in 1 .. ends[k] : h[n][i] = h[k][i]
    OBVIOUS
  <2>1a. ends[n] \in Nat /\ ends[n - 1] \in Nat /\ Len(seqs[n]) \in Nat
    BY <1>2a, <1>4
  <2>2. CASE k = n
    BY <2>1a, <2>2
  <2>3. CASE k # n
    <3>1. k \in 0 .. (n - 1) /\ k \in 0 .. N
      BY <2>3
    <3>2. ends[k] <= ends[n - 1] /\ \A i \in 1 .. ends[k] : h[n - 1][i] = h[k][i]
      BY <1>8, <3>1
    <3>3. ends[n - 1] <= ends[n] /\ \A i \in 1 .. ends[n - 1] : h[n][i] = h[n - 1][i]
      BY <1>6, <2>1a
    <3>4. ends[k] \in Nat
      BY <1>4, <3>1
    <3> QED BY <2>1a, <3>2, <3>3, <3>4
  <2> QED BY <2>2, <2>3
<1>9. N \in U
  <2> HIDE DEF U
  <2>1. 0 .. N \subseteq U
    BY <1>7, <1>8, InductionUpTo
  <2> QED BY <2>1
<1>10. ASSUME NEW k \in 1 .. N
       PROVE  /\ ends[k] = ends[k - 1] + Len(seqs[k]) /\ ends[k] <= Len(f)
              /\ \A j \in 1 .. Len(seqs[k]) : f[ends[k - 1] + j] = seqs[k][j]
  <2>1. ends[k] <= ends[N] /\ \A i \in 1 .. ends[k] : f[i] = h[k][i]
    BY <1>2, <1>2a, <1>9
  <2>2. ends[k - 1] \in Nat /\ Len(seqs[k]) \in Nat
    <3>1. k - 1 \in 0 .. N /\ seqs[k] \in Seq(S)
      BY <1>2a
    <3>2. ends[k - 1] \in Nat
      BY <1>4, <3>1
    <3> QED BY <3>1, <3>2
  <2>3. ends[k] = ends[k - 1] + Len(seqs[k])
    BY <1>6
  <2>4. \A j \in 1 .. Len(seqs[k]) : ends[k - 1] + j \in 1 .. ends[k]
    BY <2>2, <2>3
  <2>5. \A i \in 1 .. Len(seqs[k]) : h[k][ends[k - 1] + i] = seqs[k][i]
    BY <1>6
  <2> QED BY <1>5, <2>1, <2>3, <2>4, <2>5
<1>11. ends \in Places(seqs, N, f)
  BY <1>4, <1>5, <1>10 DEF Places
<1>12. f \in Seq(S)
  BY <1>2
<1> QED BY <1>11, <1>12

\* Every entry of f is an entry of a part.
FromParts(seqs, N, f, ends) ==
    \A i \in 1 .. Len(f) :
      \E k \in 1 .. N : \E j \in 1 .. Len(seqs[k]) : i = ends[k - 1] + j /\ f[i] = seqs[k][j]

\* Every entry of a flattened sequence is one of a part.
LEMMA PlacesCover ==
  ASSUME NEW S, NEW seqs \in Seq(Seq(S)), NEW N \in Nat, N = Len(seqs),
         NEW f, NEW ends \in Places(seqs, N, f)
  PROVE  FromParts(seqs, N, f, ends)
<1> SUFFICES ASSUME NEW i \in 1 .. Len(f)
             PROVE  \E k \in 1 .. N : \E j \in 1 .. Len(seqs[k]) :
                       i = ends[k - 1] + j /\ f[i] = seqs[k][j]
  BY DEF FromParts
<1> DEFINE In(k) == \E j \in 1 .. Len(seqs[k]) : i = ends[k - 1] + j
           U == {n \in 0 .. N : i <= ends[n] => \E k \in 1 .. N : In(k)}
<1>1. /\ ends \in [0 .. N -> Nat] /\ ends[0] = 0 /\ ends[N] = Len(f)
      /\ \A k \in 1 .. N : /\ ends[k] = ends[k - 1] + Len(seqs[k])
                           /\ \A j \in 1 .. Len(seqs[k]) : f[ends[k - 1] + j] = seqs[k][j]
  BY DEF Places
<1>2. 0 \in U
  BY <1>1
<1>3. ASSUME NEW n \in 1 .. N, n - 1 \in U PROVE n \in U
  <2>1. n - 1 \in 0 .. N /\ n \in 0 .. N /\ seqs[n] \in Seq(S)
    OBVIOUS
  <2>1a. PICK w \in Seq(S) : w = seqs[n]
    BY <2>1
  <2>1b. ends[n - 1] \in Nat
    <3>1. ends \in [0 .. N -> Nat]
      BY <1>1
    <3> QED BY <2>1, <3>1
  <2>1c. Len(w) \in Nat
    OBVIOUS
  <2>2. ends[n - 1] \in Nat /\ ends[n] = ends[n - 1] + Len(seqs[n]) /\ Len(seqs[n]) \in Nat
    BY <1>1, <2>1a, <2>1b, <2>1c
  <2>3. CASE i <= ends[n - 1]
    BY <1>3, <2>1, <2>3
  <2>4. CASE i > ends[n]
    BY <2>1, <2>2, <2>4
  <2>5. CASE i <= ends[n] /\ ~(i <= ends[n - 1])
    <3>1. i - ends[n - 1] \in 1 .. Len(seqs[n]) /\ i = ends[n - 1] + (i - ends[n - 1])
      BY <2>2, <2>5
    <3>2. In(n)
      BY <3>1
    <3> QED BY <2>1, <3>2
  <2> QED BY <2>2, <2>3, <2>4, <2>5
<1>4. 0 .. N \subseteq U
  <2> HIDE DEF U
  <2> QED BY <1>2, <1>3, InductionUpTo
<1>5. PICK k \in 1 .. N : In(k)
  <2>1. N \in U
    <3> HIDE DEF U
    <3> QED BY <1>4
  <2>2. i <= ends[N]
    BY <1>1
  <2> QED BY <2>1, <2>2
<1>6. PICK j \in 1 .. Len(seqs[k]) : i = ends[k - 1] + j
  BY <1>5
<1> QED BY <1>1, <1>6
===============================================================================

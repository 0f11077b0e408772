--------------------------- MODULE Recursion_proof ----------------------------
(* What the proofs about data rest on: induction over the natural numbers for *)
(* a set in place of a predicate, and from it what the recursive functions    *)
(* and the folds of the community modules are, for steps given as functions.  *)
EXTENDS Integers, SequencesExt, SequenceTheorems, FiniteSetTheorems, WellFoundedInduction,
        TLAPS

-----------------------------------------------------------------------------
(* Induction.                                                                *)

\* A set of numbers that has 0, and with each number the next, has them all.
LEMMA NumbersInduction ==
  ASSUME NEW S \in SUBSET Nat, 0 \in S, \A n \in S : n + 1 \in S
  PROVE  \A n \in Nat : n \in S
<1> DEFINE T == Nat \ S
<1>1. SUFFICES ASSUME T # {} PROVE FALSE
  OBVIOUS
<1>2. T \subseteq Nat
  OBVIOUS
<1>3. PICK x \in T : \A y \in T : ~ (<<y, x>> \in OpToRel(<, Nat))
  <2> HIDE DEF T
  <2> QED BY <1>1, <1>2, NatLessThanWellFounded, WFMin
<1>4. x \in Nat /\ x # 0 /\ x \notin S
  OBVIOUS
<1>5. x - 1 \in Nat /\ x - 1 < x /\ x = (x - 1) + 1
  BY <1>4
<1>6. x - 1 \notin S
  BY <1>5, <1>4
<1>7. <<x - 1, x>> \in OpToRel(<, Nat)
  BY <1>5, <1>4 DEF OpToRel
<1> QED BY <1>3, <1>5, <1>6, <1>7

-----------------------------------------------------------------------------
(* Recursive functions.                                                      *)

\* A function on 0..N may be defined by its value at 0 and a step.
Recursive(f, N, b, h) == \A n \in 0..N : f[n] = IF n = 0 THEN b ELSE h[<<n, f[n - 1]>>]

LEMMA RecursiveFunction ==
  ASSUME NEW N \in Nat, NEW V, NEW b \in V, NEW h \in [(1..N) \X V -> V]
  PROVE  \E f \in [0..N -> V] : Recursive(f, N, b, h)
<1> USE DEF Recursive
<1> DEFINE Defines(f, n) == \A i \in 0..n : f[i] = IF i = 0 THEN b ELSE h[<<i, f[i - 1]>>]
           S == {n \in Nat : n <= N => \E f \in [0..n -> V] : Defines(f, n)}
<1>1. 0 \in S
  <2> DEFINE f == [i \in 0..0 |-> b]
  <2>1. f \in [0..0 -> V] /\ Defines(f, 0)
    OBVIOUS
  <2> QED BY <2>1
<1>2. ASSUME NEW n \in S PROVE n + 1 \in S
  <2>1. SUFFICES ASSUME n + 1 <= N PROVE \E f \in [0..(n + 1) -> V] : Defines(f, n + 1)
    OBVIOUS
  <2>2. PICK f \in [0..n -> V] : Defines(f, n)
    BY <2>1
  <2> DEFINE g == [i \in 0..(n + 1) |-> IF i = n + 1 THEN h[<<n + 1, f[n]>>] ELSE f[i]]
  <2>3. g \in [0..(n + 1) -> V]
    <3>1. n + 1 \in 1..N /\ f[n] \in V
      BY <2>1
    <3>2. h[<<n + 1, f[n]>>] \in V
      BY <3>1
    <3> QED BY <3>2
  <2>4. ASSUME NEW i \in 0..(n + 1)
        PROVE  g[i] = IF i = 0 THEN b ELSE h[<<i, g[i - 1]>>]
    <3>1. CASE i = n + 1
      <4>1. g[i - 1] = f[n] /\ i # 0
        BY <3>1
      <4> QED BY <4>1, <3>1
    <3>2. CASE i \in 0..n
      <4>1. g[i] = f[i] /\ (i # 0 => i - 1 \in 0..n /\ g[i - 1] = f[i - 1])
        BY <3>2
      <4>2. f[i] = IF i = 0 THEN b ELSE h[<<i, f[i - 1]>>]
        BY <2>2, <3>2
      <4> QED BY <4>1, <4>2
    <3> QED BY <3>1, <3>2
  <2> QED BY <2>3, <2>4
<1>3. \A n \in Nat : n \in S
  <2> HIDE DEF S
  <2>1. S \in SUBSET Nat
    BY DEF S
  <2> QED BY <1>1, <1>2, <2>1, NumbersInduction
<1> QED BY <1>3

-----------------------------------------------------------------------------
(* Folds from the left take the largest number of a domain.                  *)

LEMMA MaxOfNumbers ==
  ASSUME NEW N \in Nat, NEW s \in SUBSET (1..N), s # {}
  PROVE  Max(s) \in s /\ \A y \in s : y <= Max(s)
<1> DEFINE S == {n \in Nat : \A t \in SUBSET (1..n) : t # {} => \E x \in t : \A y \in t : x >= y}
<1>1. 0 \in S
  <2>1. 1..0 = {}
    OBVIOUS
  <2>2. \A t \in SUBSET (1..0) : t = {}
    BY <2>1
  <2> QED BY <2>2
<1>2. ASSUME NEW n \in S PROVE n + 1 \in S
  <2>1. SUFFICES ASSUME NEW t \in SUBSET (1..(n + 1)), t # {}
                 PROVE  \E x \in t : \A y \in t : x >= y
    OBVIOUS
  <2>2. CASE n + 1 \in t
    BY <2>2
  <2>3. CASE n + 1 \notin t
    <3>1. t \in SUBSET (1..n)
      BY <2>3
    <3> QED BY <3>1, <2>1
  <2> QED BY <2>2, <2>3
<1>3. \A n \in Nat : n \in S
  <2> HIDE DEF S
  <2>1. S \in SUBSET Nat
    BY DEF S
  <2> QED BY <1>1, <1>2, <2>1, NumbersInduction
<1>4. \E x \in s : \A y \in s : x >= y
  BY <1>3
<1>5. \E x : x \in s /\ \A y \in s : x >= y
  BY <1>4
<1>6. Max(s) \in s /\ \A y \in s : Max(s) >= y
  BY <1>4 DEF Max
<1> QED BY <1>6

LEMMA MaxOfInterval ==
  ASSUME NEW n \in Nat, NEW s \in SUBSET (1..(n + 1)), n + 1 \in s
  PROVE  Max(s) = n + 1
<1>1. n + 1 \in Nat /\ s # {}
  OBVIOUS
<1>2. Max(s) \in s /\ \A y \in s : y <= Max(s)
  BY <1>1, MaxOfNumbers, Zenon
<1>3. Max(s) \in 1..(n + 1) /\ n + 1 <= Max(s)
  BY <1>2
<1> QED BY <1>3

\* The function by which MapThenFoldSet defines such a fold exists.
Folds(g, N, b, h) == \A s \in SUBSET (1..N) :
  g[s] = IF s = {} THEN b ELSE h[<<Max(s), g[s \ {Max(s)}]>>]

LEMMA LeftFold ==
  ASSUME NEW N \in Nat, NEW V, NEW b \in V, NEW h \in [(1..N) \X V -> V]
  PROVE  \E g \in [SUBSET (1..N) -> V] : Folds(g, N, b, h)
<1> USE DEF Folds
<1> DEFINE Defines(g, n) == \A s \in SUBSET (1..n) :
                              g[s] = IF s = {} THEN b ELSE h[<<Max(s), g[s \ {Max(s)}]>>]
           Exists(n) == n <= N => \E g \in [SUBSET (1..n) -> V] : Defines(g, n)
           S == {n \in Nat : Exists(n)}
<1>1. 0 \in S
  <2> DEFINE g == [s \in SUBSET (1..0) |-> b]
  <2>1. g \in [SUBSET (1..0) -> V] /\ Defines(g, 0)
    OBVIOUS
  <2> QED BY <2>1
<1>2. ASSUME NEW n \in S PROVE n + 1 \in S
  <2>1. SUFFICES ASSUME n + 1 <= N
                 PROVE  \E g \in [SUBSET (1..(n + 1)) -> V] : Defines(g, n + 1)
    <3> HIDE DEF Defines
    <3>1. SUFFICES Exists(n + 1)
      <4>1. n + 1 \in Nat
        OBVIOUS
      <4> QED BY <4>1, Zenon
    <3> QED BY Zenon
  <2>2. PICK g \in [SUBSET (1..n) -> V] : Defines(g, n)
    <3> HIDE DEF Defines
    <3>1. Exists(n)
      BY <1>2, Zenon
    <3>2. n <= N
      BY <2>1
    <3> QED BY <3>1, <3>2, Zenon
  <2> DEFINE f == [s \in SUBSET (1..(n + 1)) |->
                     IF n + 1 \in s THEN h[<<n + 1, g[s \ {n + 1}]>>] ELSE g[s]]
  <2>3. ASSUME NEW s \in SUBSET (1..(n + 1))
        PROVE  s \ {n + 1} \in SUBSET (1..n) /\ (n + 1 \notin s => s \in SUBSET (1..n))
    OBVIOUS
  <2>4. f \in [SUBSET (1..(n + 1)) -> V]
    <3>1. ASSUME NEW s \in SUBSET (1..(n + 1)) PROVE f[s] \in V
      <4>1. n + 1 \in 1..N
        BY <2>1
      <4>2. g[s \ {n + 1}] \in V
        BY <2>3
      <4>3. h[<<n + 1, g[s \ {n + 1}]>>] \in V
        BY <4>1, <4>2
      <4> QED BY <4>3, <2>3
    <3> QED BY <3>1
  <2>5. ASSUME NEW s \in SUBSET (1..(n + 1))
        PROVE  f[s] = IF s = {} THEN b ELSE h[<<Max(s), f[s \ {Max(s)}]>>]
    <3>1. CASE n + 1 \in s
      <4>1. Max(s) = n + 1
        BY <3>1, MaxOfInterval
      <4>2. f[s \ {n + 1}] = g[s \ {n + 1}]
        BY <2>3
      <4> QED BY <4>1, <4>2, <3>1
    <3>2. CASE n + 1 \notin s
      <4>1. s \in SUBSET (1..n) /\ f[s] = g[s]
        BY <3>2, <2>3
      <4>2. s \ {Max(s)} \in SUBSET (1..n)
        BY <4>1
      <4>3. f[s \ {Max(s)}] = g[s \ {Max(s)}]
        BY <4>2
      <4>4. g[s] = IF s = {} THEN b ELSE h[<<Max(s), g[s \ {Max(s)}]>>]
        BY <4>1, <2>2
      <4> QED BY <4>1, <4>3, <4>4
    <3> QED BY <3>1, <3>2
  <2> HIDE DEF f
  <2> QED BY <2>4, <2>5
<1>3. \A n \in Nat : n \in S
  <2> HIDE DEF S
  <2>1. S \in SUBSET Nat
    BY DEF S
  <2> QED BY <1>1, <1>2, <2>1, NumbersInduction
<1>4. N \in S
  BY <1>3, Zenon
<1>5. \E g \in [SUBSET (1..N) -> V] : Defines(g, N)
  <2> HIDE DEF Defines
  <2>1. Exists(N)
    BY <1>4, Zenon
  <2>2. N <= N
    OBVIOUS
  <2> QED BY <2>1, <2>2, Zenon
<1> QED BY <1>5, Zenon
-----------------------------------------------------------------------------
(* Sequences of sequences, put together.                                     *)

\* FlattenSeq adds one sequence after the other.
LEMMA FlattenAsFunction ==
  ASSUME NEW V, NEW ss \in Seq(Seq(V))
  PROVE  \E f \in [0..Len(ss) -> Seq(V)] :
           /\ f[0] = <<>> /\ \A n \in 1..Len(ss) : f[n] = f[n - 1] \o ss[n]
           /\ FlattenSeq(ss) = f[Len(ss)]
<1> DEFINE N == Len(ss)
           h == [p \in (1..N) \X Seq(V) |-> p[2] \o ss[p[1]]]
<1>1. N \in Nat /\ <<>> \in Seq(V) /\ \A n \in 1..N : ss[n] \in Seq(V)
  BY LenProperties, ElementOfSeq, EmptySeq
<1>2. h \in [(1..N) \X Seq(V) -> Seq(V)]
  <2>1. ASSUME NEW p \in (1..N) \X Seq(V) PROVE p[2] \o ss[p[1]] \in Seq(V)
    <3>1. p[1] \in 1..N /\ p[2] \in Seq(V)
      OBVIOUS
    <3>2. ss[p[1]] \in Seq(V)
      BY <1>1, <3>1
    <3> QED BY <3>1, <3>2, ConcatProperties
  <2> QED BY <2>1
<1>3. PICK f \in [0..N -> Seq(V)] : Recursive(f, N, <<>>, h)
  <2> HIDE DEF h, N
  <2> QED BY <1>1, <1>2, RecursiveFunction
<1>4. f[0] = <<>>
  <2>1. 0 \in 0..N
    BY <1>1
  <2> QED BY <1>3, <2>1 DEF Recursive
<1>5. ASSUME NEW n \in 1..N PROVE f[n] = f[n - 1] \o ss[n]
  <2>1. n \in 0..N /\ n # 0 /\ n - 1 \in 0..N
    BY <1>1
  <2>2. f[n - 1] \in Seq(V)
    BY <2>1
  <2>3. f[n] = h[<<n, f[n - 1]>>]
    BY <1>3, <2>1 DEF Recursive
  <2> QED BY <2>2, <2>3
<1>6. CASE N = 0
  <2>1. ss = <<>> /\ FlattenSeq(ss) = ss
    BY <1>6, EmptySeq DEF FlattenSeq
  <2> QED BY <1>4, <1>5, <1>6, <2>1
<1>7. CASE N # 0
  <2> DEFINE Flattens(c) == c = [i \in 1..N |-> IF i = 1 THEN ss[i] ELSE c[i - 1] \o ss[i]]
             c == CHOOSE c : Flattens(c)
             r == [i \in 1..N |-> f[i]]
  <2>1. FlattenSeq(ss) = c[N]
    BY <1>7, Zenon DEF FlattenSeq
  <2>2. ASSUME NEW i \in 1..N
        PROVE  r[i] = IF i = 1 THEN ss[i] ELSE r[i - 1] \o ss[i]
    <3>1. f[i] = f[i - 1] \o ss[i]
      BY <1>5
    <3>2. CASE i = 1
      <4>1. f[i] = <<>> \o ss[i]
        <5>1. i - 1 = 0
          BY <3>2
        <5> QED BY <1>4, <3>1, <5>1, Zenon
      <4> QED BY <1>1, <3>2, <4>1, ConcatEmptySeq
    <3>3. CASE i # 1
      <4>1. i - 1 \in 1..N
        BY <1>1, <3>3
      <4> QED BY <3>1, <3>3, <4>1
    <3> QED BY <3>2, <3>3
  <2>3. Flattens(r)
    BY <2>2
  <2>4. Flattens(c)
    <3> HIDE DEF Flattens, r
    <3> QED BY <2>3, Zenon
  <2>5. ASSUME NEW i \in 1..N
        PROVE  c[i] = IF i = 1 THEN ss[i] ELSE c[i - 1] \o ss[i]
    <3> HIDE DEF c
    <3> QED BY <2>4
  <2> DEFINE S == {n \in Nat : n + 1 <= N => c[n + 1] = f[n + 1]}
  <2> HIDE DEF c, r
  <2>6. 0 \in S
    <3>1. 1 \in 1..N /\ c[1] = ss[1]
      BY <1>1, <1>7, <2>5
    <3>2. f[1] = f[0] \o ss[1]
      <4>1. 1 - 1 = 0
        OBVIOUS
      <4> QED BY <1>5, <3>1, <4>1, Zenon
    <3>3. <<>> \o ss[1] = ss[1]
      BY <1>1, <3>1, ConcatEmptySeq
    <3> QED BY <1>4, <3>1, <3>2, <3>3
  <2>7. ASSUME NEW n \in S PROVE n + 1 \in S
    <3>1. SUFFICES ASSUME (n + 1) + 1 <= N PROVE c[(n + 1) + 1] = f[(n + 1) + 1]
      OBVIOUS
    <3>2. (n + 1) + 1 \in 1..N /\ ((n + 1) + 1) - 1 = n + 1 /\ (n + 1) + 1 # 1
      BY <1>1, <3>1
    <3>3. c[n + 1] = f[n + 1]
      BY <1>1, <3>1
    <3>4. c[(n + 1) + 1] = c[n + 1] \o ss[(n + 1) + 1]
      BY <2>5, <3>2
    <3>5. f[(n + 1) + 1] = f[n + 1] \o ss[(n + 1) + 1]
      BY <1>5, <3>2
    <3> QED BY <3>3, <3>4, <3>5
  <2>8. \A n \in Nat : n \in S
    <3> HIDE DEF S
    <3>1. S \in SUBSET Nat
      BY DEF S
    <3> QED BY <2>6, <2>7, <3>1, NumbersInduction
  <2>9. N - 1 \in Nat /\ (N - 1) + 1 = N
    BY <1>1, <1>7
  <2>10. c[N] = f[N]
    <3>1. N - 1 \in S
      BY <2>8, <2>9
    <3>2. (N - 1) + 1 <= N => c[(N - 1) + 1] = f[(N - 1) + 1]
      BY <3>1
    <3> QED BY <1>1, <2>9, <3>2
  <2> QED BY <1>4, <1>5, <2>1, <2>10
<1> QED BY <1>6, <1>7

LEMMA FlattenEmpty == FlattenSeq(<<>>) = <<>>
BY EmptySeq DEF FlattenSeq

LEMMA FlattenAppend ==
  ASSUME NEW V, NEW ss \in Seq(Seq(V)), NEW s \in Seq(V)
  PROVE  /\ FlattenSeq(ss) \in Seq(V)
         /\ FlattenSeq(Append(ss, s)) = FlattenSeq(ss) \o s
<1> DEFINE N == Len(ss)
           more == Append(ss, s)
<1>1. /\ N \in Nat /\ more \in Seq(Seq(V)) /\ Len(more) = N + 1
      /\ more[N + 1] = s /\ \A i \in 1..N : more[i] = ss[i]
  BY LenProperties, AppendProperties
<1>2. PICK f \in [0..N -> Seq(V)] :
             /\ f[0] = <<>> /\ \A n \in 1..N : f[n] = f[n - 1] \o ss[n]
             /\ FlattenSeq(ss) = f[N]
  BY FlattenAsFunction, Zenon
<1> HIDE DEF more
<1>3. PICK g \in [0..Len(more) -> Seq(V)] :
             /\ g[0] = <<>> /\ \A n \in 1..Len(more) : g[n] = g[n - 1] \o more[n]
             /\ FlattenSeq(more) = g[Len(more)]
  BY <1>1, FlattenAsFunction, Zenon
<1> DEFINE S == {n \in Nat : n <= N => g[n] = f[n]}
<1>4. 0 \in S
  BY <1>2, <1>3
<1>5. ASSUME NEW n \in S PROVE n + 1 \in S
  <2>1. SUFFICES ASSUME n + 1 <= N PROVE g[n + 1] = f[n + 1]
    OBVIOUS
  <2>2. n + 1 \in 1..N /\ n + 1 \in 1..Len(more) /\ (n + 1) - 1 = n
    BY <1>1, <2>1
  <2>3. g[n] = f[n]
    BY <2>1, <1>1
  <2>4. g[n + 1] = g[n] \o more[n + 1] /\ f[n + 1] = f[n] \o ss[n + 1]
    BY <1>2, <1>3, <2>2
  <2> QED BY <1>1, <2>2, <2>3, <2>4
<1>6. \A n \in Nat : n \in S
  <2> HIDE DEF S
  <2>1. S \in SUBSET Nat
    BY DEF S
  <2> QED BY <1>4, <1>5, <2>1, NumbersInduction
<1>7. g[N] = f[N]
  <2>1. N \in S
    BY <1>1, <1>6
  <2>2. N <= N => g[N] = f[N]
    BY <2>1
  <2> QED BY <1>1, <2>2
<1>8. N + 1 \in 1..Len(more) /\ (N + 1) - 1 = N
  BY <1>1
<1>9. g[N + 1] = g[N] \o more[N + 1]
  BY <1>3, <1>8
<1>10. f[N] \in Seq(V)
  <2>1. N \in 0..N
    BY <1>1
  <2> QED BY <2>1
<1> QED BY <1>1, <1>2, <1>3, <1>7, <1>9, <1>10 DEF more

-----------------------------------------------------------------------------
(* Sums.                                                                     *)

\* The sums of the values at each set of places, the largest place added last.
Sums(g, f, N) == \A s \in SUBSET (1..N) :
  g[s] = IF s = {} THEN 0 ELSE f[Max(s)] + g[s \ {Max(s)}]

\* ... which may be any of them.
LEMMA AnyPlaceLast ==
  ASSUME NEW N \in Nat, NEW f \in [1..N -> Int], NEW g \in [SUBSET (1..N) -> Int],
         Sums(g, f, N)
  PROVE  \A s \in SUBSET (1..N) : \A x \in s : g[s] = f[x] + g[s \ {x}]
<1> USE DEF Sums
<1> DEFINE Good(n) == n <= N => \A s \in SUBSET (1..n) : \A x \in s : g[s] = f[x] + g[s \ {x}]
           S == {n \in Nat : Good(n)}
<1>1. 0 \in S
  <2>1. \A s \in SUBSET (1..0) : s = {}
    OBVIOUS
  <2> QED BY <2>1
<1>2. ASSUME NEW n \in S PROVE n + 1 \in S
  <2>1. SUFFICES ASSUME n + 1 <= N, NEW s \in SUBSET (1..(n + 1)), NEW x \in s
                 PROVE  g[s] = f[x] + g[s \ {x}]
    OBVIOUS
  <2>2. /\ \A t \in SUBSET (1..n) : \A y \in t : g[t] = f[y] + g[t \ {y}]
        /\ n + 1 \in 1..N /\ \A t \in SUBSET (1..n) : t \in SUBSET (1..N)
        /\ s \in SUBSET (1..N)
    <3>1. n \in Nat /\ n <= N /\ n + 1 \in 1..N
      BY <2>1
    <3>2. \A t \in SUBSET (1..n) : \A y \in t : g[t] = f[y] + g[t \ {y}]
      BY <3>1
    <3>3. \A i \in 1..(n + 1) : i \in 1..N
      BY <3>1
    <3>4. \A i \in 1..n : i \in 1..N
      BY <3>1
    <3> QED BY <3>1, <3>2, <3>3, <3>4
  <2>3. CASE n + 1 \notin s
    <3>1. s \in SUBSET (1..n)
      BY <2>3
    <3> QED BY <2>2, <3>1
  <2>4. CASE n + 1 \in s /\ x = n + 1
    <3>1. Max(s) = n + 1
      BY <2>4, MaxOfInterval
    <3> QED BY <2>2, <2>4, <3>1
  <2>5. CASE n + 1 \in s /\ x # n + 1
    <3> DEFINE r == s \ {n + 1}
               t == s \ {x}
               u == (s \ {n + 1}) \ {x}
    <3>1. /\ r \in SUBSET (1..n) /\ x \in r /\ r \ {x} = u
          /\ t \in SUBSET (1..(n + 1)) /\ n + 1 \in t /\ t \ {n + 1} = u
          /\ r \in SUBSET (1..N) /\ t \in SUBSET (1..N) /\ u \in SUBSET (1..N)
      BY <2>2, <2>5
    <3>2. Max(s) = n + 1 /\ Max(t) = n + 1
      BY <2>5, <3>1, MaxOfInterval
    <3> HIDE DEF r, t, u
    <3>3. g[s] = f[n + 1] + g[r]
      BY <2>2, <2>5, <3>2 DEF r
    <3>4. g[r] = f[x] + g[u]
      BY SMTT(40), <2>2, <3>1
    <3>5. g[t] = f[n + 1] + g[u]
      <4>1. t # {}
        BY <3>1
      <4> QED BY ZenonT(40), <3>1, <3>2, <4>1
    <3>6. f[n + 1] \in Int /\ f[x] \in Int /\ g[u] \in Int
      BY <2>2, <3>1
    <3>7. g[s] = f[x] + g[t]
      BY <3>3, <3>4, <3>5, <3>6
    <3> QED BY <3>7 DEF t
  <2> QED BY <2>3, <2>4, <2>5
<1>3. \A n \in Nat : n \in S
  <2> HIDE DEF S
  <2>1. S \in SUBSET Nat
    BY DEF S
  <2> QED BY <1>1, <1>2, <2>1, NumbersInduction
<1>4. Good(N)
  <2>1. N \in S
    BY <1>3
  <2> HIDE DEF Good
  <2> QED BY <2>1
<1>5. N <= N
  OBVIOUS
<1> HIDE DEF Sums
<1>6. (N <= N) => \A s \in SUBSET (1..N) : \A x \in s : g[s] = f[x] + g[s \ {x}]
  BY <1>4, Zenon
<1> QED BY <1>5, <1>6

\* SumFunction adds one value after the other.
LEMMA SumAsFunction ==
  ASSUME NEW N \in Nat, NEW f \in [1..N -> Int]
  PROVE  \E S \in [0..N -> Int] :
           /\ S[0] = 0 /\ \A n \in 1..N : S[n] = S[n - 1] + f[n]
           /\ SumFunction(f) = S[N]
<1> DEFINE h == [p \in (1..N) \X Int |-> f[p[1]] + p[2]]
           Pick(s) == CHOOSE x \in s : TRUE
           Summing(c) == c = [s \in SUBSET DOMAIN f |->
                                IF s = {} THEN 0 ELSE f[Pick(s)] + c[s \ {Pick(s)}]]
           c == CHOOSE c : Summing(c)
<1>1. h \in [(1..N) \X Int -> Int]
  <2>1. ASSUME NEW p \in (1..N) \X Int PROVE f[p[1]] + p[2] \in Int
    OBVIOUS
  <2> QED BY <2>1
<1>2. PICK g \in [SUBSET (1..N) -> Int] : Folds(g, N, 0, h)
  <2>1. 0 \in Int
    OBVIOUS
  <2> HIDE DEF h
  <2> QED BY <1>1, <2>1, LeftFold
<1>3. ASSUME NEW s \in SUBSET (1..N)
      PROVE  g[s] = IF s = {} THEN 0 ELSE f[Max(s)] + g[s \ {Max(s)}]
  <2>1. g[s] = IF s = {} THEN 0 ELSE h[<<Max(s), g[s \ {Max(s)}]>>]
    BY <1>2 DEF Folds
  <2>2. s # {} => Max(s) \in 1..N /\ g[s \ {Max(s)}] \in Int
    BY MaxOfNumbers
  <2> QED BY <2>1, <2>2
<1>4. \A s \in SUBSET (1..N) : \A x \in s : g[s] = f[x] + g[s \ {x}]
  <2>1. Sums(g, f, N)
    BY <1>3 DEF Sums
  <2> QED BY <2>1, AnyPlaceLast
<1>5. g[{}] = 0
  <2>1. {} \in SUBSET (1..N)
    OBVIOUS
  <2> QED BY <1>3, <2>1
<1>6. Summing(g)
  <2>1. ASSUME NEW s \in SUBSET (1..N)
        PROVE  g[s] = IF s = {} THEN 0 ELSE f[Pick(s)] + g[s \ {Pick(s)}]
    <3>1. s # {} => Pick(s) \in s
      OBVIOUS
    <3> HIDE DEF Pick
    <3> QED BY <1>4, <1>5, <3>1
  <2>2. DOMAIN f = 1..N /\ g = [s \in SUBSET (1..N) |-> g[s]]
    OBVIOUS
  <2> HIDE DEF Pick
  <2> QED BY <2>1, <2>2
<1>7. Summing(c)
  <2> HIDE DEF Summing
  <2> QED BY <1>6, Zenon
<1>8. SumFunction(f) = c[1..N]
  <2>1. SumFunction(f) = c[DOMAIN f]
    BY Zenon DEF SumFunction, SumFunctionOnSet, FoldFunctionOnSet, MapThenFoldSet
  <2> QED BY <2>1
<1>9. ASSUME NEW s \in SUBSET (1..N)
      PROVE  c[s] = IF s = {} THEN 0 ELSE f[Pick(s)] + c[s \ {Pick(s)}]
  <2> HIDE DEF c, Pick
  <2> QED BY <1>7
<1> HIDE DEF c
<1> DEFINE Same(n) == \A s \in SUBSET (1..N) : Cardinality(s) = n => c[s] = g[s]
           T == {n \in Nat : Same(n)}
<1>10. \A s \in SUBSET (1..N) : IsFiniteSet(s)
  <2>1. IsFiniteSet(1..N)
    BY FS_Interval
  <2> QED BY <2>1, FS_Subset
<1>11. 0 \in T
  <2>1. \A s \in SUBSET (1..N) : Cardinality(s) = 0 => s = {}
    BY <1>10, FS_EmptySet
  <2>2. c[{}] = 0
    BY <1>9
  <2> QED BY <1>5, <2>1, <2>2
<1>12. ASSUME NEW n \in T PROVE n + 1 \in T
  <2>0. n \in Nat /\ n + 1 \in Nat /\ n + 1 # 0 /\ (n + 1) - 1 = n /\ Same(n)
    OBVIOUS
  <2> SUFFICES Same(n + 1)
    <3> HIDE DEF Same
    <3> QED BY <2>0
  <2>1. SUFFICES ASSUME NEW s \in SUBSET (1..N), Cardinality(s) = n + 1 PROVE c[s] = g[s]
    OBVIOUS
  <2>2. s # {}
    BY <2>0, <2>1, FS_EmptySet
  <2>3. Pick(s) \in s
    BY <2>2
  <2> HIDE DEF Pick
  <2>4. Cardinality(s \ {Pick(s)}) = n /\ s \ {Pick(s)} \in SUBSET (1..N)
    <3>1. IsFiniteSet(s)
      BY <1>10
    <3>2. Cardinality(s \ {Pick(s)}) = Cardinality(s) - 1
      BY <2>3, <3>1, FS_RemoveElement
    <3> QED BY <2>0, <2>1, <3>2
  <2>5. c[s \ {Pick(s)}] = g[s \ {Pick(s)}]
    BY <2>0, <2>4
  <2>6. c[s] = f[Pick(s)] + c[s \ {Pick(s)}]
    BY <1>9, <2>2
  <2>7. g[s] = f[Pick(s)] + g[s \ {Pick(s)}]
    BY <1>4, <2>3
  <2> QED BY <2>5, <2>6, <2>7
<1>13. c[1..N] = g[1..N]
  <2>1. \A n \in Nat : n \in T
    <3> HIDE DEF T
    <3>1. T \in SUBSET Nat
      BY DEF T
    <3> QED BY <1>11, <1>12, <3>1, NumbersInduction
  <2>2. 1..N \in SUBSET (1..N) /\ Cardinality(1..N) \in Nat
    BY <1>10, FS_CardinalityType
  <2>3. Cardinality(1..N) \in T
    BY <2>1, <2>2
  <2> QED BY <2>2, <2>3
<1> DEFINE S == [n \in 0..N |-> g[1..n]]
<1>14. S \in [0..N -> Int] /\ S[0] = 0
  <2>1. \A n \in 0..N : 1..n \in SUBSET (1..N)
    OBVIOUS
  <2>2. 1..0 = {}
    OBVIOUS
  <2> QED BY <1>5, <2>1, <2>2
<1>15. ASSUME NEW n \in 1..N PROVE S[n] = S[n - 1] + f[n]
  <2>1. /\ n \in 0..N /\ n - 1 \in 0..N /\ 1..n \in SUBSET (1..N) /\ n \in 1..n
        /\ (1..n) \ {n} = 1..(n - 1) /\ 1..(n - 1) \in SUBSET (1..N)
    <3>1. ASSUME NEW i PROVE i \in (1..n) \ {n} <=> i \in 1..(n - 1)
      OBVIOUS
    <3>2. n \in 0..N /\ n - 1 \in 0..N /\ 1..n \in SUBSET (1..N) /\ n \in 1..n
      OBVIOUS
    <3>3. 1..(n - 1) \in SUBSET (1..N)
      OBVIOUS
    <3> QED BY <3>1, <3>2, <3>3
  <2>2. g[1..n] = f[n] + g[1..(n - 1)]
    BY <1>4, <2>1
  <2>3. f[n] \in Int /\ g[1..(n - 1)] \in Int
    BY <2>1
  <2> QED BY <2>1, <2>2, <2>3
<1>16. SumFunction(f) = S[N]
  BY <1>8, <1>13
<1> QED BY <1>14, <1>15, <1>16

\* The sum of no values, and of one value more.
LEMMA SumStep ==
  ASSUME NEW n \in Nat, NEW f \in [1..(n + 1) -> Int], NEW g \in [1..n -> Int],
         \A i \in 1..n : g[i] = f[i]
  PROVE  /\ SumFunction(g) \in Int
         /\ SumFunction(f) = SumFunction(g) + f[n + 1]
<1>1. n + 1 \in Nat
  OBVIOUS
<1>2. PICK S \in [0..(n + 1) -> Int] :
             /\ S[0] = 0 /\ \A i \in 1..(n + 1) : S[i] = S[i - 1] + f[i]
             /\ SumFunction(f) = S[n + 1]
  BY <1>1, SumAsFunction
<1>3. PICK T \in [0..n -> Int] :
             /\ T[0] = 0 /\ \A i \in 1..n : T[i] = T[i - 1] + g[i]
             /\ SumFunction(g) = T[n]
  BY SumAsFunction
<1> DEFINE Same(i) == i <= n => S[i] = T[i]
           Q == {i \in Nat : Same(i)}
<1>4. 0 \in Q
  BY <1>2, <1>3
<1>5. ASSUME NEW i \in Q PROVE i + 1 \in Q
  <2>1. SUFFICES ASSUME i + 1 <= n PROVE S[i + 1] = T[i + 1]
    OBVIOUS
  <2>2. i + 1 \in 1..(n + 1) /\ i + 1 \in 1..n /\ (i + 1) - 1 = i /\ S[i] = T[i]
    BY <2>1
  <2>3. S[i + 1] = S[i] + f[i + 1] /\ T[i + 1] = T[i] + g[i + 1]
    BY <1>2, <1>3, <2>2
  <2> QED BY <2>2, <2>3
<1>6. S[n] = T[n]
  <2>1. \A i \in Nat : i \in Q
    <3> HIDE DEF Q
    <3>1. Q \in SUBSET Nat
      BY DEF Q
    <3> QED BY <1>4, <1>5, <3>1, NumbersInduction
  <2>2. n \in Q
    BY <2>1
  <2>3. n <= n => S[n] = T[n]
    BY <2>2
  <2> QED BY <2>3
<1>7. S[n + 1] = S[n] + f[n + 1]
  <2>1. n + 1 \in 1..(n + 1) /\ (n + 1) - 1 = n
    OBVIOUS
  <2> QED BY <1>2, <2>1
<1>8. T[n] \in Int
  <2>1. n \in 0..n
    OBVIOUS
  <2> QED BY <2>1
<1> QED BY <1>2, <1>3, <1>6, <1>7, <1>8

LEMMA SumEmpty == ASSUME NEW f \in [1..0 -> Int] PROVE SumFunction(f) = 0
<1>1. PICK S \in [0..0 -> Int] :
             /\ S[0] = 0 /\ \A i \in 1..0 : S[i] = S[i - 1] + f[i]
             /\ SumFunction(f) = S[0]
  BY SumAsFunction
<1> QED BY <1>1

LEMMA SumTwo ==
  ASSUME NEW f \in [1..2 -> Int]
  PROVE  SumFunction(f) = f[1] + f[2]
<1>1. PICK S \in [0..2 -> Int] :
             /\ S[0] = 0 /\ \A i \in 1..2 : S[i] = S[i - 1] + f[i]
             /\ SumFunction(f) = S[2]
  BY SumAsFunction
<1>2. S[1] = S[0] + f[1] /\ S[2] = S[1] + f[2]
  <2>1. 1 \in 1..2 /\ 2 \in 1..2 /\ 1 - 1 = 0 /\ 2 - 1 = 1
    OBVIOUS
  <2> QED BY <1>1, <2>1
<1> QED BY <1>1, <1>2

LEMMA SumFour ==
  ASSUME NEW f \in [1..4 -> Int]
  PROVE  SumFunction(f) = f[1] + f[2] + f[3] + f[4]
<1>1. PICK S \in [0..4 -> Int] :
             /\ S[0] = 0 /\ \A i \in 1..4 : S[i] = S[i - 1] + f[i]
             /\ SumFunction(f) = S[4]
  BY SumAsFunction
<1>2. S[1] = S[0] + f[1] /\ S[2] = S[1] + f[2] /\ S[3] = S[2] + f[3] /\ S[4] = S[3] + f[4]
  <2>1. /\ 1 \in 1..4 /\ 2 \in 1..4 /\ 3 \in 1..4 /\ 4 \in 1..4
        /\ 1 - 1 = 0 /\ 2 - 1 = 1 /\ 3 - 1 = 2 /\ 4 - 1 = 3
    OBVIOUS
  <2> QED BY <1>1, <2>1
<1> QED BY <1>1, <1>2

\* Sums of natural numbers, and sums of values that differ at one place.
LEMMA SumNat ==
  ASSUME NEW n \in Nat, NEW f \in [1..n -> Nat]
  PROVE  SumFunction(f) \in Nat
<1>1. f \in [1..n -> Int]
  OBVIOUS
<1>2. PICK S \in [0..n -> Int] :
             /\ S[0] = 0 /\ \A i \in 1..n : S[i] = S[i - 1] + f[i]
             /\ SumFunction(f) = S[n]
  BY <1>1, SumAsFunction
<1> DEFINE Good(i) == i <= n => S[i] \in Nat
           Q == {i \in Nat : Good(i)}
<1>3. 0 \in Q
  BY <1>2
<1>4. ASSUME NEW i \in Q PROVE i + 1 \in Q
  <2>1. SUFFICES ASSUME i + 1 <= n PROVE S[i + 1] \in Nat
    OBVIOUS
  <2>2. i + 1 \in 1..n /\ (i + 1) - 1 = i /\ S[i] \in Nat
    BY <2>1
  <2>3. S[i + 1] = S[i] + f[i + 1]
    BY <1>2, <2>2
  <2> QED BY <2>2, <2>3
<1>5. \A i \in Nat : i \in Q
  <2> HIDE DEF Q
  <2>1. Q \in SUBSET Nat
    BY DEF Q
  <2> QED BY <1>3, <1>4, <2>1, NumbersInduction
<1>6. n \in Q
  BY <1>5
<1>7. n <= n => S[n] \in Nat
  BY <1>6
<1> QED BY <1>2, <1>7

LEMMA SumChange ==
  ASSUME NEW n \in Nat, NEW f \in [1..n -> Int], NEW g \in [1..n -> Int], NEW k \in 1..n,
         \A i \in 1..n : i # k => g[i] = f[i]
  PROVE  SumFunction(g) - SumFunction(f) = g[k] - f[k]
<1>1. PICK S \in [0..n -> Int] :
             /\ S[0] = 0 /\ \A i \in 1..n : S[i] = S[i - 1] + f[i]
             /\ SumFunction(f) = S[n]
  BY SumAsFunction
<1>2. PICK T \in [0..n -> Int] :
             /\ T[0] = 0 /\ \A i \in 1..n : T[i] = T[i - 1] + g[i]
             /\ SumFunction(g) = T[n]
  BY SumAsFunction
<1> DEFINE d == g[k] - f[k]
           Good(i) == i <= n => T[i] = S[i] + (IF i < k THEN 0 ELSE d)
           Q == {i \in Nat : Good(i)}
<1>3. 0 \in Q
  BY <1>1, <1>2
<1>4. ASSUME NEW i \in Q PROVE i + 1 \in Q
  <2>1. SUFFICES ASSUME i + 1 <= n PROVE Good(i + 1)
    OBVIOUS
  <2>2. /\ i + 1 \in 1..n /\ (i + 1) - 1 = i /\ i \in 0..n
        /\ T[i] = S[i] + (IF i < k THEN 0 ELSE d)
    BY <2>1
  <2>3. S[i + 1] = S[i] + f[i + 1] /\ T[i + 1] = T[i] + g[i + 1]
    BY <1>1, <1>2, <2>2
  <2>4. CASE i + 1 = k
    <3>1. i < k /\ ~(i + 1 < k) /\ f[i + 1] \in Int /\ g[i + 1] \in Int /\ S[i] \in Int
      BY <2>2, <2>4
    <3>2. d = g[i + 1] - f[i + 1]
      BY <2>4
    <3> HIDE DEF d
    <3> QED BY <2>2, <2>3, <3>1, <3>2
  <2>5. CASE i + 1 # k
    <3>1. g[i + 1] = f[i + 1] /\ f[i + 1] \in Int /\ S[i] \in Int /\ d \in Int
      BY SMTT(40), <2>2, <2>5
    <3>2. i + 1 < k <=> i < k
      BY <2>2, <2>5
    <3> HIDE DEF d
    <3> QED BY <2>2, <2>3, <3>1, <3>2
  <2> QED BY <2>4, <2>5
<1>5. \A i \in Nat : i \in Q
  <2> HIDE DEF Q
  <2>1. Q \in SUBSET Nat
    BY DEF Q
  <2> QED BY <1>3, <1>4, <2>1, NumbersInduction
<1>6. n \in Q
  BY <1>5
<1>7. T[n] = S[n] + d
  <2>1. n <= n => T[n] = S[n] + (IF n < k THEN 0 ELSE d)
    BY <1>6
  <2> QED BY <2>1
<1>8. S[n] \in Int /\ d \in Int
  <2>1. n \in 0..n
    OBVIOUS
  <2> QED BY <2>1
<1> QED BY <1>1, <1>2, <1>7, <1>8

\* The first value, and the sum of the others.
LEMMA SumFirst ==
  ASSUME NEW n \in Nat, NEW f \in [1..(n + 1) -> Int], NEW g \in [1..n -> Int],
         \A i \in 1..n : g[i] = f[i + 1]
  PROVE  SumFunction(f) = f[1] + SumFunction(g)
<1>0. n + 1 \in Nat /\ 1 \in 1..(n + 1)
  OBVIOUS
<1>1. PICK S \in [0..(n + 1) -> Int] :
             /\ S[0] = 0 /\ \A i \in 1..(n + 1) : S[i] = S[i - 1] + f[i]
             /\ SumFunction(f) = S[n + 1]
  BY <1>0, SumAsFunction
<1>2. PICK T \in [0..n -> Int] :
             /\ T[0] = 0 /\ \A i \in 1..n : T[i] = T[i - 1] + g[i]
             /\ SumFunction(g) = T[n]
  BY SumAsFunction
<1> DEFINE Good(i) == i <= n => S[i + 1] = f[1] + T[i]
           Q == {i \in Nat : Good(i)}
<1>3. 0 \in Q
  <2>1. S[1] = S[0] + f[1]
    <3>1. 1 - 1 = 0
      OBVIOUS
    <3> QED BY <1>0, <1>1, <3>1
  <2> QED BY <1>0, <1>1, <1>2, <2>1
<1>4. ASSUME NEW i \in Q PROVE i + 1 \in Q
  <2>1. SUFFICES ASSUME i + 1 <= n PROVE S[(i + 1) + 1] = f[1] + T[i + 1]
    OBVIOUS
  <2>2. /\ i + 1 \in 1..n /\ (i + 1) - 1 = i /\ i \in 0..n /\ ((i + 1) + 1) - 1 = i + 1
        /\ (i + 1) + 1 \in 1..(n + 1) /\ S[i + 1] = f[1] + T[i]
    BY <2>1
  <2>3. S[(i + 1) + 1] = S[i + 1] + f[(i + 1) + 1] /\ T[i + 1] = T[i] + g[i + 1]
    BY <1>1, <1>2, <2>2
  <2>4. g[i + 1] = f[(i + 1) + 1] /\ g[i + 1] \in Int /\ T[i] \in Int /\ f[1] \in Int
    BY <1>0, <2>2
  <2> QED BY <2>2, <2>3, <2>4
<1>5. \A i \in Nat : i \in Q
  <2> HIDE DEF Q
  <2>1. Q \in SUBSET Nat
    BY DEF Q
  <2> QED BY <1>3, <1>4, <2>1, NumbersInduction
<1>6. n \in Q
  BY <1>5
<1>7. n <= n => S[n + 1] = f[1] + T[n]
  BY <1>6
<1> QED BY <1>1, <1>2, <1>7
==============================================================================

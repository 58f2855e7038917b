--------------------------- MODULE AssistantProofs --------------------------
(***************************************************************************)
(* A question, the retrieval it uses and the index under it, for every     *)
(* corpus, batch size, length of a lane and number of passages.            *)
(*                                                                         *)
(* IInv says that the files of one build agree, wherever builds, copies,   *)
(* restarts and loads have left them; QInv says what a question has in     *)
(* hand at each place.  The first part is about the operators of the       *)
(* model: what they compute is proved by induction over numbers, from the  *)
(* principle of the least number.  The last part is about the cutting of   *)
(* articles, and uses the same lemmas.                                     *)
(***************************************************************************)
EXTENDS Assistant, Chunker, Integers, FiniteSetTheorems, SequenceTheorems, WellFoundedInduction, TLAPS
-----------------------------------------------------------------------------
(* Numbers and sequences.                                                  *)

\* A set of numbers that is not empty has a least one.
LEMMA LeastNumber ==
  ASSUME NEW T \in SUBSET Nat, T # {}
  PROVE  \E n \in T : \A m \in T : n <= m
<1> DEFINE R == OpToRel(<, Nat)
<1>1. \A x, y \in Nat : x < y => <<x, y>> \in R
  BY DEF OpToRel
<1>2. IsWellFoundedOn(R, Nat)
  BY NatLessThanWellFounded
<1> HIDE DEF R
<1>3. PICK n \in T : \A m \in T : ~(<<m, n>> \in R)
  BY <1>2, WFMin
<1>4. ASSUME NEW m \in T PROVE n <= m
  <2>1. ~(<<m, n>> \in R)
    BY <1>3
  <2>2. m \in Nat /\ n \in Nat
    OBVIOUS
  <2>3. ~(m < n)
    BY <1>1, <2>1, <2>2
  <2> QED
    BY <2>2, <2>3
<1> QED
  BY <1>4

\* Induction, for a set of numbers.
LEMMA AllNumbers ==
  ASSUME NEW S, 0 \in S, \A n \in Nat : n \in S => n + 1 \in S
  PROVE  Nat \subseteq S
<1> SUFFICES ASSUME Nat \ S # {} PROVE FALSE
  OBVIOUS
<1>1. PICK n \in Nat \ S : \A m \in Nat \ S : n <= m
  BY LeastNumber
<1>2. n # 0 /\ n - 1 \in Nat /\ n - 1 \notin Nat \ S
  BY <1>1
<1>3. n - 1 \in S
  BY <1>2
<1>4. (n - 1) + 1 = n
  BY <1>2
<1> QED
  BY <1>1, <1>2, <1>3, <1>4

\* What is computed step by step, with each step a value for each value, exists.
StepsOf(N, X) == [1..N -> [X -> X]]
Computed(f, start, N, step) == f[0] = start /\ \A n \in 1..N : f[n] = step[n][f[n - 1]]
HasRun(X, start, N, step) == \E f \in [0..N -> X] : Computed(f, start, N, step)

\* So a start and one step after another make a run.
LEMMA Steps ==
  ASSUME NEW X, NEW start \in X, NEW N \in Nat, NEW step \in StepsOf(N, X)
  PROVE  HasRun(X, start, N, step)
<1> USE DEF StepsOf
<1> DEFINE Upto(k, g) == /\ g \in [0..k -> X] /\ g[0] = start
                         /\ \A n \in 1..k : g[n] = step[n][g[n - 1]]
           S == {k \in Nat : k <= N => \E g : Upto(k, g)}
<1>1. 0 \in S
  <2> DEFINE g == [n \in 0..0 |-> start]
  <2>1. Upto(0, g)
    OBVIOUS
  <2> QED
    BY <2>1
<1>2. ASSUME NEW k \in Nat, k \in S PROVE k + 1 \in S
  <2> SUFFICES ASSUME k + 1 <= N PROVE \E g : Upto(k + 1, g)
    OBVIOUS
  <2>1. PICK g : Upto(k, g)
    BY <1>2
  <2> DEFINE x == step[k + 1][g[k]]
             h == [n \in 0..(k + 1) |-> IF n = k + 1 THEN x ELSE g[n]]
  <2>2. x \in X
    BY <2>1
  <2> HIDE DEF x
  <2>3. h \in [0..(k + 1) -> X] /\ h[0] = start
    BY <2>1, <2>2
  <2>4. ASSUME NEW n \in 1..(k + 1) PROVE h[n] = step[n][h[n - 1]]
    <3>1. CASE n = k + 1
      BY <2>1, <3>1 DEF x
    <3>2. CASE n # k + 1
      BY <2>1, <3>2
    <3> QED
      BY <3>1, <3>2
  <2> HIDE DEF h
  <2> QED
    BY <2>3, <2>4
<1> HIDE DEF S
<1>3. Nat \subseteq S
  BY <1>1, <1>2, AllNumbers
<1>4. \E g : Upto(N, g)
  BY <1>3 DEF S
<1> QED
  BY <1>4 DEF HasRun, Computed

\* What Append makes of one element and another.
LEMMA PairOf ==
  ASSUME NEW x, NEW y
  PROVE  Append(<<x>>, y) = <<x, y>>
<1> DEFINE S == {x, y}
           s == <<x>>
           t == Append(s, y)
<1>1. s \in Seq(S) /\ Len(s) = 1 /\ s[1] = x /\ y \in S
  OBVIOUS
<1> HIDE DEF S, s
<1>2. t \in Seq(S) /\ Len(t) = Len(s) + 1 /\ t[Len(s) + 1] = y /\ \A i \in 1..Len(s) : t[i] = s[i]
  BY <1>1
<1> HIDE DEF t
<1>3. Len(t) = 2 /\ t[1] = x /\ t[2] = y
  BY <1>1, <1>2
<1>4. t = <<x, y>>
  <2> DEFINE u == <<x, y>>
  <2>1. u \in Seq(S) /\ Len(u) = 2 /\ u[1] = x /\ u[2] = y
    <3>1. x \in S /\ y \in S
      BY DEF S
    <3> QED
      BY <3>1
  <2> HIDE DEF u
  <2>2. \A i \in 1..2 : i = 1 \/ i = 2
    OBVIOUS
  <2>3. \A i \in 1..Len(t) : t[i] = u[i]
    BY <1>3, <2>1, <2>2
  <2>4. t = u
    BY <1>2, <1>3, <2>1, <2>3
  <2> QED
    BY <2>4 DEF u
<1> QED
  BY <1>4 DEF t, s

\* A function on 1..m is a sequence of length m.
LEMMA SequenceOf ==
  ASSUME NEW S, NEW m \in Nat, NEW f \in [1..m -> S]
  PROVE  f \in Seq(S) /\ Len(f) = m
  OBVIOUS

\* t takes elements of the first k of s, in their order.
Takes(t, s, k) ==
  \E e \in [1..Len(t) -> 1..k] :
     /\ \A i, j \in 1..Len(t) : i < j => e[i] < e[j]
     /\ \A i \in 1..Len(t) : t[i] = s[e[i]]

\* Nothing is taken of nothing; the next element is taken or passed over.
LEMMA TakesNone ==
  ASSUME NEW s
  PROVE  Takes(<<>>, s, 0)
<1>1. 1..Len(<<>>) = {}
  OBVIOUS
<1> DEFINE e == [i \in {} |-> 0]
<1>2. e \in [{} -> 1..0]
  OBVIOUS
<1> HIDE DEF e
<1> QED
  BY <1>1, <1>2 DEF Takes

LEMMA TakesOne ==
  ASSUME NEW X, NEW s \in Seq(X), NEW t \in Seq(X), NEW k \in Nat, k + 1 \in 1..Len(s),
         Takes(t, s, k)
  PROVE  Takes(t, s, k + 1) /\ Takes(Append(t, s[k + 1]), s, k + 1)
<1>1. PICK e \in [1..Len(t) -> 1..k] :
         /\ \A i, j \in 1..Len(t) : i < j => e[i] < e[j]
         /\ \A i \in 1..Len(t) : t[i] = s[e[i]]
  BY DEF Takes
<1>2. Takes(t, s, k + 1)
  <2>1. e \in [1..Len(t) -> 1..(k + 1)]
    OBVIOUS
  <2> QED
    BY <1>1, <2>1 DEF Takes
<1>3. Takes(Append(t, s[k + 1]), s, k + 1)
  <2> DEFINE u == Append(t, s[k + 1])
             f == [i \in 1..(Len(t) + 1) |-> IF i = Len(t) + 1 THEN k + 1 ELSE e[i]]
  <2>1. Len(u) = Len(t) + 1 /\ Len(t) \in Nat /\ u[Len(t) + 1] = s[k + 1]
        /\ \A i \in 1..Len(t) : u[i] = t[i]
    OBVIOUS
  <2> HIDE DEF u
  <2>2. /\ f \in [1..Len(u) -> 1..(k + 1)] /\ f[Len(t) + 1] = k + 1
        /\ \A i \in 1..Len(t) : f[i] = e[i] /\ e[i] \in 1..k
    <3>1. \A i \in 1..Len(t) : e[i] \in 1..k /\ e[i] \in 1..(k + 1)
      OBVIOUS
    <3>2. ASSUME NEW i \in 1..(Len(t) + 1) PROVE i = Len(t) + 1 \/ i \in 1..Len(t)
      BY <2>1
    <3> HIDE DEF u
    <3> QED
      BY <2>1, <3>1, <3>2
  <2> HIDE DEF f
  <2>3. ASSUME NEW i \in 1..Len(u), NEW j \in 1..Len(u), i < j PROVE f[i] < f[j]
    <3>1. i \in 1..Len(t) /\ (j = Len(t) + 1 \/ j \in 1..Len(t))
      <4>1. Len(u) = Len(t) + 1 /\ Len(t) \in Nat
        BY <2>1
      <4>2. i \in 1..(Len(t) + 1) /\ j \in 1..(Len(t) + 1) /\ i < j
        BY <2>3, <4>1
      <4> QED
        BY <4>1, <4>2
    <3>2. CASE j = Len(t) + 1
      <4>1. f[i] \in 1..k /\ f[j] = k + 1
        BY <2>2, <3>1, <3>2
      <4> QED
        BY <4>1
    <3>3. CASE j \in 1..Len(t)
      BY <1>1, <2>2, <2>3, <3>1, <3>3
    <3> QED
      BY <3>1, <3>2, <3>3
  <2>4. ASSUME NEW i \in 1..Len(u) PROVE u[i] = s[f[i]]
    <3>1. i = Len(t) + 1 \/ i \in 1..Len(t)
      BY <2>1
    <3> QED
      BY <1>1, <2>1, <2>2, <3>1
  <2> QED
    BY <2>2, <2>3, <2>4 DEF Takes, u
<1> QED
  BY <1>2, <1>3

\* What is taken of different elements are different elements.
LEMMA TakesInjective ==
  ASSUME NEW s, NEW k, NEW t, Len(t) \in Nat, k \in Nat, Takes(t, s, k),
         \A i, j \in 1..k : s[i] = s[j] => i = j
  PROVE  \A i, j \in 1..Len(t) : t[i] = t[j] => i = j
<1>1. PICK e \in [1..Len(t) -> 1..k] :
         /\ \A i, j \in 1..Len(t) : i < j => e[i] < e[j]
         /\ \A i \in 1..Len(t) : t[i] = s[e[i]]
  BY DEF Takes
<1> SUFFICES ASSUME NEW i \in 1..Len(t), NEW j \in 1..Len(t), t[i] = t[j], i # j PROVE FALSE
  OBVIOUS
<1>2. e[i] = e[j] /\ e[i] \in 1..k /\ e[j] \in 1..k
  BY <1>1
<1>3. i < j \/ j < i
  OBVIOUS
<1> QED
  BY <1>1, <1>2, <1>3

\* Among keeps, of a sequence, the elements in a set, in their order.
LEMMA AmongIs ==
  ASSUME NEW X, NEW s \in Seq(X), NEW T
  PROVE  Among(s, T) \in Seq(X \cap T) /\ Takes(Among(s, T), s, Len(s))
<1> DEFINE kept == CHOOSE f : f = [i \in 0..Len(s) |->
                IF i = 0 THEN <<>>
                ELSE IF s[i] \in T THEN Append(f[i - 1], s[i]) ELSE f[i - 1]]
           Y == X \cap T
           step == [i \in 1..Len(s) |-> [t \in Seq(Y) |-> IF s[i] \in T THEN Append(t, s[i]) ELSE t]]
<1>1. step \in [1..Len(s) -> [Seq(Y) -> Seq(Y)]]
  OBVIOUS
<1>2. ASSUME NEW i \in 1..Len(s), NEW t \in Seq(Y) PROVE step[i][t] = IF s[i] \in T THEN Append(t, s[i]) ELSE t
  OBVIOUS
<1> HIDE DEF step
<1>3. Len(s) \in Nat /\ <<>> \in Seq(Y)
  OBVIOUS
<1>4. PICK f \in [0..Len(s) -> Seq(Y)] : f[0] = <<>> /\ \A n \in 1..Len(s) : f[n] = step[n][f[n - 1]]
  <2> DEFINE Z == Seq(Y)
             N == Len(s)
             start == <<>>
  <2>1. step \in StepsOf(N, Z) /\ start \in Z /\ N \in Nat
    BY <1>1, <1>3 DEF StepsOf
  <2> HIDE DEF Z, N, start
  <2>2. HasRun(Z, start, N, step)
    BY <2>1, Steps
  <2> QED
    BY <2>2 DEF Z, N, start, HasRun, Computed
<1> DEFINE Further(i, t) == IF s[i] \in T THEN Append(t, s[i]) ELSE t
<1>5. \A i \in 1..Len(s) : f[i - 1] \in Seq(Y) /\ f[i] = Further(i, f[i - 1])
  <2> SUFFICES ASSUME NEW i \in 1..Len(s)
               PROVE  f[i - 1] \in Seq(Y) /\ f[i] = Further(i, f[i - 1])
    OBVIOUS
  <2>1. i - 1 \in 0..Len(s)
    BY <1>3
  <2> HIDE DEF Y
  <2>2. f[i - 1] \in Seq(Y)
    BY <2>1
  <2>3. f[i] = step[i][f[i - 1]]
    BY <1>4
  <2> QED
    BY <1>2, <2>2, <2>3
<1>6. f = [i \in 0..Len(s) |-> IF i = 0 THEN <<>> ELSE Further(i, f[i - 1])]
  <2> HIDE DEF Further, Y
  <2>1. ASSUME NEW i \in 0..Len(s) PROVE f[i] = IF i = 0 THEN <<>> ELSE Further(i, f[i - 1])
    <3>1. i = 0 \/ i \in 1..Len(s)
      BY <1>3
    <3>2. CASE i = 0
      BY <1>4, <3>2
    <3>3. CASE i \in 1..Len(s)
      <4>1. i # 0
        BY <1>3, <3>3
      <4> QED
        BY <1>5, <3>3, <4>1
    <3> QED
      BY <3>1, <3>2, <3>3
  <2> QED
    BY <2>1
<1>7. kept = [i \in 0..Len(s) |-> IF i = 0 THEN <<>> ELSE Further(i, kept[i - 1])]
  BY <1>6
<1>8. Among(s, T) = kept[Len(s)]
  BY DEF Among
<1> HIDE DEF kept
<1>9. kept[0] = <<>> /\ \A i \in 1..Len(s) : kept[i] = Further(i, kept[i - 1])
  <2> HIDE DEF Further
  <2> QED
    BY <1>3, <1>7
<1> DEFINE Good == {k \in Nat : k <= Len(s) => kept[k] \in Seq(Y) /\ Takes(kept[k], s, k)}
<1>10. 0 \in Good
  <2>1. kept[0] = <<>> /\ Len(<<>>) = 0
    BY <1>9
  <2>2. Takes(<<>>, s, 0)
    BY TakesNone
  <2> QED
    BY <1>3, <2>1, <2>2
<1>11. ASSUME NEW k \in Nat, k \in Good PROVE k + 1 \in Good
  <2> SUFFICES ASSUME k + 1 <= Len(s) PROVE kept[k + 1] \in Seq(Y) /\ Takes(kept[k + 1], s, k + 1)
    OBVIOUS
  <2>1. kept[k] \in Seq(Y) /\ Takes(kept[k], s, k)
    BY <1>3, <1>11
  <2>2. k + 1 \in 1..Len(s) /\ (k + 1) - 1 = k
    BY <1>3
  <2>3. kept[k + 1] = IF s[k + 1] \in T THEN Append(kept[k], s[k + 1]) ELSE kept[k]
    BY <1>9, <2>2
  <2>4. kept[k] \in Seq(X) /\ s[k + 1] \in X
    BY <2>1, <2>2
  <2>5. Takes(kept[k], s, k + 1) /\ Takes(Append(kept[k], s[k + 1]), s, k + 1)
    BY <2>1, <2>2, <2>4, TakesOne
  <2> QED
    BY <2>1, <2>3, <2>4, <2>5
<1> HIDE DEF Good
<1>12. Len(s) \in Good
  BY <1>3, <1>10, <1>11, AllNumbers
<1> QED
  BY <1>3, <1>8, <1>12 DEF Good

\* PlaceIn is the first of the places an id has.
LEMMA PlaceIs ==
  ASSUME NEW X, NEW lane \in Seq(X), NEW id
  PROVE  /\ PlaceIn(lane, id) \in 0..Len(lane)
         /\ Contains(lane, id) => /\ PlaceIn(lane, id) \in 1..Len(lane)
                                  /\ lane[PlaceIn(lane, id)] = id
                                  /\ \A i \in 1..Len(lane) : lane[i] = id => PlaceIn(lane, id) <= i
<1> DEFINE I == {i \in 1..Len(lane) : lane[i] = id}
<1>1. PlaceIn(lane, id) = IF I # {} THEN CHOOSE x \in I : \A y \in I : x <= y ELSE 0
  BY DEF PlaceIn, SelectInSeq, Min
<1>2. Contains(lane, id) => I # {}
  BY DEF Contains
<1>3. Len(lane) \in Nat /\ I \in SUBSET Nat /\ I \subseteq 1..Len(lane)
  OBVIOUS
<1>4. CASE I = {}
  BY <1>1, <1>2, <1>3, <1>4
<1>5. CASE I # {}
  <2>1. \E x \in I : \A y \in I : x <= y
    BY <1>3, <1>5, LeastNumber
  <2>2. PlaceIn(lane, id) \in I /\ \A y \in I : PlaceIn(lane, id) <= y
    BY <1>1, <1>5, <2>1
  <2> QED
    BY <1>3, <2>2
<1> QED
  BY <1>4, <1>5

\* The common denominator is a positive multiple of what it divides by.
LEMMA Multiply ==
  ASSUME NEW a \in Nat, NEW b \in Nat
  PROVE  a * b \in Nat /\ (a > 0 /\ b > 0 => a * b > 0)
  OBVIOUS

LEMMA SwapFactors ==
  ASSUME NEW q \in Nat, NEW a \in Nat, NEW b \in Nat
  PROVE  (q * a) * b = (q * b) * a /\ q * b \in Nat
  OBVIOUS

\* Scale is a multiple of every denominator.
LEMMA ScaleIs ==
  /\ Scale \in Nat /\ Scale > 0
  /\ \A rank \in 1..MaxRank : \E q \in Nat : Scale = q * (RrfK + rank)
<1>0. MaxRank \in Nat /\ RrfK \in Nat
  BY RetrievalAssumption DEF RetrievalAssumption
<1> DEFINE Further(rank, n) == n * (RrfK + rank)
           product == CHOOSE f : f = [rank \in 0..MaxRank |->
                        IF rank = 0 THEN 1 ELSE f[rank - 1] * (RrfK + rank)]
           step == [rank \in 1..MaxRank |-> [n \in Nat |-> Further(rank, n)]]
<1>1. ASSUME NEW rank \in 1..MaxRank, NEW n \in Nat
      PROVE  /\ RrfK + rank \in Nat /\ RrfK + rank > 0
             /\ Further(rank, n) \in Nat /\ (n > 0 => Further(rank, n) > 0)
  <2>1. RrfK + rank \in Nat /\ RrfK + rank > 0
    BY <1>0
  <2> QED
    BY <2>1, Multiply
<1>2. Scale = product[MaxRank]
  BY DEF Scale
<1> HIDE DEF Further
<1>3. step \in [1..MaxRank -> [Nat -> Nat]]
  BY <1>1
<1>4. \A rank \in 1..MaxRank, n \in Nat : step[rank][n] = Further(rank, n)
  OBVIOUS
<1> HIDE DEF step
<1>5. PICK f \in [0..MaxRank -> Nat] : f[0] = 1 /\ \A n \in 1..MaxRank : f[n] = step[n][f[n - 1]]
  <2> DEFINE start == 1
             X == Nat
  <2>1. start \in X /\ MaxRank \in Nat /\ step \in StepsOf(MaxRank, X)
    BY <1>0, <1>3 DEF StepsOf
  <2> HIDE DEF start, X
  <2>2. HasRun(X, start, MaxRank, step)
    BY <2>1, Steps
  <2> QED
    BY <2>2 DEF start, X, HasRun, Computed
<1>6. f = [rank \in 0..MaxRank |-> IF rank = 0 THEN 1 ELSE Further(rank, f[rank - 1])]
  <2>1. ASSUME NEW i \in 1..MaxRank PROVE f[i] = Further(i, f[i - 1])
    <3>1. f[i - 1] \in Nat
      BY <1>0
    <3> QED
      BY <1>4, <1>5, <3>1
  <2>2. \A i \in 0..MaxRank : f[i] = IF i = 0 THEN 1 ELSE Further(i, f[i - 1])
    BY <1>0, <1>5, <2>1
  <2> QED
    BY <2>2
<1>7. product = [rank \in 0..MaxRank |-> IF rank = 0 THEN 1 ELSE Further(rank, product[rank - 1])]
  BY <1>6 DEF Further
<1> HIDE DEF product
<1>8. product[0] = 1 /\ \A i \in 1..MaxRank : product[i] = Further(i, product[i - 1])
  BY <1>0, <1>7
<1> DEFINE Divides(i, n) == \E q \in Nat : n = q * (RrfK + i)
           Good == {k \in Nat : k <= MaxRank => /\ product[k] \in Nat /\ product[k] > 0
                                                /\ \A i \in 1..k : Divides(i, product[k])}
<1>9. 0 \in Good
  BY <1>8
<1>10. ASSUME NEW k \in Nat, k \in Good PROVE k + 1 \in Good
  <2> SUFFICES ASSUME k + 1 <= MaxRank
               PROVE  /\ product[k + 1] \in Nat /\ product[k + 1] > 0
                      /\ \A i \in 1..(k + 1) : Divides(i, product[k + 1])
    OBVIOUS
  <2>1. product[k] \in Nat /\ product[k] > 0 /\ \A i \in 1..k : Divides(i, product[k])
    BY <1>0, <1>10
  <2>2. k + 1 \in 1..MaxRank /\ product[k + 1] = Further(k + 1, product[k])
    BY <1>0, <1>8
  <2>3. Divides(k + 1, product[k + 1])
    BY <2>1, <2>2 DEF Further
  <2>4. ASSUME NEW i \in 1..k PROVE Divides(i, product[k + 1])
    <3>1. PICK q \in Nat : product[k] = q * (RrfK + i)
      BY <2>1
    <3>2. RrfK + i \in Nat /\ RrfK + (k + 1) \in Nat
      BY <1>0
    <3>3. product[k + 1] = (q * (RrfK + i)) * (RrfK + (k + 1))
      BY <2>2, <3>1 DEF Further
    <3> DEFINE a == RrfK + i
               b == RrfK + (k + 1)
    <3>4. a \in Nat /\ b \in Nat /\ product[k + 1] = (q * a) * b
      BY <3>2, <3>3
    <3> HIDE DEF a, b, Divides
    <3>5. product[k + 1] = (q * b) * a /\ q * b \in Nat
      BY <3>4, SwapFactors
    <3> QED
      BY <3>5 DEF a, Divides
  <2>5. \A i \in 1..(k + 1) : i \in 1..k \/ i = k + 1
    OBVIOUS
  <2> HIDE DEF Divides
  <2> QED
    BY <1>1, <2>1, <2>2, <2>3, <2>4, <2>5
<1> HIDE DEF Good
<1>11. MaxRank \in Good
  BY <1>0, <1>9, <1>10, AllNumbers
<1> QED
  BY <1>2, <1>11 DEF Good

LEMMA Quotient ==
  ASSUME NEW q \in Nat, NEW d \in Nat, d > 0
  PROVE  (q * d) \div d = q
  OBVIOUS

\* The smaller of two divisors has the greater quotient.
LEMMA SmallerDivisor ==
  ASSUME NEW q \in Nat, NEW r \in Nat, NEW d \in Nat, NEW e \in Nat,
         q * d = r * e, d < e, r > 0
  PROVE  q > r
<1> SUFFICES ASSUME q <= r PROVE FALSE
  OBVIOUS
<1>1. q * d <= r * d
  OBVIOUS
<1>2. r * e = r * d + r * (e - d) /\ r * (e - d) > 0
  <2>1. e - d \in Nat /\ e - d > 0
    OBVIOUS
  <2>2. r * (e - d) > 0
    BY <2>1, Multiply
  <2> QED
    BY <2>2
<1>3. q * d \in Nat /\ r * d \in Nat /\ r * e \in Nat
  BY Multiply
<1> QED
  BY <1>1, <1>2, <1>3

\* A share is a number; a better place has a greater share, any place more than
\* none.
LEMMA LaneScoreIs ==
  ASSUME NEW X, NEW lane \in Seq(X), Len(lane) <= MaxRank
  PROVE  \A x, y :
           /\ LaneScore(lane, x) \in Nat
           /\ Contains(lane, x) => LaneScore(lane, x) > 0
           /\ ~Contains(lane, x) => LaneScore(lane, x) = 0
           /\ Contains(lane, x) /\ Contains(lane, y) /\ PlaceIn(lane, x) < PlaceIn(lane, y) =>
                LaneScore(lane, x) > LaneScore(lane, y)
           /\ Contains(lane, x) /\ Contains(lane, y) /\ PlaceIn(lane, x) = PlaceIn(lane, y) =>
                LaneScore(lane, x) = LaneScore(lane, y)
<1>0. MaxRank \in Nat /\ RrfK \in Nat /\ Len(lane) \in Nat
  <2>1. MaxRank \in Nat /\ RrfK \in Nat
    BY RetrievalAssumption DEF RetrievalAssumption
  <2>2. Len(lane) \in Nat
    OBVIOUS
  <2> QED
    BY <2>1, <2>2
<1> DEFINE Divisor(x) == RrfK + PlaceIn(lane, x)
<1>1. ASSUME NEW x, Contains(lane, x)
      PROVE  /\ Divisor(x) \in Nat /\ Divisor(x) > 0
             /\ \E q \in Nat : Scale = q * Divisor(x) /\ LaneScore(lane, x) = q /\ q > 0
  <2>1. PlaceIn(lane, x) \in 1..MaxRank
    BY <1>0, <1>1, PlaceIs
  <2>2. Divisor(x) \in Nat /\ Divisor(x) > 0
    BY <1>0, <2>1
  <2>3. PICK q \in Nat : Scale = q * Divisor(x)
    BY <2>1, ScaleIs
  <2>4. LaneScore(lane, x) = Scale \div Divisor(x)
    BY <1>1 DEF LaneScore
  <2> HIDE DEF Divisor
  <2>5. LaneScore(lane, x) = q
    BY <2>2, <2>3, <2>4, Quotient
  <2>6. q > 0
    <3>1. q = 0 => Scale = 0
      BY <2>2, <2>3
    <3> QED
      BY <3>1, ScaleIs
  <2> QED
    BY <2>2, <2>3, <2>5, <2>6
<1>2. ASSUME NEW x, ~Contains(lane, x)
      PROVE  LaneScore(lane, x) = 0
  BY <1>2 DEF LaneScore
<1>3. ASSUME NEW x, NEW y, Contains(lane, x), Contains(lane, y), PlaceIn(lane, x) < PlaceIn(lane, y)
      PROVE  LaneScore(lane, x) > LaneScore(lane, y)
  <2>1. Divisor(x) < Divisor(y)
    <3>1. PlaceIn(lane, x) \in Nat /\ PlaceIn(lane, y) \in Nat
      BY <1>0, PlaceIs
    <3> QED
      BY <1>0, <1>3, <3>1
  <2> HIDE DEF Divisor
  <2>2. PICK q \in Nat : Scale = q * Divisor(x) /\ LaneScore(lane, x) = q /\ q > 0
    BY <1>1, <1>3
  <2>3. PICK r \in Nat : Scale = r * Divisor(y) /\ LaneScore(lane, y) = r /\ r > 0
    BY <1>1, <1>3
  <2>4. Divisor(x) \in Nat /\ Divisor(y) \in Nat
    BY <1>1, <1>3
  <2>5. q > r
    BY <2>1, <2>2, <2>3, <2>4, SmallerDivisor
  <2> QED
    BY <2>2, <2>3, <2>5
<1>4. ASSUME NEW x, NEW y, Contains(lane, x), Contains(lane, y), PlaceIn(lane, x) = PlaceIn(lane, y)
      PROVE  LaneScore(lane, x) = LaneScore(lane, y)
  BY <1>4 DEF LaneScore
<1> HIDE DEF Divisor
<1>5. ASSUME NEW x PROVE LaneScore(lane, x) \in Nat /\ (Contains(lane, x) => LaneScore(lane, x) > 0)
  BY <1>1, <1>2
<1> QED
  BY <1>2, <1>3, <1>4, <1>5

LanesOf(X) == {lane \in Seq(X) : Len(lane) <= MaxRank}

\* A score is computed lane by lane.
LEMMA ScoreSums ==
  ASSUME NEW X, NEW lanes \in Seq(LanesOf(X)), NEW id
  PROVE  \E sum \in [0..Len(lanes) -> Nat] :
           /\ sum[0] = 0
           /\ \A i \in 1..Len(lanes) : sum[i] = sum[i - 1] + LaneScore(lanes[i], id)
           /\ Score(lanes, id) = sum[Len(lanes)]
<1> DEFINE N == Len(lanes)
           Further(i, n) == n + LaneScore(lanes[i], id)
           total == CHOOSE f : f = [i \in 0..Len(lanes) |->
                      IF i = 0 THEN 0 ELSE f[i - 1] + LaneScore(lanes[i], id)]
           step == [i \in 1..N |-> [n \in Nat |-> Further(i, n)]]
<1>0. N \in Nat
  OBVIOUS
<1>1. ASSUME NEW i \in 1..N, NEW n \in Nat PROVE Further(i, n) \in Nat
  <2>1. lanes[i] \in Seq(X) /\ Len(lanes[i]) <= MaxRank
    BY DEF LanesOf
  <2>2. LaneScore(lanes[i], id) \in Nat
    BY <2>1, LaneScoreIs
  <2> QED
    BY <2>2
<1>2. Score(lanes, id) = total[N]
  BY DEF Score
<1> HIDE DEF Further
<1>3. step \in [1..N -> [Nat -> Nat]] /\ \A i \in 1..N, n \in Nat : step[i][n] = Further(i, n)
  BY <1>1
<1> HIDE DEF step
<1>4. PICK f \in [0..N -> Nat] : f[0] = 0 /\ \A n \in 1..N : f[n] = step[n][f[n - 1]]
  <2> DEFINE start == 0
             Y == Nat
  <2>1. start \in Y /\ N \in Nat /\ step \in StepsOf(N, Y)
    BY <1>0, <1>3 DEF StepsOf
  <2> HIDE DEF start, Y, N
  <2>2. HasRun(Y, start, N, step)
    BY <2>1, Steps
  <2> QED
    BY <2>2 DEF start, Y, HasRun, Computed
<1> HIDE DEF N
<1>5. f = [i \in 0..N |-> IF i = 0 THEN 0 ELSE Further(i, f[i - 1])]
  <2>1. ASSUME NEW i \in 1..N PROVE f[i] = Further(i, f[i - 1])
    <3>1. f[i - 1] \in Nat
      BY <1>0
    <3> QED
      BY <1>3, <1>4, <3>1
  <2>2. \A i \in 0..N : f[i] = IF i = 0 THEN 0 ELSE Further(i, f[i - 1])
    BY <1>0, <1>4, <2>1
  <2> QED
    BY <2>2
<1>6. total = [i \in 0..N |-> IF i = 0 THEN 0 ELSE Further(i, total[i - 1])]
  BY <1>5 DEF Further, N
<1> HIDE DEF total
<1>7. total[0] = 0 /\ \A i \in 1..N : total[i] = Further(i, total[i - 1])
  BY <1>0, <1>6
<1> DEFINE Good == {k \in Nat : k <= N => total[k] \in Nat}
<1>8. 0 \in Good
  BY <1>7
<1>9. ASSUME NEW k \in Nat, k \in Good PROVE k + 1 \in Good
  <2> SUFFICES ASSUME k + 1 <= N PROVE total[k + 1] \in Nat
    OBVIOUS
  <2>1. total[k] \in Nat /\ k + 1 \in 1..N /\ total[k + 1] = Further(k + 1, total[k])
    BY <1>0, <1>7, <1>9
  <2> QED
    BY <1>1, <2>1
<1> HIDE DEF Good
<1>10. Nat \subseteq Good
  BY <1>8, <1>9, AllNumbers
<1>11. \A k \in 0..N : total[k] \in Nat
  BY <1>0, <1>10 DEF Good
<1>12. total \in [0..N -> Nat]
  BY <1>6, <1>11
<1> QED
  BY <1>2, <1>7, <1>12 DEF N, Further

\* What no lane scores lower, and some lane higher, has the higher score.
LEMMA ScoreIs ==
  ASSUME NEW X, NEW lanes \in Seq(LanesOf(X)), NEW x, NEW y
  PROVE  /\ Score(lanes, x) \in Nat
         /\ ( /\ \A i \in 1..Len(lanes) : LaneScore(lanes[i], x) >= LaneScore(lanes[i], y)
              /\ \E i \in 1..Len(lanes) : LaneScore(lanes[i], x) > LaneScore(lanes[i], y) ) =>
            Score(lanes, x) > Score(lanes, y)
<1> DEFINE N == Len(lanes)
<1>0. N \in Nat
  OBVIOUS
<1>1. PICK s \in [0..N -> Nat] :
         s[0] = 0 /\ (\A i \in 1..N : s[i] = s[i - 1] + LaneScore(lanes[i], x)) /\ Score(lanes, x) = s[N]
  BY ScoreSums
<1>2. PICK t \in [0..N -> Nat] :
         t[0] = 0 /\ (\A i \in 1..N : t[i] = t[i - 1] + LaneScore(lanes[i], y)) /\ Score(lanes, y) = t[N]
  BY ScoreSums
<1>3. ASSUME NEW i \in 1..N PROVE LaneScore(lanes[i], x) \in Nat /\ LaneScore(lanes[i], y) \in Nat
  <2>1. lanes[i] \in Seq(X) /\ Len(lanes[i]) <= MaxRank
    BY DEF LanesOf
  <2> QED
    BY <2>1, LaneScoreIs
<1> HIDE DEF N
<1>4. Score(lanes, x) \in Nat
  BY <1>0, <1>1
<1> SUFFICES ASSUME \A i \in 1..N : LaneScore(lanes[i], x) >= LaneScore(lanes[i], y),
                    NEW j \in 1..N, LaneScore(lanes[j], x) > LaneScore(lanes[j], y)
             PROVE  Score(lanes, x) > Score(lanes, y)
  BY <1>4 DEF N
<1> DEFINE Good == {k \in Nat : k <= N => s[k] >= t[k] /\ (k >= j => s[k] > t[k])}
<1>5. 0 \in Good
  BY <1>1, <1>2
<1>6. ASSUME NEW k \in Nat, k \in Good PROVE k + 1 \in Good
  <2> SUFFICES ASSUME k + 1 <= N PROVE s[k + 1] >= t[k + 1] /\ (k + 1 >= j => s[k + 1] > t[k + 1])
    OBVIOUS
  <2> DEFINE a == LaneScore(lanes[k + 1], x)
             b == LaneScore(lanes[k + 1], y)
  <2>1. k + 1 \in 1..N /\ k \in 0..N /\ k + 1 \in 0..N
    BY <1>0
  <2>2. a \in Nat /\ b \in Nat /\ a >= b /\ (k + 1 = j => a > b)
    BY <1>3, <2>1
  <2>3. s[k + 1] = s[k] + a /\ t[k + 1] = t[k] + b
    BY <1>1, <1>2, <2>1
  <2> HIDE DEF a, b
  <2>4. s[k] \in Nat /\ t[k] \in Nat /\ s[k] >= t[k] /\ (k >= j => s[k] > t[k])
    BY <1>0, <1>6, <2>1
  <2> QED
    BY <2>2, <2>3, <2>4
<1> HIDE DEF Good
<1>7. N \in Good
  BY <1>0, <1>5, <1>6, AllNumbers
<1> QED
  BY <1>0, <1>1, <1>2, <1>7 DEF Good

\* The lanes one after the other are a sequence of what they are made of.
LEMMA FlattenIs ==
  ASSUME NEW X, NEW lanes \in Seq(Seq(X))
  PROVE  FlattenSeq(lanes) \in Seq(X)
<1> DEFINE N == Len(lanes)
<1>0. N \in Nat
  OBVIOUS
<1>1. CASE N = 0
  <2>1. FlattenSeq(lanes) = lanes /\ lanes = <<>>
    BY <1>1 DEF FlattenSeq
  <2> QED
    BY <2>1
<1>2. CASE N # 0
  <2> DEFINE Further(i, t) == t \o lanes[i]
             flat == CHOOSE f : f = [i \in 1..Len(lanes) |->
                       IF i = 1 THEN lanes[i] ELSE f[i - 1] \o lanes[i]]
             Y == Seq(X)
             M == N - 1
             start == lanes[1]
             step == [i \in 1..M |-> [t \in Y |-> Further(i + 1, t)]]
  <2>1. FlattenSeq(lanes) = flat[N]
    BY <1>2 DEF FlattenSeq
  <2>2. ASSUME NEW i \in 1..N, NEW t \in Y PROVE Further(i, t) \in Y
    <3>1. lanes[i] \in Seq(X)
      OBVIOUS
    <3> QED
      BY <3>1
  <2>3. M \in Nat /\ start \in Y /\ N = M + 1
    BY <1>0, <1>2
  <2>4. \A i \in 1..M : i + 1 \in 1..N
    BY <2>3
  <2> HIDE DEF Further, Y, M, N
  <2>5. step \in [1..M -> [Y -> Y]] /\ \A i \in 1..M, t \in Y : step[i][t] = Further(i + 1, t)
    BY <2>2, <2>4
  <2> HIDE DEF step, start, flat
  <2>6. PICK f \in [0..M -> Y] : f[0] = start /\ \A n \in 1..M : f[n] = step[n][f[n - 1]]
    <3>1. step \in StepsOf(M, Y)
      BY <2>5 DEF StepsOf
    <3>2. HasRun(Y, start, M, step)
      BY <2>3, <3>1, Steps
    <3> QED
      BY <3>2 DEF HasRun, Computed
  <2> DEFINE g == [i \in 1..N |-> f[i - 1]]
  <2>7. g = [i \in 1..N |-> IF i = 1 THEN lanes[i] ELSE Further(i, g[i - 1])]
    <3>1. g[1] = lanes[1]
      BY <2>3, <2>6 DEF start
    <3>2. ASSUME NEW i \in 2..N PROVE g[i] = Further(i, g[i - 1])
      <4>1. i - 1 \in 1..M /\ (i - 1) - 1 \in 0..M /\ (i - 1) + 1 = i /\ i - 1 \in 1..N /\ i \in 1..N
        BY <2>3
      <4>2. f[i - 1] = step[i - 1][f[(i - 1) - 1]]
        BY <2>6, <4>1
      <4>3. f[(i - 1) - 1] \in Y
        BY <4>1
      <4>4. f[i - 1] = Further(i, f[(i - 1) - 1])
        BY <2>5, <4>1, <4>2, <4>3
      <4>5. g[i] = f[i - 1] /\ g[i - 1] = f[(i - 1) - 1]
        BY <4>1
      <4> QED
        BY <4>4, <4>5
    <3>3. \A i \in 1..N : i = 1 \/ i \in 2..N
      BY <2>3
    <3> HIDE DEF g
    <3>4. \A i \in 1..N : g[i] = IF i = 1 THEN lanes[i] ELSE Further(i, g[i - 1])
      BY <3>1, <3>2, <3>3
    <3>5. g = [i \in 1..N |-> g[i]]
      BY DEF g
    <3> QED
      BY <3>4, <3>5
  <2> HIDE DEF g
  <2>8. flat = [i \in 1..N |-> IF i = 1 THEN lanes[i] ELSE Further(i, flat[i - 1])]
    BY <2>7 DEF Further, N, flat
  <2>9. flat[1] = start /\ \A i \in 1..M : flat[i + 1] = Further(i + 1, flat[i])
    <3>1. 1 \in 1..N
      BY <2>3
    <3>2. \A i \in 1..M : i + 1 # 1 /\ (i + 1) - 1 = i
      BY <2>3
    <3> QED
      BY <2>4, <2>8, <3>1, <3>2 DEF start
  <2> DEFINE Good == {k \in Nat : k <= M => flat[k + 1] \in Y}
  <2>10. 0 \in Good
    BY <2>3, <2>9
  <2>11. ASSUME NEW k \in Nat, k \in Good PROVE k + 1 \in Good
    <3> SUFFICES ASSUME k + 1 <= M PROVE flat[(k + 1) + 1] \in Y
      OBVIOUS
    <3>1. k + 1 \in 1..M /\ flat[k + 1] \in Y
      BY <2>3, <2>11
    <3> QED
      BY <2>2, <2>4, <2>9, <3>1
  <2> HIDE DEF Good
  <2>12. M \in Good
    BY <2>3, <2>10, <2>11, AllNumbers
  <2> QED
    BY <2>1, <2>3, <2>12 DEF Good, Y
<1> QED
  BY <1>1, <1>2

\* Where each element of a finite set has below it another set of elements,
\* and of two the one is below the other, every number below their number is
\* the number of those below one of them.
LEMMA Ranks ==
  ASSUME NEW S, IsFiniteSet(S), NEW below \in [S -> SUBSET S],
         \A x \in S : x \notin below[x],
         \A x, y \in S : x \in below[y] => below[x] \subseteq below[y],
         \A x, y \in S : x # y => x \in below[y] \/ y \in below[x]
  PROVE  /\ \A x, y \in S : x \in below[y] => Cardinality(below[x]) < Cardinality(below[y])
         /\ \A i \in 1..Cardinality(S) : \E x \in S : Cardinality(below[x]) = i - 1
<1> DEFINE n == Cardinality(S)
           rank == [x \in S |-> Cardinality(below[x])]
<1>1. n \in Nat
  BY FS_CardinalityType
<1>2. ASSUME NEW x \in S, NEW T \in SUBSET S, x \notin T, NEW U \in SUBSET S, T \subseteq U, x \in U
      PROVE  Cardinality(T) \in Nat /\ Cardinality(U) \in Nat /\ Cardinality(T) < Cardinality(U)
  <2>1. IsFiniteSet(U) /\ IsFiniteSet(T)
    BY FS_Subset
  <2>2. Cardinality(T) \in Nat /\ Cardinality(U) \in Nat
    BY <2>1, FS_CardinalityType
  <2>3. T \in SUBSET U /\ T # U
    BY <1>2
  <2>4. Cardinality(T) <= Cardinality(U) /\ (Cardinality(U) = Cardinality(T) => U = T)
    BY <2>1, <2>3, FS_Subset
  <2> QED
    BY <2>2, <2>3, <2>4
<1>3. ASSUME NEW x \in S PROVE Cardinality(below[x]) \in Nat /\ Cardinality(below[x]) < n
  <2>1. below[x] \in SUBSET S /\ x \notin below[x] /\ S \in SUBSET S
    OBVIOUS
  <2> QED
    BY <1>2, <2>1
<1>4. ASSUME NEW x \in S, NEW y \in S, x \in below[y]
      PROVE  Cardinality(below[x]) < Cardinality(below[y])
  <2>1. below[x] \in SUBSET S /\ below[y] \in SUBSET S /\ x \notin below[x] /\ below[x] \subseteq below[y]
    BY <1>4
  <2> QED
    BY <1>2, <1>4, <2>1
<1>5. rank \in Injection(S, 0..(n - 1))
  <2>1. \A x \in S : rank[x] = Cardinality(below[x])
    OBVIOUS
  <2>2. \A x \in S : Cardinality(below[x]) \in 0..(n - 1)
    BY <1>1, <1>3
  <2>3. rank \in [S -> 0..(n - 1)]
    BY <2>2
  <2>4. ASSUME NEW x \in S, NEW y \in S, x # y PROVE rank[x] # rank[y]
    <3> HIDE DEF rank
    <3>1. x \in below[y] \/ y \in below[x]
      BY <2>4
    <3>2. rank[x] < rank[y] \/ rank[y] < rank[x]
      BY <1>4, <2>1, <3>1
    <3>3. rank[x] \in Nat /\ rank[y] \in Nat
      BY <1>3, <2>1
    <3> QED
      BY <3>2, <3>3
  <2> HIDE DEF rank
  <2> QED
    BY <2>3, <2>4 DEF Injection, IsInjective
<1>6. IsFiniteSet(0..(n - 1)) /\ Cardinality(0..(n - 1)) = n
  <2>1. 0 \in Int /\ n - 1 \in Int /\ (IF 0 > n - 1 THEN 0 ELSE (n - 1) - 0 + 1) = n
    BY <1>1
  <2> HIDE DEF n
  <2> QED
    BY <2>1, FS_Interval
<1>7. rank \in Surjection(S, 0..(n - 1))
  <2> HIDE DEF rank
  <2> QED
    BY <1>5, <1>6, FS_Injection
<1>8. ASSUME NEW i \in 1..n PROVE \E x \in S : Cardinality(below[x]) = i - 1
  <2>1. i - 1 \in 0..(n - 1)
    BY <1>1
  <2>2. \E x \in S : rank[x] = i - 1
    <3> HIDE DEF rank
    <3> QED
      BY <1>7, <2>1 DEF Surjection
  <2> QED
    BY <2>2
<1> QED
  BY <1>4, <1>8

\* Every chunk that a lane names has one place in the fused order, its own.
LEMMA FuseIs ==
  ASSUME NEW X, NEW lanes \in Seq(LanesOf(X))
  PROVE  /\ Fuse(lanes) \in Seq(X)
         /\ \A i, j \in 1..Len(Fuse(lanes)) : Fuse(lanes)[i] = Fuse(lanes)[j] => i = j
         /\ \A i, j \in 1..Len(Fuse(lanes)) : Before(lanes, Fuse(lanes)[i], Fuse(lanes)[j]) => i < j
<1> DEFINE flat == FlattenSeq(lanes)
           ids == ToSet(flat)
           n == Cardinality(ids)
           below == [y \in ids |-> {x \in ids : Before(lanes, x, y)}]
           fused == Fuse(lanes)
<1>1. flat \in Seq(X)
  <2>1. lanes \in Seq(Seq(X))
    <3>1. LanesOf(X) \subseteq Seq(X)
      BY DEF LanesOf
    <3> HIDE DEF LanesOf
    <3> QED
      BY <3>1
  <2> QED
    BY <2>1, FlattenIs
<1>2. fused = [i \in 1..n |-> CHOOSE id \in ids : Cardinality({x \in ids : Before(lanes, x, id)}) = i - 1]
  BY DEF Fuse
<1> HIDE DEF flat, fused
<1>3. ids \subseteq X /\ IsFiniteSet(ids) /\ \A x \in ids : Contains(flat, x)
  <2>1. Len(flat) \in Nat /\ ids = {flat[i] : i \in 1..Len(flat)} /\ \A i \in 1..Len(flat) : flat[i] \in X
    BY <1>1 DEF ToSet
  <2>2. \A x \in ids : Contains(flat, x)
    BY <2>1 DEF Contains
  <2> DEFINE m == Len(flat)
             at == [i \in 1..m |-> flat[i]]
  <2>3. at \in Surjection(1..m, ids)
    BY <2>1 DEF Surjection
  <2>4. m \in Nat
    BY <2>1
  <2> HIDE DEF m, at, ids
  <2>5. IsFiniteSet(1..m)
    BY <2>4, FS_Interval
  <2>6. IsFiniteSet(ids)
    BY <2>3, <2>5, FS_Surjection
  <2> QED
    BY <2>1, <2>2, <2>6
<1>4. n \in Nat
  <2> HIDE DEF ids
  <2> QED
    BY <1>3, FS_CardinalityType
<1>5. \A x : Score(lanes, x) \in Nat
  BY ScoreIs
<1>6. \A x \in ids : PlaceIn(flat, x) \in Nat /\ flat[PlaceIn(flat, x)] = x
  <2>1. Len(flat) \in Nat
    BY <1>1
  <2>2. ASSUME NEW x \in ids PROVE PlaceIn(flat, x) \in 1..Len(flat) /\ flat[PlaceIn(flat, x)] = x
    BY <1>1, <1>3, PlaceIs
  <2> QED
    BY <2>1, <2>2
<1>7. \A x, y : Before(lanes, x, y) <=>
                  (Score(lanes, x) > Score(lanes, y)
                   \/ (Score(lanes, x) = Score(lanes, y) /\ PlaceIn(flat, x) < PlaceIn(flat, y)))
  BY DEF Before, flat
<1> HIDE DEF ids, n
<1>8. \A x \in ids : ~Before(lanes, x, x)
  BY <1>5, <1>6, <1>7
<1>9. ASSUME NEW x \in ids, NEW y \in ids, NEW z \in ids, Before(lanes, x, y), Before(lanes, y, z)
      PROVE  Before(lanes, x, z)
  <2>1. Score(lanes, x) \in Nat /\ Score(lanes, y) \in Nat /\ Score(lanes, z) \in Nat
    BY <1>5
  <2>2. PlaceIn(flat, x) \in Nat /\ PlaceIn(flat, y) \in Nat /\ PlaceIn(flat, z) \in Nat
    BY <1>6
  <2> QED
    BY <1>7, <1>9, <2>1, <2>2
<1>10. ASSUME NEW x \in ids, NEW y \in ids, x # y
       PROVE  Before(lanes, x, y) \/ Before(lanes, y, x)
  <2>1. Score(lanes, x) \in Nat /\ Score(lanes, y) \in Nat
    BY <1>5
  <2>2. PlaceIn(flat, x) \in Nat /\ PlaceIn(flat, y) \in Nat /\ PlaceIn(flat, x) # PlaceIn(flat, y)
    BY <1>6, <1>10
  <2> QED
    BY <1>7, <2>1, <2>2
<1>11. below \in [ids -> SUBSET ids] /\ \A x, y \in ids : x \in below[y] <=> Before(lanes, x, y)
  OBVIOUS
<1>12. \A y \in ids : {x \in ids : Before(lanes, x, y)} = below[y]
  OBVIOUS
<1> HIDE DEF below
<1>13. /\ \A x, y \in ids : x \in below[y] => Cardinality(below[x]) < Cardinality(below[y])
       /\ \A i \in 1..n : \E x \in ids : Cardinality(below[x]) = i - 1
  <2>1. \A x \in ids : x \notin below[x]
    BY <1>8, <1>11
  <2>2. \A x, y \in ids : x \in below[y] => below[x] \subseteq below[y]
    <3> SUFFICES ASSUME NEW x \in ids, NEW y \in ids, x \in below[y], NEW z \in below[x] PROVE z \in below[y]
      OBVIOUS
    <3>1. z \in ids
      BY <1>11
    <3> QED
      BY <1>9, <1>11, <3>1
  <2>3. \A x, y \in ids : x # y => x \in below[y] \/ y \in below[x]
    BY <1>10, <1>11
  <2> QED
    BY <1>3, <1>11, <2>1, <2>2, <2>3, Ranks DEF n
<1>14. ASSUME NEW i \in 1..n PROVE fused[i] \in ids /\ Cardinality(below[fused[i]]) = i - 1
  <2>1. fused[i] = CHOOSE id \in ids : Cardinality({x \in ids : Before(lanes, x, id)}) = i - 1
    BY <1>2
  <2>2. \E id \in ids : Cardinality({x \in ids : Before(lanes, x, id)}) = i - 1
    BY <1>12, <1>13
  <2>3. fused[i] \in ids /\ Cardinality({x \in ids : Before(lanes, x, fused[i])}) = i - 1
    BY <2>1, <2>2
  <2> QED
    BY <1>12, <2>3
<1>15. fused \in Seq(X) /\ Len(fused) = n
  <2>1. \A i \in 1..n : fused[i] \in X
    BY <1>3, <1>14
  <2> DEFINE Chosen(i) == CHOOSE id \in ids : Cardinality({x \in ids : Before(lanes, x, id)}) = i - 1
  <2>2. fused = [i \in 1..n |-> Chosen(i)]
    BY <1>2
  <2> HIDE DEF Chosen
  <2>3. fused \in [1..n -> X]
    BY <2>1, <2>2
  <2> QED
    BY <1>4, <2>3
<1>16. ASSUME NEW i \in 1..n, NEW j \in 1..n, fused[i] = fused[j] PROVE i = j
  <2>1. i - 1 = j - 1
    BY <1>14, <1>16
  <2> QED
    BY <1>4, <2>1
<1>17. ASSUME NEW i \in 1..n, NEW j \in 1..n, Before(lanes, fused[i], fused[j]) PROVE i < j
  <2>1. Cardinality(below[fused[i]]) < Cardinality(below[fused[j]])
    BY <1>11, <1>13, <1>14, <1>17
  <2>2. i - 1 < j - 1
    BY <1>14, <2>1
  <2> QED
    BY <1>4, <2>2
<1> QED
  BY <1>15, <1>16, <1>17 DEF fused

\* The first n numbers are n.
LEMMA CountUpTo ==
  ASSUME NEW n \in Nat
  PROVE  IsFiniteSet(1..n) /\ Cardinality(1..n) = n
<1>1. 1 \in Int /\ n \in Int /\ (IF 1 > n THEN 0 ELSE n - 1 + 1) = n
  OBVIOUS
<1> QED
  BY <1>1, FS_Interval

\* What is taken is no longer, and holds no more rows of an article.
LEMMA TakesFewer ==
  ASSUME NEW X, NEW s \in Seq(X), NEW t \in Seq(X), Takes(t, s, Len(s))
  PROVE  /\ Len(t) <= Len(s)
         /\ \A db, article : /\ Kept(t, db, article) \in Nat
                             /\ Kept(t, db, article) <= Kept(s, db, article)
<1>1. PICK e \in [1..Len(t) -> 1..Len(s)] :
         /\ \A i, j \in 1..Len(t) : i < j => e[i] < e[j]
         /\ \A i \in 1..Len(t) : t[i] = s[e[i]]
  BY DEF Takes
<1> DEFINE m == Len(t)
           n == Len(s)
<1>2. m \in Nat /\ n \in Nat /\ DOMAIN t = 1..m /\ DOMAIN s = 1..n /\ e \in [1..m -> 1..n]
  OBVIOUS
<1>3. \A i, j \in 1..m : e[i] = e[j] => i = j
  <2> SUFFICES ASSUME NEW i \in 1..m, NEW j \in 1..m, e[i] = e[j], i # j PROVE FALSE
    OBVIOUS
  <2>1. i < j \/ j < i
    OBVIOUS
  <2>2. e[i] \in 1..n /\ e[j] \in 1..n
    OBVIOUS
  <2> QED
    BY <1>1, <2>1, <2>2
<1> HIDE DEF m, n
<1>4. IsFiniteSet(1..n) /\ Cardinality(1..n) = n /\ IsFiniteSet(1..m) /\ Cardinality(1..m) = m
  BY <1>2, CountUpTo
<1>5. m <= n
  <2>1. e \in Injection(1..m, 1..n)
    BY <1>2, <1>3 DEF Injection, IsInjective
  <2> QED
    BY <1>4, <2>1, FS_Injection
<1>6. ASSUME NEW db, NEW article
      PROVE  Kept(t, db, article) \in Nat /\ Kept(t, db, article) <= Kept(s, db, article)
  <2> DEFINE T == {i \in 1..m : ArticleOf(db, t[i]) = article}
             S == {i \in 1..n : ArticleOf(db, s[i]) = article}
             d == [i \in T |-> e[i]]
  <2>1. Kept(t, db, article) = Cardinality(T) /\ Kept(s, db, article) = Cardinality(S)
    BY <1>2 DEF Kept
  <2>2. T \subseteq 1..m /\ S \subseteq 1..n
    OBVIOUS
  <2>3. d \in Injection(T, S)
    <3>1. \A i \in T : i \in 1..m /\ e[i] \in S
      BY <1>1, <1>2 DEF m
    <3>2. d \in [T -> S] /\ \A i \in T : d[i] = e[i]
      BY <3>1
    <3> HIDE DEF d, T, S
    <3>3. \A i, j \in T : d[i] = d[j] => i = j
      BY <1>3, <3>1, <3>2
    <3> QED
      BY <3>2, <3>3 DEF Injection, IsInjective
  <2> HIDE DEF d, T, S
  <2>4. IsFiniteSet(S) /\ IsFiniteSet(T)
    BY <1>4, <2>2, FS_Subset
  <2>5. Cardinality(T) \in Nat /\ Cardinality(T) <= Cardinality(S)
    BY <2>3, <2>4, FS_Injection, FS_CardinalityType
  <2> QED
    BY <2>1, <2>5
<1> QED
  BY <1>5, <1>6 DEF m, n

\* One more row: one more of its article, none of another.
LEMMA KeptOneMore ==
  ASSUME NEW X, NEW t \in Seq(X), NEW x \in X, NEW db, NEW article
  PROVE  /\ Kept(t, db, article) \in Nat
         /\ Kept(Append(t, x), db, article) =
              Kept(t, db, article) + IF ArticleOf(db, x) = article THEN 1 ELSE 0
<1> DEFINE u == Append(t, x)
           m == Len(t)
           T == {i \in 1..m : ArticleOf(db, t[i]) = article}
           U == {i \in DOMAIN u : ArticleOf(db, u[i]) = article}
<1>1. m \in Nat /\ DOMAIN t = 1..m /\ DOMAIN u = 1..(m + 1) /\ u[m + 1] = x /\ \A i \in 1..m : u[i] = t[i]
  OBVIOUS
<1>2. Kept(t, db, article) = Cardinality(T) /\ Kept(u, db, article) = Cardinality(U)
  BY <1>1 DEF Kept
<1> HIDE DEF u, m
<1>3. IsFiniteSet(T) /\ m + 1 \notin T
  <2>1. IsFiniteSet(1..m) /\ T \subseteq 1..m
    BY <1>1, FS_Interval
  <2> QED
    BY <1>1, <2>1, FS_Subset
<1>4. \A i \in 1..(m + 1) : i \in 1..m \/ i = m + 1
  BY <1>1
<1>5. \A i \in 1..m : i \in 1..(m + 1)
  BY <1>1
<1>6. m + 1 \in 1..(m + 1)
  BY <1>1
<1>7. CASE ArticleOf(db, x) = article
  <2>1. U = T \cup {m + 1}
    BY <1>1, <1>4, <1>5, <1>6, <1>7
  <2> HIDE DEF T, U
  <2> QED
    BY <1>2, <1>3, <1>7, <2>1, FS_AddElement, FS_CardinalityType DEF u
<1>8. CASE ArticleOf(db, x) # article
  <2>1. U = T
    BY <1>1, <1>4, <1>5, <1>8
  <2> HIDE DEF T, U
  <2>2. Cardinality(T) \in Nat
    BY <1>3, FS_CardinalityType
  <2> QED
    BY <1>2, <1>8, <2>1, <2>2 DEF u
<1> QED
  BY <1>7, <1>8

\* The cap takes rows in their order, and few of each article.
LEMMA DiverseIs ==
  ASSUME NEW X, NEW s \in Seq(X), NEW db
  PROVE  /\ Diverse(s, db) \in Seq(X) /\ Takes(Diverse(s, db), s, Len(s))
         /\ \A article : Kept(Diverse(s, db), db, article) <= PerArticle
<1>0. PerArticle \in Nat
  BY RetrievalAssumption DEF RetrievalAssumption
<1> DEFINE N == Len(s)
           Full(i, t) == Kept(t, db, ArticleOf(db, s[i])) >= PerArticle
           Further(i, t) == IF Full(i, t) THEN t ELSE Append(t, s[i])
           out == CHOOSE f : f = [i \in 0..Len(s) |->
                    IF i = 0 THEN <<>>
                    ELSE IF Kept(f[i - 1], db, ArticleOf(db, s[i])) >= PerArticle
                           THEN f[i - 1] ELSE Append(f[i - 1], s[i])]
           Y == Seq(X)
           start == <<>>
           step == [i \in 1..N |-> [t \in Y |-> Further(i, t)]]
<1>1. N \in Nat /\ start \in Y
  OBVIOUS
<1>2. Diverse(s, db) = out[N]
  BY DEF Diverse
<1>3. ASSUME NEW i \in 1..N, NEW t \in Y PROVE Further(i, t) \in Y
  <2>1. s[i] \in X
    OBVIOUS
  <2> HIDE DEF Full
  <2> QED
    BY <2>1
<1> HIDE DEF Further, Y, N
<1>4. step \in StepsOf(N, Y) /\ \A i \in 1..N, t \in Y : step[i][t] = Further(i, t)
  BY <1>3 DEF StepsOf
<1> HIDE DEF step, start, out
<1>5. HasRun(Y, start, N, step)
  BY <1>1, <1>4, Steps
<1>6. PICK f \in [0..N -> Y] : f[0] = start /\ \A n \in 1..N : f[n] = step[n][f[n - 1]]
  BY <1>5 DEF HasRun, Computed
<1>7. f = [i \in 0..N |-> IF i = 0 THEN <<>> ELSE Further(i, f[i - 1])]
  <2>1. ASSUME NEW i \in 1..N PROVE f[i] = Further(i, f[i - 1])
    <3>1. f[i - 1] \in Y
      BY <1>1
    <3> QED
      BY <1>4, <1>6, <3>1
  <2>2. \A i \in 0..N : f[i] = IF i = 0 THEN <<>> ELSE Further(i, f[i - 1])
    BY <1>1, <1>6, <2>1 DEF start
  <2> QED
    BY <2>2
<1>8. out = [i \in 0..N |-> IF i = 0 THEN <<>> ELSE Further(i, out[i - 1])]
  BY <1>7 DEF Further, Full, N, out
<1>9. out[0] = <<>> /\ \A i \in 1..N : out[i] = Further(i, out[i - 1])
  BY <1>1, <1>8
<1> DEFINE Fine(k) == /\ out[k] \in Seq(X) /\ Takes(out[k], s, k)
                      /\ \A article : Kept(out[k], db, article) <= PerArticle
           Good == {k \in Nat : k <= N => Fine(k)}
<1>10. 0 \in Good
  <2>1. <<>> \in Seq(X) /\ Len(<<>>) = 0 /\ DOMAIN <<>> = {}
    OBVIOUS
  <2>2. Takes(<<>>, s, 0)
    BY TakesNone
  <2>3. ASSUME NEW article PROVE Kept(<<>>, db, article) <= PerArticle
    <3>1. {i \in DOMAIN <<>> : ArticleOf(db, <<>>[i]) = article} = {}
      BY <2>1
    <3>2. Kept(<<>>, db, article) = 0
      BY <3>1, FS_EmptySet DEF Kept
    <3> QED
      BY <1>0, <3>2
  <2> QED
    BY <1>9, <2>1, <2>2, <2>3
<1>11. ASSUME NEW k \in Nat, k \in Good PROVE k + 1 \in Good
  <2> SUFFICES ASSUME k + 1 <= N PROVE Fine(k + 1)
    OBVIOUS
  <2>1. Fine(k)
    BY <1>1, <1>11
  <2>2. k + 1 \in 1..N /\ (k + 1) - 1 = k
    BY <1>1
  <2>3. s[k + 1] \in X
    BY <2>2 DEF N
  <2>4. out[k + 1] = IF Full(k + 1, out[k]) THEN out[k] ELSE Append(out[k], s[k + 1])
    BY <1>9, <2>2 DEF Further
  <2>5. Takes(out[k], s, k + 1) /\ Takes(Append(out[k], s[k + 1]), s, k + 1)
    BY <2>1, <2>2, TakesOne DEF N
  <2>6. CASE Full(k + 1, out[k])
    BY <2>1, <2>4, <2>5, <2>6
  <2>7. CASE ~Full(k + 1, out[k])
    <3> DEFINE u == Append(out[k], s[k + 1])
    <3>1. out[k + 1] = u /\ u \in Seq(X)
      BY <2>1, <2>3, <2>4, <2>7
    <3>2. ASSUME NEW article PROVE Kept(u, db, article) <= PerArticle
      <4>1. /\ Kept(out[k], db, article) \in Nat
            /\ Kept(u, db, article) = Kept(out[k], db, article) + IF ArticleOf(db, s[k + 1]) = article THEN 1 ELSE 0
        BY <2>1, <2>3, KeptOneMore
      <4>2. Kept(out[k], db, article) <= PerArticle
        BY <2>1
      <4>3. ArticleOf(db, s[k + 1]) = article => ~(Kept(out[k], db, article) >= PerArticle)
        BY <2>7
      <4> HIDE DEF u
      <4> QED
        BY <1>0, <4>1, <4>2, <4>3
    <3> QED
      BY <2>5, <3>1, <3>2
  <2> QED
    BY <2>6, <2>7
<1> HIDE DEF Good
<1>12. N \in Good
  BY <1>1, <1>10, <1>11, AllNumbers
<1> QED
  BY <1>1, <1>2, <1>12 DEF Good, N

\* A ranking that may be sent: different rows, not too many, few of an article.
Fit(t, db, k) ==
  /\ \A i, j \in 1..Len(t) : t[i] = t[j] => i = j
  /\ Len(t) <= k
  /\ \A article : Kept(t, db, article) <= PerArticle

\* _hybrid_search: at most k different ids, few of an article.
LEMMA HybridIs ==
  ASSUME NEW X, NEW lanes \in Seq(LanesOf(X)), NEW db, NEW k \in Nat
  PROVE  Hybrid(lanes, db, k) \in Seq(X) /\ Fit(Hybrid(lanes, db, k), db, k)
<1>0. PerArticle \in Nat
  BY RetrievalAssumption DEF RetrievalAssumption
<1> DEFINE fused == Fuse(lanes)
           s == Diverse(fused, db)
           m == IF Len(s) < k THEN Len(s) ELSE k
           t == SubSeq(s, 1, m)
<1>1. fused \in Seq(X) /\ \A i, j \in 1..Len(fused) : fused[i] = fused[j] => i = j
  BY FuseIs
<1>2. Hybrid(lanes, db, k) = t
  BY DEF Hybrid
<1> HIDE DEF fused
<1>3. s \in Seq(X) /\ Takes(s, fused, Len(fused)) /\ \A article : Kept(s, db, article) <= PerArticle
  BY <1>1, DiverseIs
<1> HIDE DEF s
<1>4. \A i, j \in 1..Len(s) : s[i] = s[j] => i = j
  <2>1. Len(s) \in Nat /\ Len(fused) \in Nat
    BY <1>1, <1>3
  <2> QED
    BY <1>1, <1>3, <2>1, TakesInjective
<1>5. m \in Nat /\ m <= Len(s) /\ m <= k
  BY <1>3
<1> HIDE DEF m
<1>6. t \in Seq(X) /\ Len(t) = m /\ \A i \in 1..m : t[i] = s[i]
  <2>1. \A i \in 1..m : i \in 1..Len(s) /\ s[i] \in X
    BY <1>3, <1>5
  <2>2. t = [i \in 1..m |-> s[i]]
    BY <1>3, <1>5, <2>1
  <2> HIDE DEF t
  <2> QED
    BY <1>5, <2>1, <2>2
<1> HIDE DEF t
<1>7. Takes(t, s, Len(s))
  <2> DEFINE e == [i \in 1..m |-> i]
  <2>1. e \in [1..Len(t) -> 1..Len(s)]
    BY <1>3, <1>5, <1>6
  <2>2. \A i \in 1..Len(t) : e[i] = i
    BY <1>6
  <2> HIDE DEF e
  <2>3. \A i, j \in 1..Len(t) : i < j => e[i] < e[j]
    BY <2>2
  <2>4. \A i \in 1..Len(t) : t[i] = s[e[i]]
    BY <1>6, <2>2
  <2> QED
    BY <2>1, <2>3, <2>4 DEF Takes
<1>8. \A i, j \in 1..Len(t) : t[i] = t[j] => i = j
  <2>1. Len(s) \in Nat /\ Len(t) \in Nat
    BY <1>3, <1>5, <1>6
  <2> QED
    BY <1>4, <1>7, <2>1, TakesInjective
<1>9. ASSUME NEW article PROVE Kept(t, db, article) <= PerArticle
  <2>1. Kept(t, db, article) \in Nat /\ Kept(t, db, article) <= Kept(s, db, article)
    BY <1>3, <1>6, <1>7, TakesFewer
  <2>2. Kept(s, db, article) \in Nat /\ Kept(s, db, article) <= PerArticle
    <3>1. Kept(s, db, article) \in Nat
      BY <1>1, <1>3, TakesFewer
    <3> QED
      BY <1>3, <3>1
  <2> QED
    BY <1>0, <2>1, <2>2
<1> QED
  BY <1>2, <1>5, <1>6, <1>8, <1>9 DEF Fit

\* What the database holds of a ranking that may be sent may be sent.
LEMMA FetchIs ==
  ASSUME NEW X, NEW ids \in Seq(X), NEW db, NEW k \in Nat, Fit(ids, db, k)
  PROVE  /\ FetchChunks(db, ids) \in Seq(X \cap DOMAIN db)
         /\ Fit(FetchChunks(db, ids), db, k)
<1>0. PerArticle \in Nat
  BY RetrievalAssumption DEF RetrievalAssumption
<1> DEFINE t == FetchChunks(db, ids)
<1>1. t \in Seq(X \cap DOMAIN db) /\ Takes(t, ids, Len(ids))
  BY AmongIs DEF FetchChunks
<1> HIDE DEF t
<1>2. t \in Seq(X)
  BY <1>1
<1>3. Len(t) \in Nat /\ Len(ids) \in Nat
  BY <1>2
<1>4. Len(t) <= Len(ids)
  BY <1>1, <1>2, TakesFewer
<1>5. \A i, j \in 1..Len(t) : t[i] = t[j] => i = j
  BY <1>1, <1>3, TakesInjective DEF Fit
<1>6. ASSUME NEW article PROVE Kept(t, db, article) <= PerArticle
  <2>1. Kept(t, db, article) \in Nat /\ Kept(t, db, article) <= Kept(ids, db, article)
    BY <1>1, <1>2, TakesFewer
  <2>2. IsFiniteSet(1..Len(ids)) /\ DOMAIN ids = 1..Len(ids)
    BY <1>3, FS_Interval
  <2>3. Kept(ids, db, article) \in Nat
    <3> DEFINE S == {i \in 1..Len(ids) : ArticleOf(db, ids[i]) = article}
    <3>1. S \in SUBSET (1..Len(ids)) /\ Kept(ids, db, article) = Cardinality(S)
      BY <2>2 DEF Kept
    <3> HIDE DEF S
    <3> QED
      BY <2>2, <3>1, FS_Subset, FS_CardinalityType
  <2> QED
    BY <1>0, <2>1, <2>3 DEF Fit
<1> QED
  BY <1>1, <1>3, <1>4, <1>5, <1>6 DEF Fit, t
-----------------------------------------------------------------------------
(* Builds, copies and loads.                                               *)


Files == [build : Nat, n : Nat]

BuildRecords == [nr : Nat, at : BuildPlaces, pending : Nat, embedded : Nat]

\* A file that covers every chunk of its build, or is not there.
Whole(f) == f = NoFile \/ (f.build \in 1..build.nr /\ f.n = Len(Corpus[f.build]))

Shapes ==
  /\ build \in BuildRecords
  /\ build.nr \in 0..Len(Corpus)
  /\ ws \in [Names -> Files] /\ pi \in [Names -> Files]
  /\ sync \in Seq(Names)
  /\ handle \in [at : HandlePlaces, hnsw : Files, ids : Files]
  /\ ask = [at |-> ask.at, danger |-> ask.danger, db |-> ask.db, lanes |-> ask.lanes, results |-> ask.results]
  /\ ask.db \in Files

\* Everything but the database on the workstation.
Elsewhere == {ws["hnsw"], ws["ids"], pi["db"], pi["hnsw"], pi["ids"], handle.hnsw, handle.ids, ask.db}

\* The build's own books: rows are in hand or encoded, then all encoded.
Books ==
  /\ ws["db"].build = build.nr
  /\ build.at = "rows" =>
       ws["db"].n <= Len(Corpus[build.nr]) /\ build.embedded + build.pending = ws["db"].n
  /\ build.at \in {"hnsw", "ids"} => Whole(ws["db"]) /\ build.embedded = ws["db"].n
  /\ build.at # "done" => build.nr > 0
  /\ build.at = "done" => Whole(ws["db"])
  /\ sync # <<>> => build.at = "done"

IInv ==
  /\ Shapes
  /\ Books
  /\ \A f \in Elsewhere : Whole(f)
  /\ build.at = "rows" \/ ~Whole(ws["db"]) => \A f \in Elsewhere : f.build # build.nr
-----------------------------------------------------------------------------

USE DEF Names, NoFile, File, Files

\* The corpora are sequences of sequences.
LEMMA CorpusLengths == /\ Len(Corpus) \in Nat
                       /\ Builds = 1..Len(Corpus)
                       /\ \A b \in 1..Len(Corpus) : Len(Corpus[b]) \in Nat
  BY RolloutAssumption DEF RolloutAssumption, Builds

\* One file of a directory is written.
LEMMA FileWritten ==
  ASSUME NEW dir \in [Names -> Files], NEW name \in Names, NEW f \in Files
  PROVE  /\ [dir EXCEPT ![name] = f] \in [Names -> Files]
         /\ \A other \in Names : [dir EXCEPT ![name] = f][other] = IF other = name THEN f ELSE dir[other]
  OBVIOUS

LEMMA InitInv == Init => IInv
<1> SUFFICES ASSUME Init PROVE IInv
  OBVIOUS
<1> USE CorpusLengths DEF Init, RolloutInit, NoDir, NoHandle, NoAsk
<1>1. Shapes
  BY DEF Shapes, BuildRecords, BuildPlaces, HandlePlaces
<1>2. Books
  BY DEF Books, Whole
<1>3. \A f \in Elsewhere : f = NoFile
  BY DEF Elsewhere
<1>4. Whole(ws["db"]) /\ build.at # "rows"
  BY DEF Whole
<1> QED
  BY <1>1, <1>2, <1>3, <1>4 DEF IInv, Whole

\* What the steps below need of the shapes.
LEMMA BuildTyped ==
  ASSUME IInv
  PROVE  /\ build \in BuildRecords
         /\ build.nr \in Nat /\ build.nr <= Len(Corpus)
         /\ build.pending \in Nat /\ build.embedded \in Nat
  BY DEF IInv, Shapes, BuildRecords

\* A directory has a file, written or not, under each of the three names.
LEMMA DirsTyped ==
  ASSUME IInv
  PROVE  /\ ws \in [Names -> Files] /\ pi \in [Names -> Files]
         /\ \A name \in Names : ws[name] \in Files /\ pi[name] \in Files
  BY DEF IInv, Shapes

\* A step of the workstation that leaves every other file as it was.
LEMMA StartBuildStep ==
  ASSUME IInv, StartBuild, ask' = ask
  PROVE  IInv'
<1>1. build.nr \in Nat /\ build.nr + 1 \in 1..Len(Corpus)
  BY BuildTyped, CorpusLengths DEF StartBuild
<1>2. File(build.nr + 1, 0) \in Files
  BY <1>1
<1>3. /\ ws' \in [Names -> Files]
      /\ ws'["db"] = File(build.nr + 1, 0) /\ ws'["hnsw"] = ws["hnsw"] /\ ws'["ids"] = ws["ids"]
  <2> HIDE DEF Files, File
  <2> QED
    BY <1>2, DirsTyped, FileWritten DEF StartBuild
<1>4. build' = [nr |-> build.nr + 1, at |-> "rows", pending |-> 0, embedded |-> 0]
  BY DEF StartBuild
<1>5. pi' = pi /\ sync' = sync /\ handle' = handle /\ sync = <<>>
  BY DEF StartBuild
<1>6. Shapes'
  <2>1. build' \in BuildRecords /\ build'.nr \in 0..Len(Corpus)
    BY <1>1, <1>4, CorpusLengths DEF BuildRecords, BuildPlaces
  <2> QED
    BY <2>1, <1>3, <1>5 DEF IInv, Shapes
<1>7. Elsewhere' = Elsewhere
  BY <1>3, <1>5 DEF Elsewhere
<1>8. Books'
  BY <1>1, <1>3, <1>4, <1>5, CorpusLengths DEF Books
<1>9. ASSUME NEW f \in Elsewhere
      PROVE  f.build # build.nr + 1 /\ (f = NoFile \/ (f.build \in 1..(build.nr + 1) /\ f.n = Len(Corpus[f.build])))
  BY <1>1 DEF IInv, Whole
<1> QED
  BY <1>4, <1>6, <1>7, <1>8, <1>9 DEF IInv, Whole
LEMMA AddChunkStep ==
  ASSUME IInv, AddChunk, ask' = ask
  PROVE  IInv'
<1>1. ws["db"] \in Files /\ File(build.nr, ws["db"].n + 1) \in Files
  BY BuildTyped, DirsTyped
<1>2. /\ ws' \in [Names -> Files]
      /\ ws'["db"] = File(build.nr, ws["db"].n + 1) /\ ws'["hnsw"] = ws["hnsw"] /\ ws'["ids"] = ws["ids"]
  <2> HIDE DEF Files, File
  <2> QED
    BY <1>1, DirsTyped, FileWritten DEF AddChunk
<1>3. pi' = pi /\ sync' = sync /\ handle' = handle /\ build.at = "rows" /\ ws["db"].n < Len(Corpus[build.nr])
  BY DEF AddChunk
<1>4. /\ build' \in BuildRecords
      /\ build'.nr = build.nr /\ build'.at = "rows"
      /\ build'.embedded + build'.pending = build.embedded + build.pending + 1
  <2>1. CASE build.pending + 1 >= Batch
    <3>1. build' = [nr |-> build.nr, at |-> "rows", pending |-> 0, embedded |-> build.embedded + build.pending + 1]
      BY <2>1 DEF AddChunk, Stand
    <3>2. build.nr \in Nat /\ build.embedded \in Nat /\ build.pending \in Nat
      BY BuildTyped
    <3> QED
      BY <3>1, <3>2 DEF BuildRecords, BuildPlaces
  <2>2. CASE ~(build.pending + 1 >= Batch)
    <3>1. build' = [nr |-> build.nr, at |-> "rows", pending |-> build.pending + 1, embedded |-> build.embedded]
      BY <2>2 DEF AddChunk, Stand
    <3>2. build.nr \in Nat /\ build.embedded \in Nat /\ build.pending \in Nat
      BY BuildTyped
    <3>3. build'.nr = build.nr /\ build'.at = "rows"
          /\ build'.pending = build.pending + 1 /\ build'.embedded = build.embedded
      BY <3>1
    <3>4. build' \in BuildRecords
      BY <3>1, <3>2 DEF BuildRecords, BuildPlaces
    <3> QED
      BY <3>2, <3>3, <3>4
  <2> QED
    BY <2>1, <2>2
<1>5. Shapes'
  BY <1>2, <1>3, <1>4 DEF IInv, Shapes
<1>6. Elsewhere' = Elsewhere
  BY <1>2, <1>3 DEF Elsewhere
<1>7. Books'
  <2>1. /\ build.nr > 0
        /\ ws["db"].n <= Len(Corpus[build.nr]) /\ build.embedded + build.pending = ws["db"].n
        /\ sync = <<>>
    BY <1>3 DEF IInv, Books
  <2>2. Len(Corpus[build.nr]) \in Nat
    BY <2>1, BuildTyped, CorpusLengths
  <2>3. ws["db"].n \in Nat /\ ws'["db"].build = build.nr /\ ws'["db"].n = ws["db"].n + 1
    BY <1>1, <1>2
  <2> QED
    BY <1>3, <1>4, <2>1, <2>2, <2>3 DEF Books
<1> QED
  BY <1>3, <1>4, <1>5, <1>6, <1>7 DEF IInv, Whole

\* No text is left unencoded.
LEMMA FlushRestStep ==
  ASSUME IInv, FlushRest, ask' = ask
  PROVE  IInv'
<1>1. /\ build' = [nr |-> build.nr, at |-> "hnsw", pending |-> 0, embedded |-> build.embedded + build.pending]
      /\ ws' = ws /\ pi' = pi /\ sync' = sync /\ handle' = handle
      /\ build.at = "rows" /\ ws["db"].n = Len(Corpus[build.nr])
  BY DEF FlushRest, Stand
<1>2. /\ build' \in BuildRecords
      /\ build'.nr = build.nr /\ build'.at = "hnsw" /\ build'.embedded = build.embedded + build.pending
  BY <1>1, BuildTyped DEF BuildRecords, BuildPlaces
<1>3. Shapes'
  BY <1>1, <1>2 DEF IInv, Shapes
<1>4. Elsewhere' = Elsewhere
  BY <1>1 DEF Elsewhere
<1>5. Whole(ws["db"]) /\ ws["db"].n = build'.embedded
  <2>1. ws["db"].build = build.nr /\ build.nr > 0 /\ build.embedded + build.pending = ws["db"].n
    BY <1>1 DEF IInv, Books
  <2> QED
    BY <1>1, <1>2, <2>1, BuildTyped DEF Whole
<1>6. Books'
  BY <1>1, <1>2, <1>5 DEF IInv, Books, Whole
<1> QED
  BY <1>1, <1>2, <1>3, <1>4, <1>5, <1>6 DEF IInv, Whole

LEMMA SaveHnswStep ==
  ASSUME IInv, SaveHnsw, ask' = ask
  PROVE  IInv'
<1>1. File(build.nr, build.embedded) \in Files /\ Whole(File(build.nr, build.embedded)) /\ Whole(ws["db"])
  BY BuildTyped, CorpusLengths DEF SaveHnsw, IInv, Books, Whole
<1>2. /\ ws' \in [Names -> Files]
      /\ ws'["hnsw"] = File(build.nr, build.embedded) /\ ws'["db"] = ws["db"] /\ ws'["ids"] = ws["ids"]
  <2> HIDE DEF Files, File
  <2> QED
    BY <1>1, DirsTyped, FileWritten DEF SaveHnsw
<1>3. build' = [build EXCEPT !.at = "ids"] /\ pi' = pi /\ sync' = sync /\ handle' = handle
  BY DEF SaveHnsw
<1>4. build'.nr = build.nr /\ build'.embedded = build.embedded /\ build'.at = "ids"
  BY <1>3 DEF IInv, Shapes, BuildRecords
<1>5. Shapes'
  BY <1>2, <1>3, <1>4 DEF IInv, Shapes, BuildRecords, BuildPlaces
<1>6. Books'
  <2>1. build.at = "hnsw"
    BY DEF SaveHnsw
  <2> QED
    BY <1>1, <1>2, <1>3, <1>4, <2>1 DEF IInv, Books, Whole
<1>7. \A f \in Elsewhere' : f \in Elsewhere \/ f = File(build.nr, build.embedded)
  BY <1>2, <1>3 DEF Elsewhere
<1> QED
  BY <1>1, <1>2, <1>4, <1>5, <1>6, <1>7 DEF IInv, Whole

LEMMA SaveIdsStep ==
  ASSUME IInv, SaveIds, ask' = ask
  PROVE  IInv'
<1>1. File(build.nr, build.embedded) \in Files /\ Whole(File(build.nr, build.embedded)) /\ Whole(ws["db"])
  BY BuildTyped, CorpusLengths DEF SaveIds, IInv, Books, Whole
<1>2. /\ ws' \in [Names -> Files]
      /\ ws'["ids"] = File(build.nr, build.embedded) /\ ws'["db"] = ws["db"] /\ ws'["hnsw"] = ws["hnsw"]
  <2> HIDE DEF Files, File
  <2> QED
    BY <1>1, DirsTyped, FileWritten DEF SaveIds
<1>3. build' = [build EXCEPT !.at = "done"] /\ pi' = pi /\ sync' = sync /\ handle' = handle
  BY DEF SaveIds
<1>4. build'.nr = build.nr /\ build'.embedded = build.embedded /\ build'.at = "done"
  BY <1>3 DEF IInv, Shapes, BuildRecords
<1>5. Shapes'
  BY <1>2, <1>3, <1>4 DEF IInv, Shapes, BuildRecords, BuildPlaces
<1>6. Books'
  <2>1. build.at = "ids"
    BY DEF SaveIds
  <2> QED
    BY <1>1, <1>2, <1>3, <1>4, <2>1 DEF IInv, Books, Whole
<1>7. \A f \in Elsewhere' : f \in Elsewhere \/ f = File(build.nr, build.embedded)
  BY <1>2, <1>3 DEF Elsewhere
<1> QED
  BY <1>1, <1>2, <1>4, <1>5, <1>6, <1>7 DEF IInv, Whole

LEMMA EndBuildStep ==
  ASSUME IInv, SkipVectors \/ AbortBuild, ask' = ask
  PROVE  IInv'
<1>1. PICK place \in {"done", "failed"} :
        /\ build' = [build EXCEPT !.at = place]
        /\ place = "done" => build.at = "hnsw"
        /\ build.at \in {"rows", "hnsw", "ids"}
        /\ ws' = ws /\ pi' = pi /\ sync' = sync /\ handle' = handle
  BY DEF SkipVectors, AbortBuild
<1>2. /\ build' \in BuildRecords
      /\ build'.nr = build.nr /\ build'.at = place
  BY <1>1 DEF IInv, Shapes, BuildRecords, BuildPlaces
<1>3. Shapes'
  BY <1>1, <1>2 DEF IInv, Shapes
<1>4. Elsewhere' = Elsewhere
  BY <1>1 DEF Elsewhere
<1>5. Books'
  BY <1>1, <1>2 DEF IInv, Books, Whole
<1> QED
  BY <1>1, <1>2, <1>3, <1>4, <1>5 DEF IInv, Whole

\* What is copied is whole: the build is done.
LEMMA CopyingStep ==
  ASSUME IInv, Copying, ask' = ask
  PROVE  IInv'
<1>1. build' = build /\ ws' = ws /\ handle' = handle
  BY DEF Copying, StartSync, CopyFile, CutSync
<1>2. sync' \in Seq(Names) /\ (sync' # <<>> => build.at = "done")
  <2>1. sync \in Seq(Names) /\ (sync # <<>> => build.at = "done")
    BY DEF IInv, Shapes, Books
  <2>2. CASE StartSync
    BY <2>2 DEF StartSync, InOrder
  <2>3. CASE CopyFile
    <3> HIDE DEF Names
    <3> QED
      BY <2>1, <2>3 DEF CopyFile
  <2>4. CASE CutSync
    BY <2>4 DEF CutSync
  <2> QED
    BY <2>2, <2>3, <2>4 DEF Copying
<1>3. /\ pi' \in [Names -> Files]
      /\ \A name \in Names : pi'[name] = pi[name] \/ (build.at = "done" /\ pi'[name] = ws[name])
  <2>1. CASE CopyFile
    <3>1. sync \in Seq(Names) /\ sync # <<>> /\ build.at = "done"
      BY <2>1 DEF CopyFile, IInv, Shapes, Books
    <3> HIDE DEF Names, Files
    <3>2. Head(sync) \in Names
      BY <3>1
    <3> QED
      BY <2>1, <3>1, <3>2, DirsTyped, FileWritten DEF CopyFile
  <2>2. CASE StartSync \/ CutSync
    BY <2>2, DirsTyped DEF StartSync, CutSync
  <2> QED
    BY <2>1, <2>2 DEF Copying
<1>4. Shapes'
  BY <1>1, <1>2, <1>3 DEF IInv, Shapes
<1>5. Books'
  BY <1>1, <1>2 DEF IInv, Books, Whole
<1>6. \A f \in Elsewhere' : f \in Elsewhere \/ (f = ws["db"] /\ build.at = "done")
  BY <1>1, <1>3 DEF Elsewhere
<1> QED
  BY <1>1, <1>4, <1>5, <1>6 DEF IInv, Books, Whole

\* Loads, deaths and questions only read files of the hub, or drop them.
LEMMA HubStep ==
  ASSUME IInv, UNCHANGED <<build, ws, pi, sync>>,
         handle' \in [at : HandlePlaces, hnsw : Files, ids : Files],
         handle'.hnsw \in {handle.hnsw, pi["hnsw"], NoFile},
         handle'.ids \in {handle.ids, pi["ids"], NoFile},
         ask' = [at |-> ask'.at, danger |-> ask'.danger, db |-> ask'.db, lanes |-> ask'.lanes, results |-> ask'.results],
         ask'.db \in {ask.db, pi["db"], NoFile}
  PROVE  IInv'
<1>1. ask'.db \in Files
  <2>1. pi["db"] \in Files
    BY DirsTyped
  <2>2. ask.db \in Files
    BY DEF IInv, Shapes
  <2>3. NoFile \in Files
    OBVIOUS
  <2> HIDE DEF Files, NoFile
  <2> QED
    BY <2>1, <2>2, <2>3
<1>2. Shapes'
  BY <1>1 DEF IInv, Shapes
<1>3. Books'
  BY DEF IInv, Books, Whole
<1>4. \A f \in Elsewhere' : f \in Elsewhere \/ f = NoFile
  BY DEF Elsewhere
<1>5. build.at = "rows" \/ ~Whole(ws["db"]) => build.nr # 0
  BY DEF IInv, Books
<1> QED
  BY <1>2, <1>3, <1>4, <1>5 DEF IInv, Whole

\* A question's own steps open the hub's database or none.
LEMMA AskStep ==
  ASSUME IInv,
         \/ \E danger \in BOOLEAN : Ask(danger)
         \/ Refused \/ OpenDb \/ Embed \/ Search \/ TooFew \/ Body
         \/ FetchTimeout \/ ModelAnswers \/ ModelUnavailable \/ ModelDies
  PROVE  /\ UNCHANGED rolloutVars
         /\ ask' = [at |-> ask'.at, danger |-> ask'.danger, db |-> ask'.db, lanes |-> ask'.lanes, results |-> ask'.results]
         /\ ask'.db \in {ask.db, pi["db"], NoFile}
<1> USE DEF Answer, NoAnswer, Defer, Fail, Unavailable
<1>1. ask = [at |-> ask.at, danger |-> ask.danger, db |-> ask.db, lanes |-> ask.lanes, results |-> ask.results]
  BY DEF IInv, Shapes
<1>2. CASE \E danger \in BOOLEAN : Ask(danger)
  BY <1>2 DEF Ask, NoAsk
<1>3. CASE Refused \/ TooFew \/ FetchTimeout
  BY <1>1, <1>3 DEF Refused, TooFew, FetchTimeout
<1>4. CASE OpenDb
  BY <1>1, <1>4 DEF OpenDb
<1>5. CASE Embed \/ Search
  BY <1>1, <1>5 DEF Embed, Search
<1>6. CASE Body
  BY <1>1, <1>6 DEF Body
<1>7. CASE ModelAnswers \/ ModelUnavailable \/ ModelDies
  BY <1>1, <1>7 DEF ModelAnswers, ModelUnavailable, ModelDies
<1> QED
  BY <1>2, <1>3, <1>4, <1>5, <1>6, <1>7

\* No step of the composition breaks the first invariant.
LEMMA StepInv == IInv /\ [Next]_vars => IInv'
<1> SUFFICES ASSUME IInv, [Next]_vars PROVE IInv'
  OBVIOUS
<1>1. /\ handle \in [at : HandlePlaces, hnsw : Files, ids : Files]
      /\ ask = [at |-> ask.at, danger |-> ask.danger, db |-> ask.db, lanes |-> ask.lanes, results |-> ask.results]
  BY DEF IInv, Shapes
<1>2. CASE Workstation /\ UNCHANGED <<ask, reply>>
  BY <1>2, StartBuildStep, AddChunkStep, FlushRestStep, SaveHnswStep, SaveIdsStep, EndBuildStep DEF Workstation
<1>3. CASE Copying /\ UNCHANGED <<ask, reply>>
  BY <1>3, CopyingStep
<1>4. CASE StartService /\ UNCHANGED <<ask, reply>>
  BY <1>1, <1>4, HubStep DEF StartService
<1>5. CASE \/ \E danger \in BOOLEAN : Ask(danger)
           \/ Refused \/ OpenDb \/ Embed \/ Search \/ TooFew \/ Body
           \/ FetchTimeout \/ ModelAnswers \/ ModelUnavailable \/ ModelDies
  BY <1>1, <1>5, AskStep, HubStep DEF rolloutVars
<1>6. CASE Import
  <2>1. /\ handle' \in [at : HandlePlaces, hnsw : Files, ids : Files]
        /\ handle'.hnsw \in {handle.hnsw, pi["hnsw"], NoFile} /\ handle'.ids \in {handle.ids, pi["ids"], NoFile}
    <3>1. NoFile \in Files /\ pi["hnsw"] \in Files /\ pi["ids"] \in Files
      BY DirsTyped
    <3> HIDE DEF Files, NoFile
    <3> QED
      BY <1>1, <1>6, <3>1 DEF Import, ReadIds, ReadHnsw, HandlePlaces
  <2>2. UNCHANGED <<build, ws, pi, sync, ask>>
    BY <1>6 DEF Import, ReadIds, ReadHnsw
  <2> QED
    BY <1>1, <2>1, <2>2, HubStep
<1>7. CASE Die
  <2>1. handle' = NoHandle /\ UNCHANGED <<build, ws, pi, sync>>
    BY <1>7 DEF Die
  <2>2. ask' = ask \/ ask' = [ask EXCEPT !.at = "idle"]
    BY <1>7 DEF Die, Fail, Answer
  <2> QED
    BY <1>1, <2>1, <2>2, HubStep DEF NoHandle, HandlePlaces
<1>8. CASE UNCHANGED vars
  BY <1>1, <1>8, HubStep DEF vars
<1> QED
  BY <1>2, <1>3, <1>4, <1>5, <1>6, <1>7, <1>8 DEF Next

\* SameBuildSameChunks is a part of it.
LEMMA Agree == IInv => SameBuildSameChunks
<1> SUFFICES ASSUME IInv,
                    NEW f \in Elsewhere \cup {ws["db"]}, NEW g \in Elsewhere \cup {ws["db"]},
                    f.build = g.build
             PROVE  f.n = g.n
  <2> DEFINE files == {dir[name] : dir \in {ws, pi}, name \in Names} \cup {handle.hnsw, handle.ids, ask.db}
  <2>1. ASSUME NEW f \in files
        PROVE  f \in Elsewhere \cup {ws["db"]}
    <3>1. CASE \E dir \in {ws, pi}, name \in Names : f = dir[name]
      BY <3>1 DEF Elsewhere
    <3>2. CASE f \in {handle.hnsw, handle.ids, ask.db}
      BY <3>2 DEF Elsewhere
    <3> QED
      BY <3>1, <3>2
  <2> QED
    BY <2>1 DEF SameBuildSameChunks
<1>1. CASE f \in Elsewhere /\ g \in Elsewhere
  BY <1>1 DEF IInv, Whole
<1>2. CASE Whole(ws["db"])
  BY <1>2 DEF IInv, Whole
<1>3. CASE ~Whole(ws["db"])
  BY <1>1, <1>3 DEF IInv, Books
<1> QED
  BY <1>2, <1>3

\* Two files of one build, on the workstation, on the hub or in memory, cover
\* the same chunks (flush, save_index and vectors.ids of build_index.py, rsync,
\* index_handle.py), whatever is aborted, cut, skipped or restarted.
THEOREM ChunksAgree == Spec => []SameBuildSameChunks
<1>1. Spec => []IInv
  BY InitInv, StepInv, PTL DEF Spec
<1> QED
  BY <1>1, Agree, PTL
-----------------------------------------------------------------------------
(* The question.                                                           *)



Places == {"idle", "fetch", "embed", "vectors", "ranked", "model"}

\* The lane of FTS5 and the lane of the graph.
Lexical == {lane \in Seq(DOMAIN Rows(ask.db)) : Len(lane) <= Candidates}
Vector ==
  {lane \in Seq(Nat) :
     /\ Len(lane) <= Candidates
     /\ lane = <<>> \/ (handle.at = "loaded" /\ lane \in Seq(1..handle.ids.n))}

\* What a question has in hand at each place.
Question ==
  /\ ask.at \in Places /\ ask.danger \in BOOLEAN
  /\ ask.at \in {"embed", "vectors"} => \E lane \in Lexical : ask.lanes = <<lane>>
  /\ ask.at = "ranked" => \E lane \in Lexical, near \in Vector : ask.lanes = <<lane, near>>
  /\ ask.at = "model" =>
       /\ ~ask.danger
       /\ ask.results \in Seq(DOMAIN Rows(ask.db))
       /\ Fit(ask.results, Rows(ask.db), MaxPassages)

\* A service that has a question or an index runs.
Running == (Serving \/ handle.at # "unread") => up

\* There is no answer before the question has one.
Answered ==
  /\ reply.status \in {0, 200, 500} /\ reply.mode \in {"", "defer", "noanswer", "answer"}
  /\ ask.at # "idle" => reply = NoReply
  /\ AnswerGrounded
  /\ BannerInAnswers

\* The indexer has no more texts in hand than rows written.
Counts ==
  /\ build.pending < Batch
  /\ build.embedded + build.pending <= ws["db"].n
  /\ sync \in {InOrder, <<"hnsw", "ids">>, <<"ids">>, <<>>}

QInv == Question /\ Running /\ Answered /\ Counts

\* The bounds are numbers, and those that admit something are positive.
LEMMA Limits == /\ Candidates \in Nat /\ Candidates > 0 /\ Candidates <= MaxRank
                /\ MaxRank \in Nat /\ MaxPassages \in Nat /\ MaxPassages > 0 /\ Batch \in Nat /\ Batch > 0
<1>1. MaxRank \in Nat
  BY RetrievalAssumption DEF RetrievalAssumption
<1>2. Candidates \in 1..MaxRank /\ MaxPassages \in Nat \ {0}
  BY AssistantAssumption DEF AssistantAssumption
<1>3. Batch \in Nat \ {0}
  BY RolloutAssumption DEF RolloutAssumption
<1> QED
  BY <1>1, <1>2, <1>3

\* The rows of a whole file.
LEMMA RowsOf ==
  ASSUME IInv, NEW f \in Elsewhere
  PROVE  f \in Files /\ f.n \in Nat /\ Rows(f) \in Seq(Articles) /\ DOMAIN Rows(f) = 1..f.n
<1>1. f \in Files /\ f.n \in Nat
  <2>1. ws["hnsw"] \in Files /\ ws["ids"] \in Files /\ pi["db"] \in Files /\ pi["hnsw"] \in Files /\ pi["ids"] \in Files
    BY DirsTyped
  <2>2. handle.hnsw \in Files /\ handle.ids \in Files /\ ask.db \in Files
    BY DEF IInv, Shapes
  <2> HIDE DEF Files
  <2>3. f \in Files
    BY <2>1, <2>2 DEF Elsewhere
  <2> QED
    BY <2>3 DEF Files
<1>2. CASE f = NoFile
  BY <1>2 DEF Rows
<1>3. CASE f # NoFile
  <2>1. f.build \in 1..build.nr /\ f.n = Len(Corpus[f.build])
    BY <1>3 DEF IInv, Whole
  <2>2. f.build \in 1..Len(Corpus)
    BY <2>1, BuildTyped, CorpusLengths
  <2>3. Corpus[f.build] \in Seq(Articles)
    <3>1. Corpus \in Seq(Seq(Articles))
      BY RolloutAssumption DEF RolloutAssumption
    <3> QED
      BY <2>2, <3>1
  <2>4. Rows(f) = SubSeq(Corpus[f.build], 1, Len(Corpus[f.build]))
    BY <1>3, <2>1 DEF Rows
  <2> DEFINE c == Corpus[f.build]
  <2>5. c \in Seq(Articles)
    BY <2>3
  <2>6. Rows(f) = SubSeq(c, 1, Len(c)) /\ f.n = Len(c)
    BY <2>1, <2>4
  <2> HIDE DEF c
  <2>7. SubSeq(c, 1, Len(c)) = c
    BY <2>5
  <2> QED
    BY <1>1, <2>5, <2>6, <2>7
<1> QED
  BY <1>1, <1>2, <1>3

\* Two lanes for the fusion.
LEMMA LanesTyped ==
  ASSUME IInv, Question, ask.at = "ranked"
  PROVE  /\ ask.lanes \in Seq(LanesOf(Nat))
         /\ \A i \in 1..Len(ask.lanes) : Len(ask.lanes[i]) <= Candidates
<1>1. PICK lane \in Lexical, near \in Vector : ask.lanes = <<lane, near>>
  BY DEF Question
<1>2. DOMAIN Rows(ask.db) \subseteq Nat
  <2>1. ask.db \in Elsewhere
    BY DEF Elsewhere
  <2>2. DOMAIN Rows(ask.db) = 1..ask.db.n /\ ask.db.n \in Nat
    BY <2>1, RowsOf
  <2> QED
    BY <2>2
<1>3. lane \in Seq(Nat) /\ Len(lane) <= Candidates /\ near \in Seq(Nat) /\ Len(near) <= Candidates
  <2>1. lane \in Seq(DOMAIN Rows(ask.db))
    BY DEF Lexical
  <2>2. lane \in Seq(Nat)
    BY <1>2, <2>1
  <2> QED
    BY <2>2 DEF Lexical, Vector
<1>4. lane \in LanesOf(Nat) /\ near \in LanesOf(Nat)
  <2>1. Len(lane) \in Nat /\ Len(near) \in Nat
    BY <1>3
  <2>2. Len(lane) <= MaxRank /\ Len(near) <= MaxRank
    BY <1>3, <2>1, Limits
  <2> QED
    BY <1>3, <2>2 DEF LanesOf
<1> HIDE DEF LanesOf, Lexical, Vector
<1>5. ask.lanes \in Seq(LanesOf(Nat))
  BY <1>1, <1>4
<1>6. Len(ask.lanes) = 2 /\ ask.lanes[1] = lane /\ ask.lanes[2] = near
  BY <1>1
<1> QED
  BY <1>3, <1>5, <1>6

\* What each property asks of the invariant.
LEMMA CoverFollows == IInv /\ QInv => ArticleMapCoversOneBuild
<1> SUFFICES ASSUME IInv, QInv, handle.hnsw.build = ask.db.build, handle.ids.build = ask.db.build,
                    ask.at = "ranked"
             PROVE  ToSet(FlattenSeq(ask.lanes)) \subseteq DOMAIN Rows(ask.db)
  BY DEF ArticleMapCoversOneBuild, ArticleMapCovers
<1>1. ask.db \in Elsewhere /\ handle.ids \in Elsewhere
  BY DEF Elsewhere
<1>2. handle.ids.n = ask.db.n
  BY Agree DEF SameBuildSameChunks
<1> DEFINE R == 1..ask.db.n
<1>3. DOMAIN Rows(ask.db) = R
  BY <1>1, RowsOf
<1>4. PICK lane \in Lexical, near \in Vector : ask.lanes = <<lane, near>>
  BY DEF QInv, Question
<1> HIDE DEF R
<1>5. lane \in Seq(R)
  BY <1>3 DEF Lexical
<1>6. near \in Seq(R)
  BY <1>2 DEF Vector, R
<1>7. ask.lanes \in Seq(Seq(R))
  BY <1>4, <1>5, <1>6
<1> DEFINE flat == FlattenSeq(ask.lanes)
<1>8. flat \in Seq(R)
  BY <1>7, FlattenIs
<1> HIDE DEF flat
<1>9. ToSet(flat) \subseteq R
  BY <1>8 DEF ToSet
<1> QED
  BY <1>3, <1>9 DEF flat

\* PassagesFit is what the invariant says of the place "model".
LEMMA FitFollows == IInv /\ QInv => PassagesFit
<1> SUFFICES ASSUME IInv, QInv, ask.at = "model" PROVE PassagesFit
  BY DEF PassagesFit
<1> DEFINE rows == Rows(ask.db)
           t == ask.results
<1>1. t \in Seq(DOMAIN rows) /\ Fit(t, rows, MaxPassages)
  BY DEF QInv, Question
<1>2. DOMAIN t = 1..Len(t) /\ \A i \in 1..Len(t) : t[i] \in DOMAIN rows
  BY <1>1
<1>3. IsInjective(t)
  BY <1>1, <1>2 DEF Fit, IsInjective
<1>4. ToSet(t) \subseteq DOMAIN rows
  BY <1>2 DEF ToSet
<1>5. Len(t) <= MaxPassages
  BY <1>1 DEF Fit
<1>6. ASSUME NEW article \in Articles
      PROVE  Cardinality({i \in DOMAIN t : rows[t[i]] = article}) <= PerArticle
  <2>1. \A i \in DOMAIN t : ArticleOf(rows, t[i]) = rows[t[i]]
    BY <1>2 DEF ArticleOf
  <2>2. {i \in DOMAIN t : ArticleOf(rows, t[i]) = article} = {i \in DOMAIN t : rows[t[i]] = article}
    BY <2>1
  <2>3. Kept(t, rows, article) <= PerArticle
    BY <1>1 DEF Fit
  <2> QED
    BY <2>2, <2>3 DEF Kept
<1> QED
  BY <1>3, <1>4, <1>5, <1>6 DEF PassagesFit

\* FusionRespectsLanes: two lanes of at most Candidates ids are fused.
LEMMA FusionFollows == IInv /\ QInv => FusionRespectsLanes
<1> SUFFICES ASSUME IInv, QInv, ask.at = "ranked" PROVE FusionRespectsLanes
  BY DEF FusionRespectsLanes
<1> DEFINE lanes == ask.lanes
           fused == Fuse(lanes)
<1>1. lanes \in Seq(LanesOf(Nat)) /\ \A i \in 1..Len(lanes) : Len(lanes[i]) <= Candidates
  BY LanesTyped DEF QInv
<1>2. fused \in Seq(Nat) /\ \A i, j \in 1..Len(fused) : Before(lanes, fused[i], fused[j]) => i < j
  BY <1>1, FuseIs
<1> SUFFICES ASSUME NEW i \in DOMAIN fused, NEW j \in DOMAIN fused,
                    \A lane \in ToSet(lanes) : RankIn(lane, fused[i]) <= RankIn(lane, fused[j]),
                    \E lane \in ToSet(lanes) : RankIn(lane, fused[i]) < RankIn(lane, fused[j])
             PROVE  i < j
  BY DEF FusionRespectsLanes
<1> DEFINE x == fused[i]
           y == fused[j]
<1>3. i \in 1..Len(fused) /\ j \in 1..Len(fused)
  BY <1>2
<1> HIDE DEF lanes, fused
<1>4. ToSet(lanes) = {lanes[n] : n \in 1..Len(lanes)}
  BY <1>1 DEF ToSet
<1>5. ASSUME NEW n \in 1..Len(lanes), RankIn(lanes[n], x) <= RankIn(lanes[n], y)
      PROVE  /\ LaneScore(lanes[n], x) >= LaneScore(lanes[n], y)
             /\ RankIn(lanes[n], x) < RankIn(lanes[n], y) => LaneScore(lanes[n], x) > LaneScore(lanes[n], y)
  <2> DEFINE lane == lanes[n]
  <2>1. lane \in Seq(Nat) /\ Len(lane) <= MaxRank /\ Len(lane) <= Candidates /\ Len(lane) \in Nat
    <3>1. lane \in LanesOf(Nat)
      BY <1>1
    <3> QED
      BY <1>1, <3>1 DEF LanesOf
  <2> HIDE DEF lane, x, y
  <2>2. \A id : Contains(lane, id) => PlaceIn(lane, id) \in Nat /\ PlaceIn(lane, id) <= Candidates
    <3>1. \A id : Contains(lane, id) => PlaceIn(lane, id) \in 1..Len(lane)
      BY <2>1, PlaceIs
    <3> QED
      BY <2>1, <3>1, Limits
  <2>3. \A id : /\ LaneScore(lane, id) \in Nat
                /\ Contains(lane, id) => LaneScore(lane, id) > 0
                /\ ~Contains(lane, id) => LaneScore(lane, id) = 0
    BY <2>1, LaneScoreIs
  <2>4. RankIn(lane, x) <= RankIn(lane, y)
    BY <1>5 DEF lane
  <2>5. \A id : /\ Contains(lane, id) => RankIn(lane, id) = PlaceIn(lane, id)
                /\ ~Contains(lane, id) => RankIn(lane, id) = Candidates + 1
    BY DEF RankIn
  <2>6. CASE Contains(lane, x) /\ Contains(lane, y)
    <3>1. PlaceIn(lane, x) <= PlaceIn(lane, y) /\ PlaceIn(lane, x) \in Nat /\ PlaceIn(lane, y) \in Nat
      BY <2>2, <2>4, <2>5, <2>6
    <3>2. PlaceIn(lane, x) < PlaceIn(lane, y) => LaneScore(lane, x) > LaneScore(lane, y)
      BY <2>1, <2>6, LaneScoreIs
    <3>3. PlaceIn(lane, x) = PlaceIn(lane, y) => LaneScore(lane, x) = LaneScore(lane, y)
      BY <2>1, <2>6, LaneScoreIs
    <3>4. LaneScore(lane, x) \in Nat /\ LaneScore(lane, y) \in Nat
      BY <2>3
    <3>5. RankIn(lane, x) = PlaceIn(lane, x) /\ RankIn(lane, y) = PlaceIn(lane, y)
      BY <2>5, <2>6
    <3> QED
      BY <3>1, <3>2, <3>3, <3>4, <3>5 DEF lane
  <2>7. CASE Contains(lane, x) /\ ~Contains(lane, y)
    <3>1. LaneScore(lane, x) > LaneScore(lane, y) /\ LaneScore(lane, x) \in Nat /\ LaneScore(lane, y) \in Nat
      BY <2>3, <2>7
    <3> QED
      BY <3>1 DEF lane
  <2>8. CASE ~Contains(lane, x) /\ Contains(lane, y)
    <3>1. Candidates + 1 <= PlaceIn(lane, y) /\ PlaceIn(lane, y) <= Candidates /\ PlaceIn(lane, y) \in Nat
      BY <2>2, <2>4, <2>5, <2>8
    <3> QED
      BY <3>1, Limits
  <2>9. CASE ~Contains(lane, x) /\ ~Contains(lane, y)
    <3>1. LaneScore(lane, x) = 0 /\ LaneScore(lane, y) = 0
      BY <2>3, <2>9
    <3>2. RankIn(lane, x) = Candidates + 1 /\ RankIn(lane, y) = Candidates + 1
      BY <2>5, <2>9
    <3> QED
      BY <3>1, <3>2, Limits DEF lane
  <2> QED
    BY <2>6, <2>7, <2>8, <2>9
<1>6. \A n \in 1..Len(lanes) : lanes[n] \in ToSet(lanes)
  BY <1>4
<1>7. \A n \in 1..Len(lanes) : LaneScore(lanes[n], x) >= LaneScore(lanes[n], y)
  BY <1>5, <1>6
<1>8. \E n \in 1..Len(lanes) : LaneScore(lanes[n], x) > LaneScore(lanes[n], y)
  BY <1>4, <1>5, <1>6
<1> HIDE DEF x, y
<1>9. Score(lanes, x) > Score(lanes, y)
  BY <1>1, <1>7, <1>8, ScoreIs
<1>10. Before(lanes, x, y)
  BY <1>9 DEF Before
<1> QED
  BY <1>2, <1>3, <1>10 DEF x, y

\* A question that has just begun has nothing in hand and no answer.
LEMMA Blank ==
  /\ NoFile.n = 0
  /\ NoReply.status \in {0, 200, 500} /\ NoReply.status # 200
  /\ NoReply.mode \in {"", "defer", "noanswer", "answer"} /\ NoReply.mode # "answer"
  BY DEF NoReply, Reply

LEMMA InitQuestion == Init => QInv
<1> SUFFICES ASSUME Init PROVE QInv
  OBVIOUS
<1> USE DEF Init, RolloutInit, NoAsk, NoHandle, NoReply, Reply
<1>1. Question
  BY DEF Question, Places
<1>2. Running
  BY DEF Running, Serving
<1>3. Answered
  BY DEF Answered, AnswerGrounded, BannerInAnswers
<1>4. Counts
  <2>1. build.pending = 0 /\ build.embedded = 0 /\ sync = <<>>
    OBVIOUS
  <2>2. ws["db"] = NoFile
    BY DEF NoDir
  <2> HIDE DEF Init, RolloutInit, NoFile
  <2>3. build.embedded + build.pending = 0
    BY <2>1
  <2>4. build.embedded + build.pending <= ws["db"].n
    BY <2>2, <2>3, Blank
  <2> QED
    BY <2>1, <2>4, Limits DEF Counts
<1> QED
  BY <1>1, <1>2, <1>3, <1>4 DEF QInv

\* The workstation and rsync count right.
LEMMA CountsStep ==
  ASSUME IInv, Counts, Workstation \/ Copying
  PROVE  Counts'
<1>0. /\ build.nr \in Nat /\ build.pending \in Nat /\ build.embedded \in Nat
      /\ ws["db"] \in Files /\ ws["db"].n \in Nat /\ Batch \in Nat /\ Batch > 0
  <2>1. ws["db"] \in Files
    BY DirsTyped
  <2>2. build.nr \in Nat /\ build.pending \in Nat /\ build.embedded \in Nat
    BY BuildTyped
  <2>3. ws["db"].n \in Nat
    BY <2>1
  <2> HIDE DEF Files
  <2> QED
    BY <2>1, <2>2, <2>3, Limits
<1>1. build = [nr |-> build.nr, at |-> build.at, pending |-> build.pending, embedded |-> build.embedded]
  BY BuildTyped DEF BuildRecords
<1>2. CASE StartBuild
  <2>1. build'.pending = 0 /\ build'.embedded = 0 /\ sync' = sync
    BY <1>2 DEF StartBuild
  <2>2. ws'["db"] = File(build.nr + 1, 0)
    BY <1>2, DirsTyped DEF StartBuild
  <2>3. ws'["db"].n = 0
    BY <2>2
  <2> QED
    BY <1>0, <2>1, <2>3 DEF Counts
<1>3. CASE AddChunk
  <2>1. ws'["db"] = File(build.nr, ws["db"].n + 1) /\ sync' = sync
    BY <1>3, DirsTyped DEF AddChunk
  <2>2. ws'["db"].n = ws["db"].n + 1
    BY <2>1
  <2>3. CASE build.pending + 1 >= Batch
    <3>1. build'.pending = 0 /\ build'.embedded = build.embedded + build.pending + 1
      BY <1>3, <2>3 DEF AddChunk, Stand
    <3> QED
      BY <1>0, <2>1, <2>2, <3>1 DEF Counts
  <2>4. CASE ~(build.pending + 1 >= Batch)
    <3>1. build'.pending = build.pending + 1 /\ build'.embedded = build.embedded
      BY <1>3, <2>4 DEF AddChunk, Stand
    <3> QED
      BY <1>0, <2>1, <2>2, <2>4, <3>1 DEF Counts
  <2> QED
    BY <2>3, <2>4
<1>4. CASE FlushRest
  <2>1. build'.pending = 0 /\ build'.embedded = build.embedded + build.pending /\ ws' = ws /\ sync' = sync
    BY <1>4 DEF FlushRest, Stand
  <2> QED
    BY <1>0, <2>1 DEF Counts
<1>5. CASE SaveHnsw \/ SaveIds \/ SkipVectors \/ AbortBuild
  <2>1. PICK place : build' = [build EXCEPT !.at = place]
    BY <1>5 DEF SaveHnsw, SaveIds, SkipVectors, AbortBuild
  <2>2. build'.pending = build.pending /\ build'.embedded = build.embedded
    BY <1>1, <2>1
  <2>3. ws'["db"] = ws["db"] /\ sync' = sync
    BY <1>5, DirsTyped DEF SaveHnsw, SaveIds, SkipVectors, AbortBuild
  <2> QED
    BY <2>2, <2>3 DEF Counts
<1>6. CASE Copying
  <2>1. build' = build /\ ws' = ws
    BY <1>6 DEF Copying, StartSync, CopyFile, CutSync
  <2>2. sync' \in {InOrder, <<"hnsw", "ids">>, <<"ids">>, <<>>}
    <3>1. CASE StartSync \/ CutSync
      BY <3>1 DEF StartSync, CutSync
    <3>2. CASE CopyFile
      <4>1. sync # <<>> /\ sync' = Tail(sync) /\ sync \in {InOrder, <<"hnsw", "ids">>, <<"ids">>, <<>>}
        BY <3>2 DEF CopyFile, Counts
      <4>2. Tail(InOrder) = <<"hnsw", "ids">> /\ Tail(<<"hnsw", "ids">>) = <<"ids">> /\ Tail(<<"ids">>) = <<>>
        BY DEF InOrder
      <4> QED
        BY <4>1, <4>2
    <3> QED
      BY <1>6, <3>1, <3>2 DEF Copying
  <2> QED
    BY <2>1, <2>2 DEF Counts
<1> QED
  BY <1>2, <1>3, <1>4, <1>5, <1>6 DEF Workstation

\* While neither the question nor the answer changes, the answer stays good.
LEMMA AnsweredStays ==
  ASSUME Answered, ask' = ask, reply' = reply
  PROVE  Answered'
<1>1. AnswerGrounded'
  BY DEF Answered, AnswerGrounded
<1>2. BannerInAnswers'
  BY DEF Answered, BannerInAnswers
<1> QED
  BY <1>1, <1>2 DEF Answered

\* What does not touch the question, its answer or the index it uses.
LEMMA ElsewhereStep ==
  ASSUME IInv, QInv, ask' = ask, reply' = reply, Workstation \/ Copying \/ StartService
  PROVE  QInv'
<1>1. handle' = handle /\ (up' = up \/ up' = TRUE)
  BY DEF Workstation, StartBuild, AddChunk, FlushRest, SaveHnsw, SaveIds, SkipVectors, AbortBuild,
         Copying, StartSync, CopyFile, CutSync, StartService
<1>2. Question'
  BY <1>1 DEF QInv, Question, Lexical, Vector
<1>3. Running'
  BY <1>1 DEF QInv, Running, Serving
<1>4. Answered'
  BY AnsweredStays DEF QInv
<1>5. Counts'
  <2>1. CASE StartService
    BY <2>1 DEF StartService, QInv, Counts
  <2> QED
    BY <2>1, CountsStep DEF QInv
<1> QED
  BY <1>2, <1>3, <1>4, <1>5 DEF QInv

\* A question is a record of its five fields.
LEMMA AskShape ==
  ASSUME IInv
  PROVE  ask = [at |-> ask.at, danger |-> ask.danger, db |-> ask.db, lanes |-> ask.lanes, results |-> ask.results]
  BY DEF IInv, Shapes

\* The question gets its answer: the service runs on, or dies.
LEMMA AnswerStep ==
  ASSUME IInv, QInv, NEW r, Answer(r), UNCHANGED <<build, ws, pi, sync>>,
         UNCHANGED <<up, handle>> \/ (~up' /\ handle' = NoHandle),
         r.status \in {200, 500} /\ r.mode \in {"", "defer", "noanswer", "answer"},
         r.mode = "answer" =>
           /\ r.text # <<>>
           /\ \A s \in ToSet(r.text) : s \cap r.citations # {}
           /\ r.citations \subseteq DOMAIN ask.results,
         r.status = 200 /\ ask.danger =>
           r.banner /\ r.mode = "defer" /\ ToSet(r.text) \subseteq DOMAIN Rows(ask.db)
  PROVE  QInv'
<1>1. /\ reply' = r /\ ask'.at = "idle"
      /\ ask'.danger = ask.danger /\ ask'.db = ask.db /\ ask'.results = ask.results
  BY AskShape DEF Answer
<1>2. Question'
  BY <1>1 DEF QInv, Question, Places
<1>3. Running'
  <2>1. ~Serving'
    BY <1>1 DEF Serving
  <2>2. CASE UNCHANGED <<up, handle>>
    BY <2>1, <2>2 DEF QInv, Running
  <2>3. CASE handle' = NoHandle
    <3>1. handle'.at = "unread"
      BY <2>3 DEF NoHandle
    <3> QED
      BY <2>1, <3>1 DEF Running
  <2> QED
    BY <2>2, <2>3
<1>4. AnswerGrounded'
  BY <1>1 DEF AnswerGrounded
<1>5. BannerInAnswers'
  BY <1>1 DEF BannerInAnswers
<1>6. Answered'
  BY <1>1, <1>4, <1>5 DEF Answered
<1>7. Counts'
  BY DEF QInv, Counts
<1> QED
  BY <1>2, <1>3, <1>6, <1>7 DEF QInv

\* Retrieval refuses, fails or is slow.
LEMMA UnavailableStep ==
  ASSUME IInv, QInv, Unavailable, UNCHANGED rolloutVars
  PROVE  QInv'
<1>1. UNCHANGED <<build, ws, pi, sync>> /\ UNCHANGED <<up, handle>>
  BY DEF rolloutVars
<1>2. CASE ask.danger
  <2> DEFINE r == Reply(200, "defer", TRUE, <<>>, DOMAIN <<>>)
  <2>1. Answer(r)
    BY <1>2 DEF Unavailable, Defer
  <2>2. r.status = 200 /\ r.mode = "defer" /\ r.banner /\ r.text = <<>>
    BY DEF Reply
  <2>3. ToSet(<<>>) = {}
    BY DEF ToSet
  <2> HIDE DEF r
  <2> QED
    BY <1>1, <2>1, <2>2, <2>3, AnswerStep
<1>3. CASE ~ask.danger
  <2> DEFINE r == Reply(200, "noanswer", FALSE, <<>>, {})
  <2>1. Answer(r)
    BY <1>3 DEF Unavailable, NoAnswer
  <2>2. r.status = 200 /\ r.mode = "noanswer"
    BY DEF Reply
  <2> HIDE DEF r
  <2> QED
    BY <1>1, <1>3, <2>1, <2>2, AnswerStep
<1> QED
  BY <1>2, <1>3

\* A new question: its answer is still to come.
LEMMA BeginStep ==
  ASSUME IInv, QInv, NEW danger \in BOOLEAN, Ask(danger)
  PROVE  QInv'
<1>1. ask'.at = "fetch" /\ ask'.danger = danger /\ reply' = NoReply /\ UNCHANGED rolloutVars
  BY DEF Ask, NoAsk
<1>2. Question'
  BY <1>1 DEF Question, Places
<1>3. Running'
  BY <1>1 DEF rolloutVars, QInv, Running, Serving
<1>5. Answered'
  <2>1. reply' = NoReply
    BY <1>1
  <2>2. reply'.mode # "answer" /\ reply'.status # 200
    BY <2>1, Blank
  <2>3. AnswerGrounded'
    BY <2>2 DEF AnswerGrounded
  <2>4. BannerInAnswers'
    BY <2>2 DEF BannerInAnswers
  <2> QED
    BY <2>1, <2>3, <2>4, Blank DEF Answered
<1>6. Counts'
  BY <1>1 DEF rolloutVars, QInv, Counts
<1> QED
  BY <1>2, <1>3, <1>5, <1>6 DEF QInv

\* A question moves on; its answer is still to come.
LEMMA OnwardStep ==
  ASSUME IInv, QInv, ask.at # "idle", Question', reply' = reply, UNCHANGED rolloutVars,
         Serving' => up
  PROVE  QInv'
<1>1. reply = NoReply
  BY DEF QInv, Answered
<1>2. reply.mode # "answer" /\ reply.status # 200
  BY <1>1, Blank
<1>3. Answered'
  <2>1. AnswerGrounded'
    BY <1>2 DEF AnswerGrounded
  <2>2. BannerInAnswers'
    BY <1>2 DEF BannerInAnswers
  <2> QED
    BY <1>1, <2>1, <2>2, Blank DEF Answered
<1>4. Running'
  BY DEF QInv, Running, rolloutVars
<1>5. Counts'
  BY DEF rolloutVars, QInv, Counts
<1> QED
  BY <1>3, <1>4, <1>5 DEF QInv

\* A lane is a sequence of at most n elements of the set.
LEMMA LanesAre ==
  ASSUME NEW S, NEW n \in Nat, NEW lane \in Lanes(S, n)
  PROVE  lane \in Seq(S) /\ Len(lane) \in Nat /\ Len(lane) <= n
<1>1. PICK m \in 0..n : lane \in [1..m -> S]
  BY DEF Lanes, BoundedSeq, SeqOf
<1> QED
  BY <1>1

\* The lexical lane holds rows of the database that was opened.
LEMMA OpenDbStep ==
  ASSUME IInv, QInv, OpenDb
  PROVE  QInv'
<1>1. PICK bm25 \in Lanes(DOMAIN Rows(pi["db"]), Candidates) :
        ask' = [ask EXCEPT !.at = "embed", !.db = pi["db"], !.lanes = <<bm25>>]
  BY DEF OpenDb
<1>2. ask.at = "fetch" /\ up /\ UNCHANGED rolloutVars /\ reply' = reply
  BY DEF OpenDb
<1>3. ask'.at = "embed" /\ ask'.danger = ask.danger /\ ask'.db = pi["db"] /\ ask'.lanes = <<bm25>>
  BY <1>1, AskShape
<1>4. bm25 \in Seq(DOMAIN Rows(pi["db"])) /\ Len(bm25) <= Candidates
  BY Limits, LanesAre
<1>5. bm25 \in Lexical'
  BY <1>3, <1>4 DEF Lexical
<1>6. Question'
  BY <1>3, <1>5 DEF Question, Places, QInv
<1> QED
  BY <1>2, <1>6, OnwardStep

\* An embedding that fails leaves an empty vector lane.
LEMMA EmbedStep ==
  ASSUME IInv, QInv, Embed
  PROVE  QInv'
<1>1. ask.at = "embed" /\ UNCHANGED rolloutVars /\ reply' = reply
  BY DEF Embed
<1>2. PICK lane \in Lexical : ask.lanes = <<lane>>
  BY <1>1 DEF QInv, Question
<1>3. /\ ask'.danger = ask.danger /\ ask'.db = ask.db
      /\ \/ ask'.at = "vectors" /\ ask'.lanes = <<lane>>
         \/ ask'.at = "ranked" /\ ask'.lanes = <<lane, <<>>>>
  <2>1. CASE ask' = [ask EXCEPT !.at = "vectors"]
    BY <1>2, <2>1, AskShape
  <2>2. CASE ask' = [ask EXCEPT !.at = "ranked", !.lanes = Append(@, <<>>)]
    <3>1. /\ ask'.at = "ranked" /\ ask'.danger = ask.danger /\ ask'.db = ask.db
          /\ ask'.lanes = Append(ask.lanes, <<>>)
      BY <2>2, AskShape
    <3>2. ask'.lanes = <<lane, <<>>>>
      BY <1>2, <3>1, PairOf
    <3> QED
      BY <3>1, <3>2
  <2> QED
    BY <2>1, <2>2 DEF Embed
<1>4. lane \in Lexical'
  BY <1>3 DEF Lexical
<1>5. <<>> \in Vector'
  BY Limits DEF Vector
<1> HIDE DEF Lexical, Vector
<1>6. Question'
  BY <1>3, <1>4, <1>5 DEF Question, Places, QInv
<1>7. up
  BY <1>1 DEF QInv, Running, Serving
<1> QED
  BY <1>1, <1>6, <1>7, OnwardStep

\* The labels of the graph that the id map knows are numbers of its chunks.
LEMMA VectorIdsAre ==
  ASSUME NEW g \in Nat, NEW labels \in Seq(0..(g - 1)), NEW f \in Files
  PROVE  /\ VectorIds(labels, IdMap(f)) \in Seq(1..f.n)
         /\ Len(VectorIds(labels, IdMap(f))) <= Len(labels)
<1> DEFINE n == f.n
           map == IdMap(f)
           L == 0..(g - 1)
           T == 0..(Len(map) - 1)
           known == Among(labels, T)
           near == VectorIds(labels, map)
<1>1. n \in Nat /\ map = [i \in 1..n |-> i]
  BY DEF IdMap
<1>2. near = [i \in DOMAIN known |-> map[known[i] + 1]]
  BY DEF VectorIds
<1> HIDE DEF map, near, n
<1>3. Len(map) = n /\ \A i \in 1..n : map[i] = i
  BY <1>1
<1> HIDE DEF known, L
<1>4. known \in Seq(L \cap T) /\ Takes(known, labels, Len(labels))
  BY AmongIs DEF L, known
<1> DEFINE m == Len(known)
<1>5. m \in Nat /\ DOMAIN known = 1..m /\ \A i \in 1..m : known[i] \in T
  <2> HIDE DEF T
  <2> QED
    BY <1>4
<1>6. m <= Len(labels)
  <2>1. known \in Seq(L) /\ labels \in Seq(L)
    <3>1. L \cap T \subseteq L
      OBVIOUS
    <3> HIDE DEF T
    <3> QED
      BY <1>4, <3>1 DEF L
  <2> QED
    BY <1>4, <2>1, TakesFewer
<1> HIDE DEF m
<1>7. \A i \in 1..m : map[known[i] + 1] \in 1..n
  BY <1>1, <1>3, <1>5
<1>8. near \in [1..m -> 1..n]
  BY <1>2, <1>5, <1>7
<1>9. near \in Seq(1..n) /\ Len(near) = m
  BY <1>5, <1>8, SequenceOf
<1> QED
  BY <1>6, <1>9 DEF near, map, n

\* The vector lane holds ids of the id map, in the graph's range.
LEMMA SearchStep ==
  ASSUME IInv, QInv, Search
  PROVE  QInv'
<1>1. ask.at = "vectors" /\ handle.at = "loaded" /\ UNCHANGED rolloutVars /\ reply' = reply
  BY DEF Search
<1>2. PICK labels \in IF handle.hnsw = NoFile THEN {<<>>} ELSE Neighbours(handle.hnsw) :
        ask' = [ask EXCEPT !.at = "ranked", !.lanes = Append(@, VectorIds(labels, IdMap(handle.ids)))]
  BY DEF Search
<1> DEFINE near == VectorIds(labels, IdMap(handle.ids))
<1>3. PICK lane \in Lexical : ask.lanes = <<lane>>
  BY <1>1 DEF QInv, Question
<1>4. ask'.at = "ranked" /\ ask'.danger = ask.danger /\ ask'.db = ask.db /\ ask'.lanes = <<lane, near>>
  <2>1. /\ ask'.at = "ranked" /\ ask'.danger = ask.danger /\ ask'.db = ask.db
        /\ ask'.lanes = Append(ask.lanes, near)
    BY <1>2, AskShape
  <2> HIDE DEF near
  <2>2. ask'.lanes = <<lane, near>>
    BY <1>3, <2>1, PairOf
  <2> QED
    BY <2>1, <2>2
<1>5. handle.hnsw.n \in Nat /\ handle.ids \in Files /\ handle.ids.n \in Nat
  <2>1. handle.hnsw \in Elsewhere /\ handle.ids \in Elsewhere
    BY DEF Elsewhere
  <2> QED
    BY <2>1, RowsOf
<1> DEFINE g == handle.hnsw.n
<1>6. labels \in Seq(0..(g - 1)) /\ Len(labels) <= Candidates
  <2>1. CASE handle.hnsw = NoFile
    BY <1>2, <2>1, Limits
  <2>2. CASE handle.hnsw # NoFile
    <3>1. labels \in Lanes(0..(g - 1), Candidates)
      BY <1>2, <2>2 DEF Neighbours
    <3> QED
      BY <3>1, Limits, LanesAre
  <2> QED
    BY <2>1, <2>2
<1> HIDE DEF g
<1>7. near \in Seq(1..handle.ids.n) /\ Len(near) <= Len(labels)
  BY <1>5, <1>6, VectorIdsAre DEF g
<1> HIDE DEF near
<1>8. near \in Vector'
  <2>1. Len(near) \in Nat /\ Len(labels) \in Nat
    BY <1>6, <1>7
  <2>2. Len(near) <= Candidates
    BY <1>6, <1>7, <2>1, Limits
  <2>3. near \in Seq(Nat)
    BY <1>5, <1>7
  <2>4. handle' = handle
    BY <1>1 DEF rolloutVars
  <2> QED
    BY <1>1, <1>7, <2>2, <2>3, <2>4 DEF Vector
<1>9. lane \in Lexical'
  BY <1>4 DEF Lexical
<1> HIDE DEF Lexical, Vector
<1>10. Question'
  BY <1>4, <1>8, <1>9 DEF Question, Places, QInv
<1>11. up
  BY <1>1 DEF QInv, Running, Serving
<1> QED
  BY <1>1, <1>10, <1>11, OnwardStep

\* A load changes the index under a question that has not searched yet.
LEMMA ImportStep ==
  ASSUME IInv, QInv, Import
  PROVE  QInv'
<1>1. ask' = ask /\ reply' = reply /\ UNCHANGED <<build, ws, pi, sync, up>>
  BY DEF Import, ReadIds, ReadHnsw
<1>2. \/ ask.at = "vectors"
      \/ handle.at = "ids"
  BY DEF Import, ReadHnsw
<1>3. Question'
  <2>1. Lexical' = Lexical
    BY <1>1 DEF Lexical
  <2>2. CASE ask.at = "ranked"
    <3>1. PICK lane \in Lexical, near \in Vector : ask.lanes = <<lane, near>>
      BY <2>2 DEF QInv, Question
    <3>2. near \in Seq(Nat) /\ Len(near) <= Candidates /\ near = <<>>
      BY <1>2, <2>2 DEF Vector
    <3>3. near \in Vector'
      BY <3>2 DEF Vector
    <3> HIDE DEF Lexical, Vector
    <3> QED
      BY <1>1, <2>1, <2>2, <3>1, <3>3 DEF QInv, Question
  <2>3. CASE ask.at # "ranked"
    <3> HIDE DEF Lexical, Vector
    <3> QED
      BY <1>1, <2>1, <2>3 DEF QInv, Question
  <2> QED
    BY <2>2, <2>3
<1>4. up
  BY <1>2 DEF QInv, Running, Serving
<1>5. Running'
  BY <1>1, <1>4 DEF Running
<1>6. Answered'
  BY <1>1, AnsweredStays DEF QInv
<1>7. Counts'
  BY <1>1 DEF QInv, Counts
<1> QED
  BY <1>3, <1>5, <1>6, <1>7 DEF QInv

\* What may be sent is found for a question whose lanes are ranked.
LEMMA Found ==
  ASSUME IInv, QInv, ask.at = "ranked"
  PROVE  /\ FetchChunks(Rows(ask.db), Ranked) \in Seq(DOMAIN Rows(ask.db))
         /\ ~ask.danger => Fit(FetchChunks(Rows(ask.db), Ranked), Rows(ask.db), MaxPassages)
<1> DEFINE db == Rows(ask.db)
           k == IF ask.danger THEN 1 ELSE MaxPassages
           found == FetchChunks(db, Ranked)
<1>1. ask.lanes \in Seq(LanesOf(Nat))
  BY LanesTyped DEF QInv
<1>2. k \in Nat
  BY Limits
<1>3. Ranked = Hybrid(ask.lanes, db, k)
  BY DEF Ranked
<1> HIDE DEF db, k
<1>4. Ranked \in Seq(Nat) /\ Fit(Ranked, db, k)
  BY <1>1, <1>2, <1>3, HybridIs
<1>5. found \in Seq(Nat \cap DOMAIN db) /\ Fit(found, db, k)
  BY <1>2, <1>4, FetchIs
<1> HIDE DEF found
<1>6. found \in Seq(DOMAIN db)
  BY <1>5
<1> QED
  BY <1>5, <1>6 DEF found, k, db

\* The response of /retrieve: a deferral, nothing, or passages for the model.
LEMMA BodyStep ==
  ASSUME IInv, QInv, Body
  PROVE  QInv'
<1> DEFINE found == FetchChunks(Rows(ask.db), Ranked)
<1>1. ask.at = "ranked" /\ UNCHANGED rolloutVars
  BY DEF Body
<1>2. UNCHANGED <<build, ws, pi, sync>> /\ UNCHANGED <<up, handle>>
  BY <1>1 DEF rolloutVars
<1>3. found \in Seq(DOMAIN Rows(ask.db)) /\ (~ask.danger => Fit(found, Rows(ask.db), MaxPassages))
  BY <1>1, Found
<1>4. \/ ask.danger /\ Defer(found)
      \/ ~ask.danger /\ NoAnswer
      \/ ~ask.danger /\ reply' = reply /\ ask' = [ask EXCEPT !.at = "model", !.lanes = <<>>, !.results = found]
  BY DEF Body
<1> HIDE DEF found
<1>5. CASE ask.danger /\ Defer(found)
  <2> DEFINE top == IF found = <<>> THEN <<>> ELSE <<Head(found)>>
             r == Reply(200, "defer", TRUE, top, DOMAIN top)
  <2>1. Answer(r)
    BY <1>5 DEF Defer
  <2>2. ToSet(top) \subseteq DOMAIN Rows(ask.db)
    <3>1. CASE found = <<>>
      BY <3>1 DEF ToSet
    <3>2. CASE found # <<>>
      <4>1. Head(found) \in DOMAIN Rows(ask.db)
        BY <1>3, <3>2
      <4>2. ToSet(<<Head(found)>>) = {Head(found)}
        BY DEF ToSet
      <4> QED
        BY <3>2, <4>1, <4>2
    <3> QED
      BY <3>1, <3>2
  <2> HIDE DEF top
  <2>3. r.status = 200 /\ r.mode = "defer" /\ r.banner /\ r.text = top
    BY DEF Reply
  <2> HIDE DEF r
  <2> QED
    BY <1>2, <2>1, <2>2, <2>3, AnswerStep
<1>6. CASE ~ask.danger /\ NoAnswer
  <2> DEFINE r == Reply(200, "noanswer", FALSE, <<>>, {})
  <2>1. Answer(r)
    BY <1>6 DEF NoAnswer
  <2>2. r.status = 200 /\ r.mode = "noanswer"
    BY DEF Reply
  <2> HIDE DEF r
  <2> QED
    BY <1>2, <1>6, <2>1, <2>2, AnswerStep
<1>7. CASE ~ask.danger /\ reply' = reply /\ ask' = [ask EXCEPT !.at = "model", !.lanes = <<>>, !.results = found]
  <2>1. ask'.at = "model" /\ ask'.danger = ask.danger /\ ask'.db = ask.db /\ ask'.results = found
    BY <1>7, AskShape
  <2>2. Question'
    BY <1>3, <1>7, <2>1 DEF Question, Places, QInv
  <2>3. ~Serving'
    BY <2>1 DEF Serving
  <2> QED
    BY <1>1, <1>7, <2>2, <2>3, OnwardStep
<1> QED
  BY <1>4, <1>5, <1>6, <1>7

\* A sentence that is kept cites what was sent.
LEMMA ModelStep ==
  ASSUME IInv, QInv, ModelAnswers
  PROVE  QInv'
<1>1. ask.at = "model" /\ ~ask.danger /\ UNCHANGED <<build, ws, pi, sync>> /\ UNCHANGED <<up, handle>>
  BY DEF ModelAnswers, QInv, Question, rolloutVars
<1> DEFINE valid == DOMAIN ask.results
           kept(raw) == Grounded(raw, valid)
<1>2. PICK raw \in BoundedSeq(Sentences, MaxSentences) :
        IF Rejected(raw, kept(raw)) THEN NoAnswer
          ELSE Answer(Reply(200, "answer", FALSE, kept(raw), valid \cap UNION ToSet(kept(raw))))
  BY DEF ModelAnswers
<1>3. raw \in Seq(Sentences)
  BY DEF BoundedSeq, SeqOf
<1> DEFINE t == kept(raw)
<1>4. t \in Seq(Sentences \cap {s \in Sentences : s \cap valid # {}})
  BY <1>3, AmongIs DEF Grounded
<1> HIDE DEF kept, valid
<1>5. \A s \in ToSet(t) : s \cap valid # {}
  BY <1>4 DEF ToSet
<1>6. CASE Rejected(raw, t)
  <2> DEFINE r == Reply(200, "noanswer", FALSE, <<>>, {})
  <2>1. Answer(r)
    BY <1>2, <1>6 DEF NoAnswer
  <2>2. r.status = 200 /\ r.mode = "noanswer"
    BY DEF Reply
  <2> HIDE DEF r
  <2> QED
    BY <1>1, <2>1, <2>2, AnswerStep
<1>7. CASE ~Rejected(raw, t)
  <2> DEFINE cited == valid \cap UNION ToSet(t)
             r == Reply(200, "answer", FALSE, t, cited)
  <2>1. Answer(r)
    BY <1>2, <1>7
  <2>2. r.status = 200 /\ r.mode = "answer" /\ r.text = t /\ r.citations = cited
    BY DEF Reply
  <2>3. t # <<>>
    BY <1>7 DEF Rejected
  <2>4. cited \subseteq valid /\ \A s \in ToSet(t) : s \cap cited # {}
    BY <1>5
  <2> HIDE DEF r, cited, t
  <2>5. r.mode = "answer" =>
          /\ r.text # <<>>
          /\ \A s \in ToSet(r.text) : s \cap r.citations # {}
          /\ r.citations \subseteq DOMAIN ask.results
    BY <2>2, <2>3, <2>4 DEF valid
  <2>6. r.status \in {200, 500} /\ r.mode \in {"", "defer", "noanswer", "answer"}
    BY <2>2
  <2> QED
    BY <1>1, <2>1, <2>5, <2>6, AnswerStep
<1> QED
  BY <1>6, <1>7

\* A service that dies over the question: a 500.
LEMMA FailStep ==
  ASSUME IInv, QInv, Fail, UNCHANGED <<build, ws, pi, sync>>,
         UNCHANGED <<up, handle>> \/ (~up' /\ handle' = NoHandle)
  PROVE  QInv'
<1> DEFINE r == Reply(500, "", FALSE, <<>>, {})
<1>1. Answer(r)
  BY DEF Fail
<1>2. r.status = 500 /\ r.mode = ""
  BY DEF Reply
<1>3. r.status # 200 /\ r.mode # "answer"
  BY DEF Reply
<1>4. r.status \in {200, 500} /\ r.mode \in {"", "defer", "noanswer", "answer"}
  BY <1>2
<1> HIDE DEF r
<1>5. r.mode = "answer" =>
        /\ r.text # <<>>
        /\ \A s \in ToSet(r.text) : s \cap r.citations # {}
        /\ r.citations \subseteq DOMAIN ask.results
  BY <1>3
<1>6. r.status = 200 /\ ask.danger =>
        r.banner /\ r.mode = "defer" /\ ToSet(r.text) \subseteq DOMAIN Rows(ask.db)
  BY <1>3
<1> QED
  BY <1>1, <1>4, <1>5, <1>6, AnswerStep

\* The service dies, over the question or beside it.
LEMMA DieStep ==
  ASSUME IInv, QInv, Die
  PROVE  QInv'
<1>1. ~up' /\ handle' = NoHandle /\ UNCHANGED <<build, ws, pi, sync>>
  BY DEF Die
<1>2. CASE Serving
  BY <1>1, <1>2, FailStep DEF Die
<1>3. CASE ~Serving
  <2>1. ask' = ask /\ reply' = reply
    BY <1>3 DEF Die
  <2>2. Question'
    <3>1. ask.at \notin {"embed", "vectors", "ranked"}
      BY <1>3 DEF Serving
    <3> HIDE DEF Lexical, Vector
    <3> QED
      BY <2>1, <3>1 DEF QInv, Question
  <2>3. Running'
    <3>1. handle'.at = "unread"
      BY <1>1 DEF NoHandle
    <3> QED
      BY <1>3, <2>1, <3>1 DEF Running, Serving
  <2>4. Answered'
    BY <2>1, AnsweredStays DEF QInv
  <2>5. Counts'
    BY <1>1 DEF QInv, Counts
  <2> QED
    BY <2>2, <2>3, <2>4, <2>5 DEF QInv
<1> QED
  BY <1>2, <1>3

LEMMA StutterStep ==
  ASSUME QInv, UNCHANGED vars
  PROVE  QInv'
<1>1. Question'
  BY DEF QInv, Question, Lexical, Vector, vars
<1>2. Running'
  BY DEF QInv, Running, Serving, vars
<1>3. Answered'
  BY AnsweredStays DEF QInv, vars
<1>4. Counts'
  BY DEF QInv, Counts, vars
<1> QED
  BY <1>1, <1>2, <1>3, <1>4 DEF QInv

\* No step of the composition breaks the second invariant.
LEMMA QuestionStep == IInv /\ QInv /\ [Next]_vars => QInv'
<1> SUFFICES ASSUME IInv, QInv, [Next]_vars PROVE QInv'
  OBVIOUS
<1>1. CASE (Workstation \/ Copying \/ StartService) /\ UNCHANGED <<ask, reply>>
  BY <1>1, ElsewhereStep
<1>2. CASE \E danger \in BOOLEAN : Ask(danger)
  BY <1>2, BeginStep
<1>3. CASE Refused \/ TooFew \/ FetchTimeout
  BY <1>3, UnavailableStep DEF Refused, TooFew, FetchTimeout
<1>4. CASE OpenDb \/ Embed \/ Import \/ Search \/ Body
  BY <1>4, OpenDbStep, EmbedStep, ImportStep, SearchStep, BodyStep
<1>5. CASE Die
  BY <1>5, DieStep
<1>6. CASE ModelAnswers
  BY <1>6, ModelStep
<1>7. CASE ModelUnavailable
  <2> DEFINE r == Reply(200, "noanswer", FALSE, <<>>, {})
  <2>1. Answer(r)
    BY <1>7 DEF ModelUnavailable, NoAnswer
  <2>2. r.status = 200 /\ r.mode = "noanswer"
    BY DEF Reply
  <2>3. ~ask.danger /\ UNCHANGED <<build, ws, pi, sync>> /\ UNCHANGED <<up, handle>>
    BY <1>7 DEF ModelUnavailable, QInv, Question, rolloutVars
  <2> HIDE DEF r
  <2> QED
    BY <2>1, <2>2, <2>3, AnswerStep
<1>8. CASE ModelDies
  BY <1>8, FailStep DEF ModelDies, rolloutVars
<1>9. CASE UNCHANGED vars
  BY <1>9, StutterStep
<1> QED
  BY <1>1, <1>2, <1>3, <1>4, <1>5, <1>6, <1>7, <1>8, <1>9 DEF Next

\* What rsync has still to copy is the end of its list.
LEMMA RestOfOrder ==
  ASSUME NEW s \in {InOrder, <<"hnsw", "ids">>, <<"ids">>, <<>>}
  PROVE  \E n \in 0..3 : s = SubSeq(InOrder, n + 1, 3)
<1> DEFINE two == <<"hnsw", "ids">>
           one == <<"ids">>
<1>1. /\ InOrder \in Seq(Names) /\ Len(InOrder) = 3
      /\ InOrder[1] = "db" /\ InOrder[2] = "hnsw" /\ InOrder[3] = "ids"
  BY DEF InOrder
<1>2. two \in Seq(Names) /\ Len(two) = 2 /\ two[1] = "hnsw" /\ two[2] = "ids"
  OBVIOUS
<1>3. one \in Seq(Names) /\ Len(one) = 1 /\ one[1] = "ids"
  OBVIOUS
<1>4. s \in {InOrder, two, one, <<>>}
  OBVIOUS
<1> HIDE DEF two, one, Names
<1>5. ASSUME NEW m \in 1..3
      PROVE  /\ SubSeq(InOrder, m, 3) \in Seq(Names) /\ Len(SubSeq(InOrder, m, 3)) = 3 - m + 1
             /\ \A i \in 1..(3 - m + 1) : SubSeq(InOrder, m, 3)[i] = InOrder[m + i - 1]
  <2>1. \A i \in m..3 : InOrder[i] \in Names
    BY <1>1, ElementOfSeq
  <2> QED
    BY <2>1, SubSeqProperties
<1>6. CASE s = InOrder
  <2>1. SubSeq(InOrder, 1, 3) = InOrder
    BY <1>1, <1>5, SeqEqual
  <2> QED
    BY <1>6, <2>1
<1>7. CASE s = two
  <2> DEFINE t == SubSeq(InOrder, 2, 3)
  <2>1. t \in Seq(Names) /\ Len(t) = 2 /\ \A i \in 1..2 : t[i] = InOrder[2 + i - 1]
    BY <1>5
  <2> HIDE DEF t
  <2>2. t[1] = two[1] /\ t[2] = two[2]
    BY <1>1, <1>2, <2>1
  <2>3. \A i \in 1..2 : i = 1 \/ i = 2
    OBVIOUS
  <2>4. t = two
    BY <1>2, <2>1, <2>2, <2>3, SeqEqual
  <2> QED
    BY <1>7, <2>4 DEF t
<1>8. CASE s = one
  <2> DEFINE t == SubSeq(InOrder, 3, 3)
  <2>1. t \in Seq(Names) /\ Len(t) = 1 /\ \A i \in 1..1 : t[i] = InOrder[3 + i - 1]
    BY <1>5
  <2> HIDE DEF t
  <2>2. t[1] = one[1]
    BY <1>1, <1>3, <2>1
  <2>3. t = one
    BY <1>3, <2>1, <2>2, SeqEqual
  <2> QED
    BY <1>8, <2>3 DEF t
<1>9. CASE s = <<>>
  <2>1. SubSeq(InOrder, 4, 3) = <<>>
    BY SubSeqEmpty
  <2> QED
    BY <1>9, <2>1
<1> QED
  BY <1>4, <1>6, <1>7, <1>8, <1>9

UpTyped == up \in BOOLEAN

\* The types are a part of the two invariants.
LEMMA TypesFollow == IInv /\ QInv /\ UpTyped => TypeOK
<1> SUFFICES ASSUME IInv, QInv, UpTyped PROVE TypeOK
  OBVIOUS
<1>1. /\ build.nr \in 0..Len(Corpus) /\ build.at \in BuildPlaces
      /\ build.nr \in Nat /\ build.pending \in Nat /\ build.embedded \in Nat
  BY BuildTyped DEF IInv, Shapes, BuildRecords
<1>2. ws["db"] \in Files /\ ws["db"].n \in Nat
  <2>1. ws["db"] \in Files
    BY DirsTyped
  <2>2. \A f \in Files : f.n \in Nat
    OBVIOUS
  <2> HIDE DEF Files
  <2> QED
    BY <2>1, <2>2
<1>3. build.pending \in 0..(Batch - 1) /\ build.embedded \in 0..ws["db"].n
  BY <1>1, <1>2, Limits DEF QInv, Counts
<1> DEFINE Small == [build : 0..Len(Corpus), n : Nat]
<1>4. ASSUME NEW f \in Files, f.build \in 0..Len(Corpus) PROVE f \in Small
  BY <1>4
<1>5. ASSUME NEW f \in Elsewhere PROVE f \in Small
  <2>1. f \in Files
    BY RowsOf
  <2>2. f = NoFile \/ f.build \in 1..build.nr
    BY DEF IInv, Whole
  <2>3. f.build \in 0..Len(Corpus)
    BY <1>1, <2>2, CorpusLengths
  <2> QED
    BY <1>4, <2>1, <2>3
<1>6. ws["db"] \in Small
  <2>1. ws["db"].build = build.nr
    BY DEF IInv, Books
  <2> QED
    BY <1>1, <1>2, <1>4, <2>1
<1> HIDE DEF Small
<1>7. ws \in [Names -> Small] /\ pi \in [Names -> Small]
  <2>1. \A name \in Names : ws[name] \in Small /\ pi[name] \in Small
    <3>1. ws["hnsw"] \in Elsewhere /\ ws["ids"] \in Elsewhere
          /\ pi["db"] \in Elsewhere /\ pi["hnsw"] \in Elsewhere /\ pi["ids"] \in Elsewhere
      BY DEF Elsewhere
    <3> HIDE DEF Elsewhere
    <3> QED
      BY <1>5, <1>6, <3>1
  <2>2. ws \in [Names -> Files] /\ pi \in [Names -> Files]
    BY DirsTyped
  <2> HIDE DEF Names, Files
  <2> QED
    BY <2>1, <2>2
<1>8. ws \in Dirs /\ pi \in Dirs
  BY <1>7 DEF Dirs, Small
<1>9. \E n \in 0..3 : sync = SubSeq(InOrder, n + 1, 3)
  BY RestOfOrder DEF QInv, Counts
<1>10. handle.at \in HandlePlaces
  BY DEF IInv, Shapes
<1>11. up \in BOOLEAN /\ (handle.at # "unread" => up)
  BY DEF QInv, Running, UpTyped
<1>12. ask.at \in {"idle", "fetch", "embed", "vectors", "ranked", "model"}
  BY DEF QInv, Question, Places
<1>13. reply.status \in {0, 200, 500} /\ reply.mode \in {"", "defer", "noanswer", "answer"}
  BY DEF QInv, Answered
<1> HIDE DEF Names, Files, NoFile, File
<1> QED
  BY <1>1, <1>3, <1>8, <1>9, <1>10, <1>11, <1>12, <1>13 DEF TypeOK

LEMMA UpIsBoolean == Spec => []UpTyped
<1>1. Init => UpTyped
  BY DEF UpTyped, Init, RolloutInit
<1>2. UpTyped /\ [Next]_vars => UpTyped'
  <2> SUFFICES ASSUME UpTyped, [Next]_vars PROVE up' = up \/ up' = TRUE \/ up' = FALSE
    BY DEF UpTyped
  <2>1. CASE (Workstation \/ Copying \/ StartService) /\ UNCHANGED <<ask, reply>>
    BY <2>1 DEF Workstation, StartBuild, AddChunk, FlushRest, SaveHnsw, SaveIds, SkipVectors, AbortBuild,
                Copying, StartSync, CopyFile, CutSync, StartService
  <2>2. CASE (\E danger \in BOOLEAN : Ask(danger)) \/ Refused \/ OpenDb \/ Embed \/ Search \/ TooFew
    BY <2>2 DEF Ask, Refused, OpenDb, Embed, Search, TooFew, rolloutVars
  <2>3. CASE Import \/ Body \/ FetchTimeout \/ Die
    BY <2>3 DEF Import, ReadIds, ReadHnsw, Body, FetchTimeout, Die, rolloutVars
  <2>4. CASE ModelAnswers \/ ModelUnavailable \/ ModelDies \/ UNCHANGED vars
    BY <2>4 DEF ModelAnswers, ModelUnavailable, ModelDies, rolloutVars, vars
  <2> QED
    BY <2>1, <2>2, <2>3, <2>4 DEF Next
<1> QED
  BY <1>1, <1>2, PTL DEF Spec

\* Both invariants hold throughout.
LEMMA QuestionSafe == Spec => [](IInv /\ QInv)
<1>1. Init => IInv /\ QInv
  BY InitInv, InitQuestion
<1>2. IInv /\ QInv /\ [Next]_vars => IInv' /\ QInv'
  BY StepInv, QuestionStep
<1> QED
  BY <1>1, <1>2, PTL DEF Spec

\* Every variable holds values of its kind: the encoder never has a full batch in
\* hand, rsync copies the files in their order, and a service that has read an
\* index runs.
THEOREM TypeCorrect == Spec => []TypeOK
  BY QuestionSafe, UpIsBoolean, TypesFollow, PTL

\* vector_search and the indexer: where the graph, the id map and the database
\* of a request are of one build, what is ranked are rows of that database,
\* whatever was copied or restarted while it was on its way.
THEOREM ArticleMapCovered == Spec => []ArticleMapCoversOneBuild
  BY QuestionSafe, CoverFollows, PTL

\* reciprocal_rank_fusion: what no lane ranks below another chunk, and some lane
\* above it, is not behind it in the fused order, for any constant, any number
\* of candidates and any lanes.
THEOREM FusionFair == Spec => []FusionRespectsLanes
  BY QuestionSafe, FusionFollows, PTL

\* diversity_filter and fetch_chunks: the model is sent different rows of the
\* database the request has open, no more than MAX_PASSAGES and no more than
\* per_article of any article, however stale the graph.
THEOREM PassagesFitAlways == Spec => []PassagesFit
  BY QuestionSafe, FitFollows, PTL

\* postprocess.process: an answer is made of sentences that cite passages that
\* were sent, and lists no other citation.
THEOREM AnswersGrounded == Spec => []AnswerGrounded
<1>1. QInv => AnswerGrounded
  BY DEF QInv, Answered
<1> QED
  BY <1>1, QuestionSafe, PTL

\* ask() and its _defer: an answer to a dangerous question has the
\* banner and not a word of the model, whether retrieval refuses, fails, is slow
\* or answers.
THEOREM BannerAnswered == Spec => []BannerInAnswers
<1>1. QInv => BannerInAnswers
  BY DEF QInv, Answered
<1> QED
  BY <1>1, QuestionSafe, PTL

-----------------------------------------------------------------------------
(* The chunks of an article.                                               *)

\* What has no words is a heading.
LinesOf(line) == IF line = Heading THEN 0 ELSE line
AnArticle == Seq(Nat \cup {Heading})

\* Words are counted line by line; a heading has none.
LEMMA WordsAre ==
  ASSUME NEW article \in AnArticle
  PROVE  /\ WordsUpTo(article) \in [0..Len(article) -> Nat]
         /\ WordsUpTo(article)[0] = 0
         /\ \A k \in 1..Len(article) :
              WordsUpTo(article)[k] = WordsUpTo(article)[k - 1] + LinesOf(article[k])
<1> DEFINE N == Len(article)
           Further(k, n) == n + LinesOf(article[k])
           sum == CHOOSE f : f = [k \in 0..N |-> IF k = 0 THEN 0 ELSE f[k - 1] + IF article[k] = Heading THEN 0 ELSE article[k]]
           step == [k \in 1..N |-> [n \in Nat |-> Further(k, n)]]
<1>0. N \in Nat /\ \A k \in 1..N : LinesOf(article[k]) \in Nat
  BY DEF AnArticle, LinesOf
<1>1. WordsUpTo(article) = sum
  BY DEF WordsUpTo
<1>2. sum = CHOOSE f : f = [k \in 0..N |-> IF k = 0 THEN 0 ELSE Further(k, f[k - 1])]
  BY DEF LinesOf
<1> HIDE DEF N, sum
<1>3. step \in StepsOf(N, Nat) /\ \A k \in 1..N, n \in Nat : step[k][n] = Further(k, n)
  BY <1>0 DEF StepsOf
<1> HIDE DEF step
<1>4. HasRun(Nat, 0, N, step)
  <2> DEFINE start == 0
  <2>1. start \in Nat
    OBVIOUS
  <2> HIDE DEF start
  <2>2. HasRun(Nat, start, N, step)
    BY <1>0, <1>3, <2>1, Steps
  <2> QED
    BY <2>2 DEF start
<1>5. PICK f \in [0..N -> Nat] : f[0] = 0 /\ \A k \in 1..N : f[k] = step[k][f[k - 1]]
  BY <1>4 DEF HasRun, Computed
<1>6. \A k \in 1..N : f[k] = Further(k, f[k - 1])
  <2> SUFFICES ASSUME NEW k \in 1..N PROVE f[k] = Further(k, f[k - 1])
    OBVIOUS
  <2>1. k - 1 \in 0..N
    BY <1>0
  <2>2. f[k - 1] \in Nat
    BY <2>1
  <2> HIDE DEF Further
  <2> QED
    BY <1>3, <1>5, <2>2
<1>7. f = [k \in 0..N |-> IF k = 0 THEN 0 ELSE Further(k, f[k - 1])]
  <2> HIDE DEF Further
  <2>1. ASSUME NEW k \in 0..N PROVE f[k] = IF k = 0 THEN 0 ELSE Further(k, f[k - 1])
    <3>1. CASE k = 0
      BY <1>5, <3>1
    <3>2. CASE k # 0
      <4>1. k \in 1..N
        BY <1>0, <3>2
      <4> QED
        BY <1>6, <3>2, <4>1
    <3> QED
      BY <3>1, <3>2
  <2> QED
    BY <2>1
<1>8. sum = [k \in 0..N |-> IF k = 0 THEN 0 ELSE Further(k, sum[k - 1])]
  <2> HIDE DEF Further
  <2> QED
    BY <1>2, <1>7
<1>9. sum[0] = 0 /\ \A k \in 1..N : sum[k] = Further(k, sum[k - 1])
  <2> HIDE DEF Further
  <2>1. 0 \in 0..N /\ \A k \in 1..N : k \in 0..N /\ k # 0
    BY <1>0
  <2> QED
    BY <1>8, <2>1
<1> DEFINE Good == {k \in Nat : k \in 0..N => sum[k] \in Nat}
<1>10. 0 \in Good
  BY <1>9
<1>11. ASSUME NEW k \in Nat, k \in Good PROVE k + 1 \in Good
  <2> SUFFICES ASSUME k + 1 \in 0..N PROVE sum[k + 1] \in Nat
    OBVIOUS
  <2>1. k + 1 \in 1..N /\ k \in 0..N /\ (k + 1) - 1 = k
    BY <1>0
  <2>2. sum[k] \in Nat
    BY <1>11, <2>1
  <2>3. sum[k + 1] = sum[k] + LinesOf(article[k + 1])
    BY <1>9, <2>1
  <2>4. LinesOf(article[k + 1]) \in Nat
    BY <1>0, <2>1
  <2> QED
    BY <2>2, <2>3, <2>4
<1>12. \A k \in 0..N : sum[k] \in Nat
  <2>1. Nat \subseteq Good
    <3> HIDE DEF Good
    <3> QED
      BY <1>10, <1>11, AllNumbers
  <2> QED
    BY <1>0, <2>1
<1>13. sum \in [0..N -> Nat]
  <2> DEFINE g == [k \in 0..N |-> IF k = 0 THEN 0 ELSE Further(k, sum[k - 1])]
  <2>1. DOMAIN g = 0..N /\ sum = g
    BY <1>8
  <2> HIDE DEF g
  <2> QED
    BY <1>12, <1>8
<1> QED
  BY <1>1, <1>9, <1>13 DEF N

\* How many headings there are, line by line.
LEMMA HeadingsAre ==
  ASSUME NEW article
  PROVE  /\ HeadingsUpTo(article, 0) = 0
         /\ \A k \in Nat : HeadingsUpTo(article, k) \in Nat
         /\ \A k \in Nat : HeadingsUpTo(article, k + 1) =
              HeadingsUpTo(article, k) + IF article[k + 1] = Heading THEN 1 ELSE 0
<1> DEFINE H(k) == {j \in 1..k : article[j] = Heading}
<1>1. \A k \in Nat : IsFiniteSet(H(k)) /\ Cardinality(H(k)) \in Nat
  <2> SUFFICES ASSUME NEW k \in Nat PROVE IsFiniteSet(H(k)) /\ Cardinality(H(k)) \in Nat
    OBVIOUS
  <2>1. IsFiniteSet(1..k) /\ H(k) \subseteq 1..k
    BY CountUpTo
  <2> HIDE DEF H
  <2> QED
    BY <2>1, FS_Subset, FS_CardinalityType
<1>2. H(0) = {}
  OBVIOUS
<1>3. ASSUME NEW k \in Nat PROVE
        Cardinality(H(k + 1)) = Cardinality(H(k)) + IF article[k + 1] = Heading THEN 1 ELSE 0
  <2>1. CASE article[k + 1] = Heading
    <3>1. H(k + 1) = H(k) \cup {k + 1} /\ k + 1 \notin H(k)
      BY <2>1
    <3> HIDE DEF H
    <3>2. Cardinality(H(k) \cup {k + 1}) = Cardinality(H(k)) + 1
      BY <1>1, <3>1, FS_AddElement
    <3> QED
      BY <2>1, <3>1, <3>2
  <2>2. CASE article[k + 1] # Heading
    <3>1. H(k + 1) = H(k)
      BY <2>2
    <3> HIDE DEF H
    <3>2. Cardinality(H(k)) \in Nat
      BY <1>1
    <3> QED
      BY <2>2, <3>1, <3>2
  <2> QED
    BY <2>1, <2>2
<1>4. \A k : HeadingsUpTo(article, k) = Cardinality(H(k))
  BY DEF HeadingsUpTo
<1> HIDE DEF H
<1>5. Cardinality(H(0)) = 0
  BY <1>2, FS_EmptySet
<1> QED
  BY <1>1, <1>3, <1>4, <1>5

Pieces == [title : Nat, from : Nat, to : Nat]
Hands == [out : Seq(Pieces), title : Nat, from : Nat, to : Nat]

\* A piece of an article, and its parts.
LEMMA PieceIs ==
  ASSUME NEW a \in Nat, NEW b \in Nat, NEW c \in Nat
  PROVE  /\ [title |-> a, from |-> b, to |-> c] \in Pieces
         /\ [title |-> a, from |-> b, to |-> c].title = a
         /\ [title |-> a, from |-> b, to |-> c].from = b
         /\ [title |-> a, from |-> b, to |-> c].to = c
  BY DEF Pieces

LEMMA PieceParts ==
  ASSUME NEW s \in Pieces PROVE s.title \in Nat /\ s.from \in Nat /\ s.to \in Nat
  BY DEF Pieces

LEMMA HandParts ==
  ASSUME NEW c \in Hands
  PROVE  c.out \in Seq(Pieces) /\ c.title \in Nat /\ c.from \in Nat /\ c.to \in Nat
  BY DEF Hands

\* One more at the end.
LEMMA OneMore ==
  ASSUME NEW S, NEW s \in Seq(S), NEW x \in S
  PROVE  /\ Append(s, x) \in Seq(S) /\ Len(Append(s, x)) = Len(s) + 1 /\ Len(s) \in Nat
         /\ \A i \in 1..Len(s) : Append(s, x)[i] = s[i]
         /\ Append(s, x)[Len(s) + 1] = x
  OBVIOUS

\* Closing what is in hand, and reading a line.
LEMMA ClosedHands ==
  ASSUME NEW c \in Hands
  PROVE  Closed(c) \in Seq(Pieces)
<1>1. c.out \in Seq(Pieces) /\ [title |-> c.title, from |-> c.from, to |-> c.to] \in Pieces
  BY HandParts, PieceIs
<1> QED
  BY <1>1, OneMore DEF Closed

LEMMA ReadLineIs ==
  ASSUME NEW c \in Hands, NEW line \in Nat \cup {Heading}
  PROVE  /\ ReadLine(c, line) \in Hands
         /\ line = Heading => /\ ReadLine(c, line).out = Closed(c) /\ ReadLine(c, line).title = c.title + 1
                              /\ ReadLine(c, line).from = c.to + 1 /\ ReadLine(c, line).to = c.to
         /\ line # Heading => /\ ReadLine(c, line).out = c.out /\ ReadLine(c, line).title = c.title
                              /\ ReadLine(c, line).from = c.from /\ ReadLine(c, line).to = c.to + line
<1>1. c.out \in Seq(Pieces) /\ c.title \in Nat /\ c.from \in Nat /\ c.to \in Nat
  BY HandParts
<1>2. Closed(c) \in Seq(Pieces)
  BY ClosedHands
<1>3. CASE line = Heading
  <2> DEFINE d == [out |-> Closed(c), title |-> c.title + 1, from |-> c.to + 1, to |-> c.to]
  <2>1. ReadLine(c, line) = d
    BY <1>3 DEF ReadLine
  <2>2. d \in Hands /\ d.out = Closed(c) /\ d.title = c.title + 1 /\ d.from = c.to + 1 /\ d.to = c.to
    BY <1>1, <1>2 DEF Hands
  <2> HIDE DEF d
  <2> QED
    BY <1>3, <2>1, <2>2
<1>4. CASE line # Heading
  <2> DEFINE d == [c EXCEPT !.to = c.to + line]
  <2>1. ReadLine(c, line) = d
    BY <1>4 DEF ReadLine
  <2>2. c.to + line \in Nat
    BY <1>1, <1>4
  <2>3. d \in Hands /\ d.out = c.out /\ d.title = c.title /\ d.from = c.from /\ d.to = c.to + line
    BY <2>2 DEF Hands
  <2> HIDE DEF d
  <2> QED
    BY <1>4, <2>1, <2>3
<1> QED
  BY <1>3, <1>4

\* Word x is said under title t within the first k lines.
Under(article, x, t, k) ==
  \E j \in 1..k : /\ HeadingsUpTo(article, j) = t
                  /\ WordsUpTo(article)[j - 1] < x /\ x <= WordsUpTo(article)[j]

\* The words of each of these are those under its title, and the titles go up.
Exact(article, out, k) ==
  /\ \A i \in 1..Len(out) :
       /\ 1 <= out[i].from /\ out[i].from <= out[i].to
       /\ \A x \in Int : Under(article, x, out[i].title, k) <=> (out[i].from <= x /\ x <= out[i].to)
  /\ \A i, j \in 1..Len(out) : i < j => out[i].title < out[j].title

\* What is in hand after k lines.
InHand(article, c, k) ==
  /\ c.title = HeadingsUpTo(article, k) /\ c.to = WordsUpTo(article)[k]
  /\ 1 <= c.from /\ c.from <= c.to + 1
  /\ \A x \in Int : Under(article, x, c.title, k) <=> (c.from <= x /\ x <= c.to)
  /\ Exact(article, c.out, k)
  /\ \A i \in 1..Len(c.out) : c.out[i].title < c.title
  /\ \A x \in Int, t \in Nat : Under(article, x, t, k) =>
       t = c.title \/ \E i \in 1..Len(c.out) : c.out[i].title = t

\* What is closed is complete.
LEMMA ClosedIs ==
  ASSUME NEW article \in AnArticle, NEW c \in Hands, NEW k \in Nat, InHand(article, c, k)
  PROVE  /\ Exact(article, Closed(c), k)
         /\ \A i \in 1..Len(Closed(c)) : Closed(c)[i].title <= c.title
         /\ \A x \in Int, t \in Nat : Under(article, x, t, k) =>
              \E i \in 1..Len(Closed(c)) : Closed(c)[i].title = t
<1> DEFINE out == c.out
           n == Len(out)
           last == [title |-> c.title, from |-> c.from, to |-> c.to]
           all == Closed(c)
<1>1. out \in Seq(Pieces) /\ c.title \in Nat /\ c.from \in Nat /\ c.to \in Nat /\ n \in Nat
  BY HandParts
<1>2. \A i \in 1..n : out[i].title \in Nat
  BY <1>1, PieceParts
<1>3. /\ 1 <= c.from
      /\ \A x \in Int : Under(article, x, c.title, k) <=> (c.from <= x /\ x <= c.to)
      /\ Exact(article, out, k)
      /\ \A i \in 1..n : out[i].title < c.title
      /\ \A x \in Int, t \in Nat : Under(article, x, t, k) =>
           t = c.title \/ \E i \in 1..n : out[i].title = t
  BY DEF InHand
<1>4. last \in Pieces /\ last.title = c.title /\ last.from = c.from /\ last.to = c.to
  BY <1>1, PieceIs
<1>5. CASE c.from <= c.to
  <2>1. all = Append(out, last)
    BY <1>5 DEF Closed
  <2> HIDE DEF last, out, all
  <2>2. all \in Seq(Pieces) /\ Len(all) = n + 1 /\ all[n + 1] = last /\ \A i \in 1..n : all[i] = out[i]
    BY <1>1, <1>4, <2>1, OneMore
  <2> HIDE DEF n
  <2>3. \A i \in 1..Len(all) : i \in 1..n \/ i = n + 1
    BY <1>1, <2>2
  <2>4. ASSUME NEW i \in 1..Len(all)
        PROVE  /\ 1 <= all[i].from /\ all[i].from <= all[i].to /\ all[i].title <= c.title
               /\ \A x \in Int : Under(article, x, all[i].title, k) <=> (all[i].from <= x /\ x <= all[i].to)
    <3>1. CASE i \in 1..n
      <4>1. all[i] = out[i]
        BY <2>2, <3>1
      <4>2. out[i].title <= c.title
        BY <1>1, <1>2, <1>3, <3>1
      <4> QED
        BY <1>3, <3>1, <4>1, <4>2 DEF Exact, n
    <3>2. CASE i = n + 1
      <4>1. all[i] = last
        BY <2>2, <3>2
      <4> QED
        BY <1>1, <1>3, <1>4, <1>5, <4>1
    <3> QED
      BY <2>3, <3>1, <3>2
  <2>5. ASSUME NEW i \in 1..Len(all), NEW j \in 1..Len(all), i < j PROVE all[i].title < all[j].title
    <3>1. i \in 1..n
      BY <1>1, <2>2, <2>5
    <3>2. CASE j \in 1..n
      BY <1>3, <2>2, <2>5, <3>1, <3>2 DEF Exact, n
    <3>3. CASE j = n + 1
      BY <1>3, <1>4, <2>2, <3>1, <3>3
    <3> QED
      BY <2>3, <3>2, <3>3
  <2>6. ASSUME NEW x \in Int, NEW t \in Nat, Under(article, x, t, k)
        PROVE  \E i \in 1..Len(all) : all[i].title = t
    <3>1. CASE t = c.title
      <4>1. n + 1 \in 1..Len(all)
        BY <1>1, <2>2
      <4> QED
        BY <1>4, <2>2, <3>1, <4>1
    <3>2. CASE \E i \in 1..n : out[i].title = t
      <4>1. PICK i \in 1..n : out[i].title = t
        BY <3>2
      <4>2. i \in 1..Len(all)
        BY <1>1, <2>2
      <4> QED
        BY <2>2, <4>1, <4>2
    <3> QED
      BY <1>3, <2>6, <3>1, <3>2
  <2>7. Exact(article, all, k)
    BY <2>4, <2>5 DEF Exact
  <2> QED
    BY <2>4, <2>6, <2>7 DEF all
<1>6. CASE ~ (c.from <= c.to)
  <2>1. all = out
    BY <1>6 DEF Closed
  <2>2. \A x \in Int : ~ Under(article, x, c.title, k)
    BY <1>1, <1>3, <1>6
  <2>3. \A i \in 1..n : out[i].title <= c.title
    BY <1>1, <1>2, <1>3
  <2>4. \A x \in Int, t \in Nat : Under(article, x, t, k) => \E i \in 1..n : out[i].title = t
    BY <1>3, <2>2
  <2> HIDE DEF out, all
  <2>5. Exact(article, all, k)
    BY <1>3, <2>1
  <2> QED
    BY <2>1, <2>3, <2>4, <2>5 DEF all
<1> QED
  BY <1>5, <1>6

\* The words of one more line.
LEMMA UnderMore ==
  ASSUME NEW article, NEW k \in Nat, NEW x, NEW t
  PROVE  Under(article, x, t, k + 1) <=>
           \/ Under(article, x, t, k)
           \/ /\ HeadingsUpTo(article, k + 1) = t
              /\ WordsUpTo(article)[k] < x /\ x <= WordsUpTo(article)[k + 1]
<1> DEFINE At(j) == /\ HeadingsUpTo(article, j) = t
                    /\ WordsUpTo(article)[j - 1] < x /\ x <= WordsUpTo(article)[j]
<1>1. \A j \in 1..(k + 1) : j \in 1..k \/ j = k + 1
  OBVIOUS
<1>2. (k + 1) - 1 = k /\ k + 1 \in 1..(k + 1) /\ \A j \in 1..k : j \in 1..(k + 1)
  OBVIOUS
<1>3. At(k + 1) <=> /\ HeadingsUpTo(article, k + 1) = t
                    /\ WordsUpTo(article)[k] < x /\ x <= WordsUpTo(article)[k + 1]
  BY <1>2
<1>4. \A m : Under(article, x, t, m) <=> \E j \in 1..m : At(j)
  BY DEF Under
<1> HIDE DEF At
<1>5. (\E j \in 1..(k + 1) : At(j)) <=> (\E j \in 1..k : At(j)) \/ At(k + 1)
  BY <1>1, <1>2
<1> QED
  BY <1>3, <1>4, <1>5

\* Before the first line, and from one line to the next, what is in hand is
\* what the lines read so far say.
LEMMA InHandFirst ==
  ASSUME NEW article \in AnArticle
  PROVE  Start \in Hands /\ InHand(article, Start, 0)
<1>1. /\ Start.title = 0 /\ Start.from = 1 /\ Start.to = 0 /\ Start.out = <<>>
      /\ Start \in Hands
  BY DEF Start, Hands
<1>2. HeadingsUpTo(article, 0) = 0 /\ WordsUpTo(article)[0] = 0
  BY HeadingsAre, WordsAre
<1>3. \A x, t : ~ Under(article, x, t, 0)
  BY DEF Under
<1>4. Len(Start.out) = 0
  BY <1>1
<1>5. 1..Len(Start.out) = {}
  BY <1>4
<1>6. Exact(article, Start.out, 0)
  BY <1>5 DEF Exact
<1>7. \A x \in Int : ~ (Start.from <= x /\ x <= Start.to)
  BY <1>1
<1> QED
  BY <1>1, <1>2, <1>3, <1>5, <1>6, <1>7 DEF InHand

LEMMA InHandNext ==
  ASSUME NEW article \in AnArticle, NEW k \in Nat, k + 1 \in 1..Len(article),
         NEW c \in Hands, InHand(article, c, k)
  PROVE  /\ ReadLine(c, article[k + 1]) \in Hands
         /\ InHand(article, ReadLine(c, article[k + 1]), k + 1)
<1> DEFINE line == article[k + 1]
           d == ReadLine(c, line)
           H(j) == HeadingsUpTo(article, j)
           W(j) == WordsUpTo(article)[j]
<1>1. line \in Nat \cup {Heading}
  BY DEF AnArticle
<1>2. c.out \in Seq(Pieces) /\ c.title \in Nat /\ c.from \in Nat /\ c.to \in Nat
  BY HandParts
<1>3. H(k + 1) = H(k) + IF line = Heading THEN 1 ELSE 0
  BY HeadingsAre
<1>4. W(k + 1) = W(k) + LinesOf(line)
  <2>1. (k + 1) - 1 = k
    OBVIOUS
  <2> QED
    BY <2>1, WordsAre
<1>5. \A x, t : Under(article, x, t, k + 1) <=>
           Under(article, x, t, k) \/ (H(k + 1) = t /\ W(k) < x /\ x <= W(k + 1))
  BY UnderMore
<1> HIDE DEF H, W, line, d
<1>6. /\ c.title = H(k) /\ c.to = W(k)
      /\ 1 <= c.from /\ c.from <= c.to + 1
      /\ \A x \in Int : Under(article, x, c.title, k) <=> (c.from <= x /\ x <= c.to)
      /\ Exact(article, c.out, k)
      /\ \A i \in 1..Len(c.out) : c.out[i].title < c.title
      /\ \A x \in Int, t \in Nat : Under(article, x, t, k) =>
           t = c.title \/ \E i \in 1..Len(c.out) : c.out[i].title = t
  BY DEF InHand, H, W
<1>7. d \in Hands
  BY <1>1, ReadLineIs DEF d
<1>8. CASE line = Heading
  <2>1. d.out = Closed(c) /\ d.title = c.title + 1 /\ d.from = c.to + 1 /\ d.to = c.to
    BY <1>1, <1>8, ReadLineIs DEF d
  <2>2. /\ Exact(article, d.out, k)
        /\ \A i \in 1..Len(d.out) : d.out[i].title <= c.title
        /\ \A x \in Int, t \in Nat : Under(article, x, t, k) => \E i \in 1..Len(d.out) : d.out[i].title = t
    BY <2>1, ClosedIs
  <2>3. H(k + 1) = H(k) + 1 /\ W(k + 1) = W(k)
    BY <1>2, <1>3, <1>4, <1>6, <1>8 DEF LinesOf
  <2>4. \A x \in Int : \A t : Under(article, x, t, k + 1) <=> Under(article, x, t, k)
    <3>1. \A x \in Int : ~ (W(k) < x /\ x <= W(k + 1))
      BY <1>2, <1>6, <2>3
    <3> QED
      BY <1>5, <3>1
  <2>5. d.title = H(k + 1) /\ d.to = W(k + 1) /\ 1 <= d.from /\ d.from <= d.to + 1
    BY <1>2, <1>6, <2>1, <2>3
  <2>6. d.out \in Seq(Pieces) /\ d.title \in Nat
    BY <1>7, HandParts
  <2>7. \A i \in 1..Len(d.out) : d.out[i].title \in Nat /\ d.out[i].title < d.title
    <3> SUFFICES ASSUME NEW i \in 1..Len(d.out) PROVE d.out[i].title \in Nat /\ d.out[i].title < d.title
      OBVIOUS
    <3>1. d.out[i].title \in Nat
      BY <2>6, PieceParts
    <3>2. d.out[i].title <= c.title
      BY <2>2
    <3> QED
      BY <1>2, <2>1, <3>1, <3>2
  <2>8. \A x \in Int : ~ Under(article, x, d.title, k + 1) /\ ~ (d.from <= x /\ x <= d.to)
    <3> SUFFICES ASSUME NEW x \in Int PROVE ~ Under(article, x, d.title, k + 1) /\ ~ (d.from <= x /\ x <= d.to)
      OBVIOUS
    <3>1. ASSUME Under(article, x, d.title, k) PROVE FALSE
      <4>1. PICK i \in 1..Len(d.out) : d.out[i].title = d.title
        BY <2>2, <2>6, <3>1
      <4> QED
        BY <2>6, <2>7, <4>1
    <3>2. ~ (d.from <= x /\ x <= d.to)
      BY <1>2, <2>1
    <3> QED
      BY <2>4, <3>1, <3>2
  <2>9. Exact(article, d.out, k + 1)
    BY <2>2, <2>4 DEF Exact
  <2>10. \A x \in Int, t \in Nat : Under(article, x, t, k + 1) =>
           t = d.title \/ \E i \in 1..Len(d.out) : d.out[i].title = t
    BY <2>2, <2>4
  <2> QED
    BY <1>7, <2>5, <2>7, <2>8, <2>9, <2>10 DEF InHand, H, W, d, line
<1>9. CASE line # Heading
  <2>1. d.out = c.out /\ d.title = c.title /\ d.from = c.from /\ d.to = c.to + line
    BY <1>1, <1>9, ReadLineIs DEF d
  <2>2. H(k + 1) = H(k) /\ W(k + 1) = W(k) + line /\ line \in Nat
    BY <1>1, <1>2, <1>3, <1>4, <1>6, <1>9 DEF LinesOf
  <2>3. d.title = H(k + 1) /\ d.to = W(k + 1) /\ 1 <= d.from /\ d.from <= d.to + 1
    BY <1>2, <1>6, <2>1, <2>2
  <2>4. \A x \in Int : Under(article, x, d.title, k + 1) <=> (d.from <= x /\ x <= d.to)
    <3> SUFFICES ASSUME NEW x \in Int PROVE Under(article, x, d.title, k + 1) <=> (d.from <= x /\ x <= d.to)
      OBVIOUS
    <3>1. Under(article, x, d.title, k + 1) <=> Under(article, x, c.title, k) \/ (c.to < x /\ x <= d.to)
      BY <1>5, <1>6, <2>1, <2>2, <2>3
    <3>2. Under(article, x, c.title, k) <=> (c.from <= x /\ x <= c.to)
      BY <1>6
    <3>3. (c.from <= x /\ x <= c.to) \/ (c.to < x /\ x <= d.to) <=> (d.from <= x /\ x <= d.to)
      BY <1>2, <1>6, <2>1, <2>2
    <3> QED
      BY <3>1, <3>2, <3>3
  <2>5. \A x \in Int : \A t : t # d.title => (Under(article, x, t, k + 1) <=> Under(article, x, t, k))
    BY <1>5, <2>3
  <2>6. Exact(article, d.out, k + 1)
    <3>1. \A i \in 1..Len(c.out) : c.out[i].title # d.title
      <4> SUFFICES ASSUME NEW i \in 1..Len(c.out) PROVE c.out[i].title # d.title
        OBVIOUS
      <4>1. c.out[i].title \in Nat
        BY <1>2, PieceParts
      <4>2. c.out[i].title < c.title
        BY <1>6
      <4> QED
        BY <1>2, <2>1, <4>1, <4>2
    <3> QED
      BY <1>6, <2>1, <2>5, <3>1 DEF Exact
  <2>7. \A i \in 1..Len(d.out) : d.out[i].title < d.title
    BY <1>6, <2>1
  <2>8. \A x \in Int, t \in Nat : Under(article, x, t, k + 1) =>
          t = d.title \/ \E i \in 1..Len(d.out) : d.out[i].title = t
    BY <1>6, <2>1, <2>5
  <2> QED
    BY <1>7, <2>3, <2>4, <2>6, <2>7, <2>8 DEF InHand, H, W, d, line
<1> QED
  BY <1>8, <1>9

\* The sections are the words under each title, where there are any.
LEMMA SectionsAre ==
  ASSUME NEW article \in AnArticle
  PROVE  /\ Sections(article) \in Seq(Pieces)
         /\ Exact(article, Sections(article), Len(article))
         /\ \A i \in 1..Len(Sections(article)) : Sections(article)[i].title \in Titles(article)
         /\ \A x \in Int, t \in Nat : Under(article, x, t, Len(article)) =>
              \E i \in 1..Len(Sections(article)) : Sections(article)[i].title = t
<1> DEFINE N == Len(article)
           Further(k, c) == ReadLine(c, article[k])
           cut == CHOOSE f : f = [k \in 0..N |-> IF k = 0 THEN Start ELSE Further(k, f[k - 1])]
           step == [k \in 1..N |-> [c \in Hands |-> Further(k, c)]]
<1>0. N \in Nat /\ \A k \in 1..N : article[k] \in Nat \cup {Heading}
  BY DEF AnArticle
<1>1. Sections(article) = Closed(cut[N])
  BY DEF Sections
<1>2. Start \in Hands /\ InHand(article, Start, 0)
  BY InHandFirst
<1>3. \A k \in 1..N, c \in Hands : Further(k, c) \in Hands
  BY <1>0, ReadLineIs
<1> HIDE DEF N, cut
<1>4. step \in StepsOf(N, Hands) /\ \A k \in 1..N, c \in Hands : step[k][c] = Further(k, c)
  <2> HIDE DEF Further
  <2> QED
    BY <1>3 DEF StepsOf
<1> HIDE DEF step
<1>5. HasRun(Hands, Start, N, step)
  BY <1>0, <1>2, <1>4, Steps
<1>6. PICK f \in [0..N -> Hands] : f[0] = Start /\ \A k \in 1..N : f[k] = step[k][f[k - 1]]
  BY <1>5 DEF HasRun, Computed
<1>7. \A k \in 1..N : f[k] = Further(k, f[k - 1])
  <2> SUFFICES ASSUME NEW k \in 1..N PROVE f[k] = Further(k, f[k - 1])
    OBVIOUS
  <2>1. k - 1 \in 0..N
    BY <1>0
  <2>2. f[k - 1] \in Hands
    BY <2>1
  <2> HIDE DEF Further
  <2> QED
    BY <1>4, <1>6, <2>2
<1>8. f = [k \in 0..N |-> IF k = 0 THEN Start ELSE Further(k, f[k - 1])]
  <2> HIDE DEF Further
  <2>1. ASSUME NEW k \in 0..N PROVE f[k] = IF k = 0 THEN Start ELSE Further(k, f[k - 1])
    <3>1. CASE k = 0
      BY <1>6, <3>1
    <3>2. CASE k # 0
      <4>1. k \in 1..N
        BY <1>0, <3>2
      <4> QED
        BY <1>7, <3>2, <4>1
    <3> QED
      BY <3>1, <3>2
  <2> QED
    BY <2>1
<1>9. cut = [k \in 0..N |-> IF k = 0 THEN Start ELSE Further(k, cut[k - 1])]
  <2> HIDE DEF Further
  <2> QED
    BY <1>8 DEF cut
<1>10. cut[0] = Start /\ \A k \in 1..N : cut[k] = Further(k, cut[k - 1])
  <2> HIDE DEF Further
  <2>1. 0 \in 0..N /\ \A k \in 1..N : k \in 0..N /\ k # 0
    BY <1>0
  <2> QED
    BY <1>9, <2>1
<1> DEFINE Good == {k \in Nat : k \in 0..N => cut[k] \in Hands /\ InHand(article, cut[k], k)}
<1>11. 0 \in Good
  BY <1>2, <1>10
<1>12. ASSUME NEW k \in Nat, k \in Good PROVE k + 1 \in Good
  <2> SUFFICES ASSUME k + 1 \in 0..N PROVE cut[k + 1] \in Hands /\ InHand(article, cut[k + 1], k + 1)
    OBVIOUS
  <2>1. k + 1 \in 1..N /\ k \in 0..N /\ (k + 1) - 1 = k
    BY <1>0
  <2>2. cut[k] \in Hands /\ InHand(article, cut[k], k)
    BY <1>12, <2>1
  <2>3. cut[k + 1] = ReadLine(cut[k], article[k + 1])
    BY <1>10, <2>1
  <2>4. k + 1 \in 1..Len(article)
    BY <2>1 DEF N
  <2> QED
    BY <2>2, <2>3, <2>4, InHandNext
<1> HIDE DEF Good
<1>13. N \in Good
  BY <1>0, <1>11, <1>12, AllNumbers
<1>14. cut[N] \in Hands /\ InHand(article, cut[N], N)
  BY <1>0, <1>13 DEF Good
<1> DEFINE c == cut[N]
           all == Closed(c)
<1>15. /\ all \in Seq(Pieces) /\ Exact(article, all, N)
       /\ \A i \in 1..Len(all) : all[i].title <= c.title
       /\ \A x \in Int, t \in Nat : Under(article, x, t, N) => \E i \in 1..Len(all) : all[i].title = t
  BY <1>0, <1>14, ClosedHands, ClosedIs
<1>16. c.title = HeadingsUpTo(article, N) /\ c.title \in Nat
  BY <1>14, HandParts DEF InHand
<1>17. \A i \in 1..Len(all) : all[i].title \in Titles(article)
  <2> SUFFICES ASSUME NEW i \in 1..Len(all) PROVE all[i].title \in Titles(article)
    OBVIOUS
  <2>1. all[i].title \in Nat
    BY <1>15, PieceParts
  <2>2. all[i].title <= c.title
    BY <1>15
  <2> QED
    BY <1>16, <2>1, <2>2 DEF Titles, N
<1> QED
  BY <1>1, <1>15, <1>17 DEF N

\* Division, rounded down.
LEMMA Divided ==
  ASSUME NEW a \in Nat, NEW b \in Nat \ {0}
  PROVE  a \div b \in Nat /\ (a \div b) * b <= a /\ a < (a \div b) * b + b
  OBVIOUS

\* Products of numbers, in the order of the numbers.
LEMMA Multiples ==
  ASSUME NEW a \in Nat, NEW b \in Nat, NEW s \in Nat
  PROVE  /\ a * s \in Nat /\ (a + 1) * s = a * s + s
         /\ a <= b => a * s <= b * s
  OBVIOUS

Window == [from : Nat, to : Nat]

\* Windows over the words 1 .. size: in its bounds, none too long, trivially
\* short only if it is, each overlapping the next, and no word outside them.
Tiled(w, size) ==
  /\ w \in Seq(Window)
  /\ \A i \in 1..Len(w) : /\ 1 <= w[i].from /\ w[i].from <= w[i].to /\ w[i].to <= size
                          /\ w[i].to - w[i].from + 1 <= MaxTokens
                          /\ size >= MinTokens => w[i].to - w[i].from + 1 >= MinTokens
  /\ \A i \in 1..(Len(w) - 1) : w[i].to - w[i + 1].from + 1 >= OverlapTokens
  /\ \A x \in 1..size : \E i \in 1..Len(w) : w[i].from <= x /\ x <= w[i].to

\* _window tiles the body, whatever its size.
LEMMA WindowsAre ==
  ASSUME NEW size \in Nat \ {0}
  PROVE  Tiled(Windows(size, MaxTokens, OverlapTokens), size)
<1> DEFINE w == Windows(size, MaxTokens, OverlapTokens)
<1>0. /\ MaxTokens \in Nat /\ OverlapTokens \in Nat /\ MinTokens \in Nat
      /\ 1 <= MinTokens /\ MinTokens <= OverlapTokens + 1 /\ OverlapTokens < MaxTokens
  BY ChunkerAssumption, SizesAssumption
<1>1. CASE size <= MaxTokens
  <2> DEFINE one == [from |-> 1, to |-> size]
  <2>1. one \in Window /\ one.from = 1 /\ one.to = size
    BY DEF Window
  <2>2. w = <<one>>
    BY <1>1 DEF Windows
  <2> HIDE DEF one, w
  <2>3. w \in Seq(Window) /\ Len(w) = 1 /\ w[1] = one
    BY <2>1, <2>2
  <2>4. \A i \in 1..Len(w) : i = 1
    BY <2>3
  <2>5. 1 \in 1..Len(w)
    BY <2>3
  <2>6. 1..(Len(w) - 1) = {}
    BY <2>3
  <2>7. \A i \in 1..Len(w) : w[i].from = 1 /\ w[i].to = size
    BY <2>1, <2>3, <2>4
  <2>8. /\ 1 <= 1 /\ 1 <= size /\ size <= size /\ size - 1 + 1 <= MaxTokens
        /\ size >= MinTokens => size - 1 + 1 >= MinTokens
    BY <1>0, <1>1
  <2>9. \A x \in 1..size : w[1].from <= x /\ x <= w[1].to
    BY <2>5, <2>7
  <2>10. Tiled(w, size)
    BY <2>3, <2>5, <2>6, <2>7, <2>8, <2>9 DEF Tiled
  <2> QED
    BY <2>10 DEF w
<1>2. CASE ~ (size <= MaxTokens)
  <2> DEFINE step == MaxTokens - OverlapTokens
             over == size - MaxTokens + step - 1
             q == over \div step
             n == q + 1
             At(i) == (i - 1) * step
             End(i) == IF i = n THEN size ELSE At(i) + MaxTokens
  <2>1. step \in Nat \ {0} /\ over \in Nat /\ MaxTokens = step + OverlapTokens
    BY <1>0, <1>2
  <2>2. w = [i \in 1..n |-> [from |-> At(i) + 1, to |-> End(i)]]
    BY <1>0, <1>2, <2>1 DEF Windows
  <2>3. over = size - MaxTokens + step - 1
    OBVIOUS
  <2>4. q \in Nat /\ q * step <= over /\ over < q * step + step
    <3> HIDE DEF over, step
    <3> QED
      BY <2>1, Divided
  <2>5. \A i \in 1..n : i - 1 \in Nat /\ i - 1 <= q
    BY <2>4
  <2>6. \A i \in 1..n : At(i) = (i - 1) * step
    OBVIOUS
  <2>7. \A i \in 1..n : End(i) = IF i = n THEN size ELSE At(i) + MaxTokens
    OBVIOUS
  <2>8. n = q + 1
    OBVIOUS
  <2> HIDE DEF q, n, over, step, At, End, w
  <2>9. q # 0
    <3>1. q = 0 => q * step = 0
      BY <2>1
    <3> QED
      BY <1>0, <1>2, <2>1, <2>3, <2>4, <3>1
  <2>10. \A i \in 1..n : At(i) \in Nat /\ At(i) <= q * step
    <3> SUFFICES ASSUME NEW i \in 1..n PROVE At(i) \in Nat /\ At(i) <= q * step
      OBVIOUS
    <3>1. i - 1 \in Nat /\ i - 1 <= q
      BY <2>5
    <3>2. (i - 1) * step \in Nat /\ (i - 1) * step <= q * step
      BY <2>1, <2>4, <3>1, Multiples
    <3> QED
      BY <2>6, <3>2
  <2>11. \A i \in 1..n : i # n => At(i) + MaxTokens < size
    <3> SUFFICES ASSUME NEW i \in 1..n, i # n PROVE At(i) + MaxTokens < size
      OBVIOUS
    <3>1. i - 1 \in Nat /\ q - 1 \in Nat /\ i - 1 <= q - 1 /\ (q - 1) + 1 = q
      BY <2>4, <2>5, <2>8, <2>9
    <3>2. (i - 1) * step <= (q - 1) * step
      BY <2>1, <3>1, Multiples
    <3>3. q * step = (q - 1) * step + step /\ (q - 1) * step \in Nat
      BY <2>1, <3>1, Multiples
    <3>4. At(i) = (i - 1) * step /\ At(i) \in Nat
      BY <2>6, <2>10
    <3>5. At(i) <= (q - 1) * step
      BY <3>2, <3>4
    <3> HIDE DEF At
    <3> QED
      BY <1>0, <2>1, <2>3, <2>4, <3>3, <3>4, <3>5
  <2>12. \A i \in 1..n : i # n => i + 1 \in 1..n /\ At(i + 1) = At(i) + step
    <3> SUFFICES ASSUME NEW i \in 1..n, i # n PROVE i + 1 \in 1..n /\ At(i + 1) = At(i) + step
      OBVIOUS
    <3>1. i + 1 \in 1..n /\ (i + 1) - 1 = (i - 1) + 1 /\ i - 1 \in Nat
      BY <2>4, <2>5, <2>8
    <3>2. At(i + 1) = ((i + 1) - 1) * step /\ At(i) = (i - 1) * step
      BY <2>6, <3>1
    <3>3. ((i - 1) + 1) * step = (i - 1) * step + step
      BY <2>1, <3>1, Multiples
    <3> QED
      BY <3>1, <3>2, <3>3
  <2>13. n \in Nat /\ 1 \in 1..n /\ n \in 1..n
    BY <2>4, <2>8
  <2>14. At(1) = 0
    <3>1. 0 * step = 0 /\ 1 - 1 = 0
      BY <2>1
    <3> QED
      BY <2>6, <2>13, <3>1
  <2>15. At(n) = q * step
    <3>1. n - 1 = q
      BY <2>4, <2>8
    <3> QED
      BY <2>6, <2>13, <3>1
  <2>16. \A i \in 1..n : End(i) \in Nat /\ End(i) <= size /\ At(i) + 1 <= End(i)
                         /\ End(i) - (At(i) + 1) + 1 <= MaxTokens
                         /\ End(i) - (At(i) + 1) + 1 >= MinTokens
    <3> SUFFICES ASSUME NEW i \in 1..n
                 PROVE  End(i) \in Nat /\ End(i) <= size /\ At(i) + 1 <= End(i)
                        /\ End(i) - (At(i) + 1) + 1 <= MaxTokens
                        /\ End(i) - (At(i) + 1) + 1 >= MinTokens
      OBVIOUS
    <3>1. CASE i = n
      <4>1. End(i) = size /\ At(i) = q * step /\ At(i) \in Nat
        BY <2>7, <2>10, <2>15, <3>1
      <4>2. At(i) <= over /\ over < At(i) + step
        BY <2>4, <4>1
      <4> QED
        BY <1>0, <2>1, <2>3, <4>1, <4>2
    <3>2. CASE i # n
      <4>1. End(i) = At(i) + MaxTokens /\ At(i) \in Nat /\ At(i) + MaxTokens < size
        BY <2>7, <2>10, <2>11, <3>2
      <4> QED
        BY <1>0, <4>1
    <3> QED
      BY <3>1, <3>2
  <2>17. \A i \in 1..n : [from |-> At(i) + 1, to |-> End(i)] \in Window
    BY <2>10, <2>16 DEF Window
  <2>18. w \in [1..n -> Window] /\ \A i \in 1..n : w[i].from = At(i) + 1 /\ w[i].to = End(i)
    BY <2>2, <2>17
  <2>19. w \in Seq(Window) /\ Len(w) = n
    BY <2>13, <2>18, SequenceOf
  <2>20. \A i \in 1..(n - 1) : i \in 1..n /\ i # n /\ i + 1 \in 1..n
    BY <2>13
  <2>21. \A i \in 1..(n - 1) : w[i].to - w[i + 1].from + 1 >= OverlapTokens
    <3> SUFFICES ASSUME NEW i \in 1..(n - 1) PROVE w[i].to - w[i + 1].from + 1 >= OverlapTokens
      OBVIOUS
    <3>1. i \in 1..n /\ i # n /\ i + 1 \in 1..n
      BY <2>20
    <3>2. w[i].to = At(i) + MaxTokens /\ w[i + 1].from = At(i + 1) + 1 /\ At(i + 1) = At(i) + step
      BY <2>7, <2>12, <2>18, <3>1
    <3>3. At(i) \in Nat
      BY <2>10, <3>1
    <3> QED
      BY <1>0, <2>1, <3>2, <3>3
  <2>22. ASSUME NEW x \in 1..size PROVE \E i \in 1..n : w[i].from <= x /\ x <= w[i].to
    <3> DEFINE T == {i \in 1..n : x <= End(i)}
    <3>1. T \in SUBSET Nat /\ n \in T
      BY <2>7, <2>13
    <3>2. PICK i \in T : \A j \in T : i <= j
      <4> HIDE DEF T
      <4> QED
        BY <3>1, LeastNumber
    <3>3. i \in 1..n /\ x <= End(i)
      OBVIOUS
    <3>4. At(i) + 1 <= x
      <4>1. CASE i = 1
        BY <2>14, <4>1
      <4>2. CASE i # 1
        <5>1. i - 1 \in 1..n /\ i - 1 # n /\ (i - 1) + 1 = i
          BY <2>13, <3>3, <4>2
        <5>2. ~ (x <= End(i - 1))
          <6>1. i - 1 \notin T
            BY <3>2, <3>3
          <6> QED
            BY <5>1, <6>1
        <5>3. End(i - 1) = At(i - 1) + MaxTokens /\ At(i) = At(i - 1) + step /\ At(i - 1) \in Nat
          BY <2>7, <2>10, <2>12, <5>1
        <5> QED
          BY <1>0, <2>1, <5>2, <5>3
      <4> QED
        BY <4>1, <4>2
    <3> QED
      BY <2>18, <3>3, <3>4
  <2>23. \A i \in 1..n : /\ 1 <= w[i].from /\ w[i].from <= w[i].to /\ w[i].to <= size
                         /\ w[i].to - w[i].from + 1 <= MaxTokens
                         /\ w[i].to - w[i].from + 1 >= MinTokens
    <3> SUFFICES ASSUME NEW i \in 1..n
                 PROVE  /\ 1 <= w[i].from /\ w[i].from <= w[i].to /\ w[i].to <= size
                        /\ w[i].to - w[i].from + 1 <= MaxTokens
                        /\ w[i].to - w[i].from + 1 >= MinTokens
      OBVIOUS
    <3>1. w[i].from = At(i) + 1 /\ w[i].to = End(i) /\ At(i) \in Nat
      BY <2>10, <2>18
    <3>2. 1 <= At(i) + 1
      BY <3>1
    <3> QED
      BY <2>16, <3>1, <3>2
  <2>24. Tiled(w, size)
    BY <2>19, <2>21, <2>22, <2>23 DEF Tiled
  <2> QED
    BY <2>24 DEF w
<1> QED
  BY <1>1, <1>2

\* The chunks of one section: in its bounds, under its title, and so on.
Within(p, s) ==
  p.title = s.title /\ s.from <= p.from /\ p.from <= p.to /\ p.to <= s.to
Size(p) == p.to - p.from + 1
Lapping(c) == \A i \in 1..(Len(c) - 1) : c[i].title = c[i + 1].title => c[i].to - c[i + 1].from + 1 >= OverlapTokens
Said(c, t, x) == \E i \in 1..Len(c) : c[i].title = t /\ c[i].from <= x /\ x <= c[i].to

CutOf(c, s) ==
  /\ c \in Seq(Pieces)
  /\ \A i \in 1..Len(c) : /\ Within(c[i], s) /\ Size(c[i]) <= MaxTokens
                          /\ Size(s) >= MinTokens => Size(c[i]) >= MinTokens
  /\ Lapping(c)
  /\ \A x \in s.from..s.to : Said(c, s.title, x)

\* Both ends of a window are numbers.
LEMMA WindowParts ==
  ASSUME NEW w \in Seq(Window)
  PROVE  \A i \in 1..Len(w) : w[i].from \in Nat /\ w[i].to \in Nat
<1>1. \A i \in 1..Len(w) : w[i] \in Window
  OBVIOUS
<1>2. \A v \in Window : v.from \in Nat /\ v.to \in Nat
  BY DEF Window
<1> QED
  BY <1>1, <1>2

\* The windows of a section, moved to where its words are, cover it.
LEMMA CutIs ==
  ASSUME NEW s \in Pieces, 1 <= s.from, s.from <= s.to
  PROVE  CutOf(Cut(s), s)
<1> DEFINE size == s.to - s.from + 1
           w == Windows(size, MaxTokens, OverlapTokens)
           n == Len(w)
           c == Cut(s)
           p(i) == [title |-> s.title, from |-> s.from + w[i].from - 1, to |-> s.from + w[i].to - 1]
<1>1. s.title \in Nat /\ s.from \in Nat /\ s.to \in Nat /\ size \in Nat \ {0}
  BY PieceParts
<1>2. Tiled(w, size)
  BY <1>1, WindowsAre
<1>3. c = [i \in DOMAIN w |-> p(i)]
  BY DEF Cut
<1>4. size = s.to - s.from + 1 /\ size = Size(s)
  BY DEF Size
<1> HIDE DEF w, c
<1>5. w \in Seq(Window) /\ DOMAIN w = 1..n /\ n \in Nat
  BY <1>2 DEF Tiled
<1> HIDE DEF n, size
<1>6. \A i \in 1..n : w[i].from \in Nat /\ w[i].to \in Nat
  BY <1>5, WindowParts DEF n
<1>7. \A i \in 1..n : /\ 1 <= w[i].from /\ w[i].from <= w[i].to /\ w[i].to <= size
                      /\ w[i].to - w[i].from + 1 <= MaxTokens
                      /\ size >= MinTokens => w[i].to - w[i].from + 1 >= MinTokens
  BY <1>2 DEF Tiled, n
<1>8. \A i \in 1..n : /\ p(i) \in Pieces /\ p(i).title = s.title
                      /\ p(i).from = s.from + w[i].from - 1 /\ p(i).to = s.from + w[i].to - 1
  <2> SUFFICES ASSUME NEW i \in 1..n
               PROVE  /\ p(i) \in Pieces /\ p(i).title = s.title
                      /\ p(i).from = s.from + w[i].from - 1 /\ p(i).to = s.from + w[i].to - 1
    OBVIOUS
  <2>1. s.from + w[i].from - 1 \in Nat /\ s.from + w[i].to - 1 \in Nat
    BY <1>1, <1>6, <1>7
  <2> QED
    BY <1>1, <2>1, PieceIs
<1> HIDE DEF p
<1>9. c \in [1..n -> Pieces] /\ \A i \in 1..n : c[i] = p(i)
  BY <1>3, <1>5, <1>8
<1>10. c \in Seq(Pieces) /\ Len(c) = n
  BY <1>5, <1>9, SequenceOf
<1>11. \A i \in 1..n : /\ c[i].title = s.title
                       /\ c[i].from = s.from + w[i].from - 1 /\ c[i].to = s.from + w[i].to - 1
  BY <1>8, <1>9
<1>12. \A i \in 1..n : /\ Within(c[i], s) /\ Size(c[i]) <= MaxTokens
                       /\ Size(s) >= MinTokens => Size(c[i]) >= MinTokens
  <2> SUFFICES ASSUME NEW i \in 1..n
               PROVE  /\ Within(c[i], s) /\ Size(c[i]) <= MaxTokens
                      /\ Size(s) >= MinTokens => Size(c[i]) >= MinTokens
    OBVIOUS
  <2>1. Size(c[i]) = w[i].to - w[i].from + 1
    BY <1>1, <1>6, <1>11 DEF Size
  <2>2. s.from <= c[i].from /\ c[i].from <= c[i].to /\ c[i].to <= s.to
    BY <1>1, <1>4, <1>6, <1>7, <1>11
  <2>3. Within(c[i], s)
    BY <1>11, <2>2 DEF Within
  <2> QED
    BY <1>4, <1>7, <2>1, <2>3
<1>13. Lapping(c)
  <2> SUFFICES ASSUME NEW i \in 1..(n - 1) PROVE c[i].to - c[i + 1].from + 1 >= OverlapTokens
    BY <1>10 DEF Lapping
  <2>1. i \in 1..n /\ i + 1 \in 1..n
    BY <1>5
  <2>2. w[i].to - w[i + 1].from + 1 >= OverlapTokens
    BY <1>2 DEF Tiled, n
  <2>3. c[i].to - c[i + 1].from + 1 = w[i].to - w[i + 1].from + 1
    BY <1>1, <1>6, <1>11, <2>1
  <2> QED
    BY <2>2, <2>3
<1>14. \A x \in s.from..s.to : Said(c, s.title, x)
  <2> SUFFICES ASSUME NEW x \in s.from..s.to PROVE Said(c, s.title, x)
    OBVIOUS
  <2> DEFINE y == x - s.from + 1
  <2>1. y \in 1..size /\ x = s.from + y - 1 /\ y \in Int
    BY <1>1, <1>4
  <2> HIDE DEF y
  <2>2. PICK i \in 1..n : w[i].from <= y /\ y <= w[i].to
    BY <1>2, <2>1 DEF Tiled, n
  <2>3. c[i].from <= x /\ x <= c[i].to /\ c[i].title = s.title
    BY <1>1, <1>6, <1>11, <2>1, <2>2
  <2> QED
    BY <1>10, <2>2, <2>3 DEF Said
<1>15. CutOf(c, s)
  BY <1>10, <1>12, <1>13, <1>14 DEF CutOf
<1> QED
  BY <1>15 DEF c

\* What is kept of chunks that are all long enough, or all too short.
Long(c) == \A i \in 1..Len(c) : Size(c[i]) >= MinTokens
Short(c) == \A i \in 1..Len(c) : ~ (Size(c[i]) >= MinTokens)

\* Sequences of one length with the same values are one.
LEMMA Same ==
  ASSUME NEW S, NEW s \in Seq(S), NEW t \in Seq(S), Len(s) = Len(t), \A i \in 1..Len(s) : s[i] = t[i]
  PROVE  s = t
  OBVIOUS

\* The windows of a section are all long enough or all too short, so the filter
\* of chunk_article keeps all or none.
LEMMA LongEnoughIs ==
  ASSUME NEW c \in Seq(Pieces)
  PROVE  (Long(c) => LongEnough(c) = c) /\ (Short(c) => LongEnough(c) = <<>>)
<1> DEFINE N == Len(c)
           Further(i, d) == IF Size(c[i]) >= MinTokens THEN Append(d, c[i]) ELSE d
           kept == CHOOSE f : f = [i \in 0..N |-> IF i = 0 THEN <<>> ELSE Further(i, f[i - 1])]
           step == [i \in 1..N |-> [d \in Seq(Pieces) |-> Further(i, d)]]
<1>0. N \in Nat /\ \A i \in 1..N : c[i] \in Pieces
  OBVIOUS
<1>1. LongEnough(c) = kept[N]
  BY DEF LongEnough, Size
<1> HIDE DEF N, kept
<1>2. <<>> \in Seq(Pieces)
  OBVIOUS
<1>3. \A i \in 1..N, d \in Seq(Pieces) : Further(i, d) \in Seq(Pieces)
  BY <1>0, OneMore
<1>4. step \in StepsOf(N, Seq(Pieces)) /\ \A i \in 1..N, d \in Seq(Pieces) : step[i][d] = Further(i, d)
  <2> HIDE DEF Further
  <2> QED
    BY <1>3 DEF StepsOf
<1> HIDE DEF step
<1>5. HasRun(Seq(Pieces), <<>>, N, step)
  <2> DEFINE start == <<>>
             X == Seq(Pieces)
  <2>1. start \in X /\ step \in StepsOf(N, X)
    BY <1>2, <1>4
  <2> HIDE DEF start, X
  <2>2. HasRun(X, start, N, step)
    BY <1>0, <2>1, Steps
  <2> QED
    BY <2>2 DEF start, X
<1>6. PICK f \in [0..N -> Seq(Pieces)] : f[0] = <<>> /\ \A i \in 1..N : f[i] = step[i][f[i - 1]]
  BY <1>5 DEF HasRun, Computed
<1>7. \A i \in 1..N : f[i] = Further(i, f[i - 1])
  <2> SUFFICES ASSUME NEW i \in 1..N PROVE f[i] = Further(i, f[i - 1])
    OBVIOUS
  <2>1. i - 1 \in 0..N
    BY <1>0
  <2>2. f[i - 1] \in Seq(Pieces)
    BY <2>1
  <2> HIDE DEF Further
  <2> QED
    BY <1>4, <1>6, <2>2
<1>8. f = [i \in 0..N |-> IF i = 0 THEN <<>> ELSE Further(i, f[i - 1])]
  <2> HIDE DEF Further
  <2>1. ASSUME NEW i \in 0..N PROVE f[i] = IF i = 0 THEN <<>> ELSE Further(i, f[i - 1])
    <3>1. CASE i = 0
      BY <1>6, <3>1
    <3>2. CASE i # 0
      <4>1. i \in 1..N
        BY <1>0, <3>2
      <4> QED
        BY <1>7, <3>2, <4>1
    <3> QED
      BY <3>1, <3>2
  <2> QED
    BY <2>1
<1>9. kept = [i \in 0..N |-> IF i = 0 THEN <<>> ELSE Further(i, kept[i - 1])]
  <2> HIDE DEF Further
  <2> QED
    BY <1>8 DEF kept
<1>10. kept[0] = <<>> /\ \A i \in 1..N : kept[i] = Further(i, kept[i - 1])
  <2> HIDE DEF Further
  <2>1. 0 \in 0..N /\ \A i \in 1..N : i \in 0..N /\ i # 0
    BY <1>0
  <2> QED
    BY <1>9, <2>1
<1>11. ASSUME Long(c) PROVE kept[N] = c
  <2> DEFINE Good == {i \in Nat : i \in 0..N => /\ kept[i] \in Seq(Pieces) /\ Len(kept[i]) = i
                                                /\ \A j \in 1..i : kept[i][j] = c[j]}
  <2>1. 0 \in Good
    <3>1. kept[0] \in Seq(Pieces) /\ Len(kept[0]) = 0
      BY <1>10
    <3> QED
      BY <3>1
  <2>2. ASSUME NEW i \in Nat, i \in Good PROVE i + 1 \in Good
    <3> SUFFICES ASSUME i + 1 \in 0..N
                 PROVE  /\ kept[i + 1] \in Seq(Pieces) /\ Len(kept[i + 1]) = i + 1
                        /\ \A j \in 1..(i + 1) : kept[i + 1][j] = c[j]
      OBVIOUS
    <3>1. i + 1 \in 1..N /\ i \in 0..N /\ (i + 1) - 1 = i
      BY <1>0
    <3>2. kept[i] \in Seq(Pieces) /\ Len(kept[i]) = i /\ \A j \in 1..i : kept[i][j] = c[j]
      BY <2>2, <3>1
    <3>3. kept[i + 1] = Append(kept[i], c[i + 1])
      <4>1. Size(c[i + 1]) >= MinTokens
        BY <1>11, <3>1 DEF Long, N
      <4>2. kept[i + 1] = Further(i + 1, kept[i])
        <5> HIDE DEF Further
        <5> QED
          BY <1>10, <3>1
      <4> QED
        BY <4>1, <4>2
    <3>4. c[i + 1] \in Pieces
      BY <1>0, <3>1
    <3>5. /\ Append(kept[i], c[i + 1]) \in Seq(Pieces) /\ Len(Append(kept[i], c[i + 1])) = i + 1
          /\ \A j \in 1..i : Append(kept[i], c[i + 1])[j] = kept[i][j]
          /\ Append(kept[i], c[i + 1])[i + 1] = c[i + 1]
      BY <3>2, <3>4, OneMore
    <3>6. \A j \in 1..(i + 1) : j \in 1..i \/ j = i + 1
      OBVIOUS
    <3> QED
      BY <3>2, <3>3, <3>5, <3>6
  <2>3. N \in Good
    <3> HIDE DEF Good
    <3> QED
      BY <1>0, <2>1, <2>2, AllNumbers
  <2>4. kept[N] \in Seq(Pieces) /\ Len(kept[N]) = N /\ \A j \in 1..N : kept[N][j] = c[j]
    BY <1>0, <2>3
  <2> QED
    BY <2>4, Same DEF N
<1>12. ASSUME Short(c) PROVE kept[N] = <<>>
  <2> DEFINE Good == {i \in Nat : i \in 0..N => kept[i] = <<>>}
  <2>1. 0 \in Good
    BY <1>10
  <2>2. ASSUME NEW i \in Nat, i \in Good PROVE i + 1 \in Good
    <3> SUFFICES ASSUME i + 1 \in 0..N PROVE kept[i + 1] = <<>>
      OBVIOUS
    <3>1. i + 1 \in 1..N /\ i \in 0..N /\ (i + 1) - 1 = i
      BY <1>0
    <3>2. kept[i] = <<>>
      BY <2>2, <3>1
    <3>3. ~ (Size(c[i + 1]) >= MinTokens)
      BY <1>12, <3>1 DEF Short, N
    <3>4. kept[i + 1] = Further(i + 1, kept[i])
      <4> HIDE DEF Further
      <4> QED
        BY <1>10, <3>1
    <3> QED
      BY <3>2, <3>3, <3>4
  <2>3. N \in Good
    <3> HIDE DEF Good
    <3> QED
      BY <1>0, <2>1, <2>2, AllNumbers
  <2> QED
    BY <1>0, <2>3
<1> QED
  BY <1>1, <1>11, <1>12

\* The chunks of a section.
KeptOf(c, s) ==
  /\ c \in Seq(Pieces)
  /\ \A i \in 1..Len(c) : Within(c[i], s) /\ Size(c[i]) \in MinTokens..MaxTokens /\ Size(s) >= MinTokens
  /\ Lapping(c)
  /\ Size(s) >= MinTokens => \A x \in s.from..s.to : Said(c, s.title, x)

\* So a section is covered, or trivially short and dropped.
LEMMA KeptIs ==
  ASSUME NEW s \in Pieces, 1 <= s.from, s.from <= s.to
  PROVE  KeptOf(LongEnough(Cut(s)), s)
<1> DEFINE c == Cut(s)
<1>1. CutOf(c, s)
  BY CutIs
<1>2. (Long(c) => LongEnough(c) = c) /\ (Short(c) => LongEnough(c) = <<>>)
  BY <1>1, LongEnoughIs DEF CutOf
<1>3. s.title \in Nat /\ s.from \in Nat /\ s.to \in Nat /\ MinTokens \in Nat /\ MaxTokens \in Nat
  BY PieceParts, ChunkerAssumption
<1> HIDE DEF c
<1>4. \A i \in 1..Len(c) : c[i].title \in Nat /\ c[i].from \in Nat /\ c[i].to \in Nat
  <2> SUFFICES ASSUME NEW i \in 1..Len(c) PROVE c[i].title \in Nat /\ c[i].from \in Nat /\ c[i].to \in Nat
    OBVIOUS
  <2>1. c[i] \in Pieces
    BY <1>1 DEF CutOf
  <2> QED
    BY <2>1, PieceParts
<1>5. CASE Size(s) >= MinTokens
  <2>1. Long(c)
    BY <1>1, <1>5 DEF CutOf, Long
  <2>2. \A i \in 1..Len(c) : Size(c[i]) \in MinTokens..MaxTokens
    <3> SUFFICES ASSUME NEW i \in 1..Len(c) PROVE Size(c[i]) \in MinTokens..MaxTokens
      OBVIOUS
    <3>1. Size(c[i]) <= MaxTokens /\ Size(c[i]) >= MinTokens
      BY <1>1, <1>5 DEF CutOf
    <3>2. Size(c[i]) \in Int
      BY <1>4 DEF Size
    <3> QED
      BY <1>3, <3>1, <3>2
  <2>3. KeptOf(c, s)
    BY <1>1, <1>5, <2>2 DEF CutOf, KeptOf
  <2> QED
    BY <1>2, <2>1, <2>3 DEF c
<1>6. CASE ~ (Size(s) >= MinTokens)
  <2>1. Short(c)
    <3> SUFFICES ASSUME NEW i \in 1..Len(c) PROVE ~ (Size(c[i]) >= MinTokens)
      BY DEF Short
    <3>1. Within(c[i], s)
      BY <1>1 DEF CutOf
    <3> QED
      BY <1>3, <1>4, <1>6, <3>1 DEF Within, Size
  <2>2. LongEnough(c) = <<>>
    BY <1>2, <2>1
  <2> DEFINE none == <<>>
  <2>3. none \in Seq(Pieces) /\ 1..Len(none) = {} /\ 1..(Len(none) - 1) = {}
    OBVIOUS
  <2> HIDE DEF none
  <2>4. KeptOf(none, s)
    BY <1>6, <2>3 DEF KeptOf, Lapping
  <2> QED
    BY <2>2, <2>4 DEF c, none
<1> QED
  BY <1>5, <1>6

\* One sequence after another.
LEMMA Joined ==
  ASSUME NEW S, NEW s \in Seq(S), NEW t \in Seq(S)
  PROVE  /\ s \o t \in Seq(S) /\ Len(s) \in Nat /\ Len(t) \in Nat /\ Len(s \o t) = Len(s) + Len(t)
         /\ \A i \in 1..Len(s) : (s \o t)[i] = s[i]
         /\ \A i \in 1..Len(t) : (s \o t)[Len(s) + i] = t[i]
         /\ \A i \in 1..Len(s \o t) : i \in 1..Len(s) \/ \E j \in 1..Len(t) : i = Len(s) + j
<1>1. s \o t \in Seq(S) /\ Len(s) \in Nat /\ Len(t) \in Nat /\ Len(s \o t) = Len(s) + Len(t)
  OBVIOUS
<1>2. \A i \in 1..Len(s) : (s \o t)[i] = s[i]
  OBVIOUS
<1>3. \A i \in 1..Len(t) : (s \o t)[Len(s) + i] = t[i]
  OBVIOUS
<1>4. ASSUME NEW i \in 1..Len(s \o t) PROVE i \in 1..Len(s) \/ \E j \in 1..Len(t) : i = Len(s) + j
  <2> DEFINE m == Len(s)
             n == Len(t)
  <2>1. m \in Nat /\ n \in Nat /\ i \in 1..(m + n)
    BY <1>1
  <2> HIDE DEF m, n
  <2>2. i \in 1..m \/ (i - m \in 1..n /\ i = m + (i - m))
    BY <2>1
  <2> QED
    BY <2>2 DEF m, n
<1> QED
  BY <1>1, <1>2, <1>3, <1>4

\* The chunks of the first k sections.
Grown(sections, c, k) ==
  /\ c \in Seq(Pieces)
  /\ \A i \in 1..Len(c) : /\ Size(c[i]) \in MinTokens..MaxTokens
                          /\ \E m \in 1..k : Within(c[i], sections[m]) /\ Size(sections[m]) >= MinTokens
  /\ Lapping(c)
  /\ \A m \in 1..k : Size(sections[m]) >= MinTokens =>
       \A x \in sections[m].from..sections[m].to : Said(c, sections[m].title, x)

\* Sections in the order of their titles, none empty.
Rising(sections) ==
  /\ sections \in Seq(Pieces)
  /\ \A i \in 1..Len(sections) : 1 <= sections[i].from /\ sections[i].from <= sections[i].to
  /\ \A i, j \in 1..Len(sections) : i < j => sections[i].title < sections[j].title

\* One more section: the titles go up, so no chunk of the next section stands
\* under the title of the last one.
LEMMA GrownNext ==
  ASSUME NEW sections, Rising(sections), NEW k \in Nat, k + 1 \in 1..Len(sections),
         NEW c, Grown(sections, c, k)
  PROVE  Grown(sections, c \o LongEnough(Cut(sections[k + 1])), k + 1)
<1> DEFINE s == sections[k + 1]
           d == LongEnough(Cut(s))
           both == c \o d
           n == Len(c)
           o == Len(d)
<1>1. s \in Pieces /\ 1 <= s.from /\ s.from <= s.to
  BY DEF Rising
<1>2. KeptOf(d, s)
  BY <1>1, KeptIs
<1> HIDE DEF d
<1>3. /\ c \in Seq(Pieces) /\ d \in Seq(Pieces)
      /\ both \in Seq(Pieces) /\ n \in Nat /\ o \in Nat /\ Len(both) = n + o
      /\ \A i \in 1..n : both[i] = c[i]
      /\ \A i \in 1..o : both[n + i] = d[i]
      /\ \A i \in 1..Len(both) : i \in 1..n \/ \E j \in 1..o : i = n + j
  <2>1. c \in Seq(Pieces) /\ d \in Seq(Pieces)
    BY <1>2 DEF Grown, KeptOf
  <2> QED
    BY <2>1, Joined
<1>4. /\ \A i \in 1..n : /\ Size(c[i]) \in MinTokens..MaxTokens
                         /\ \E m \in 1..k : Within(c[i], sections[m]) /\ Size(sections[m]) >= MinTokens
      /\ Lapping(c)
      /\ \A m \in 1..k : Size(sections[m]) >= MinTokens =>
           \A x \in sections[m].from..sections[m].to : Said(c, sections[m].title, x)
  BY DEF Grown
<1>5. /\ \A i \in 1..o : Within(d[i], s) /\ Size(d[i]) \in MinTokens..MaxTokens /\ Size(s) >= MinTokens
      /\ Lapping(d)
      /\ Size(s) >= MinTokens => \A x \in s.from..s.to : Said(d, s.title, x)
  BY <1>2 DEF KeptOf
<1>6. k + 1 \in 1..(k + 1) /\ \A m \in 1..(k + 1) : m \in 1..k \/ m = k + 1
  OBVIOUS
<1>7. \A m \in 1..k : m \in 1..(k + 1)
  OBVIOUS
<1>8. \A m \in 1..k : sections[m].title < s.title
  <2> SUFFICES ASSUME NEW m \in 1..k PROVE sections[m].title < s.title
    OBVIOUS
  <2>1. m \in 1..Len(sections) /\ m < k + 1
    OBVIOUS
  <2> QED
    BY <2>1 DEF Rising
<1> HIDE DEF s, both, n, o
<1>9. \A i \in 1..Len(both) :
        /\ Size(both[i]) \in MinTokens..MaxTokens
        /\ \E m \in 1..(k + 1) : Within(both[i], sections[m]) /\ Size(sections[m]) >= MinTokens
  <2> SUFFICES ASSUME NEW i \in 1..Len(both)
               PROVE  /\ Size(both[i]) \in MinTokens..MaxTokens
                      /\ \E m \in 1..(k + 1) : Within(both[i], sections[m]) /\ Size(sections[m]) >= MinTokens
    OBVIOUS
  <2>1. CASE i \in 1..n
    <3>1. both[i] = c[i]
      BY <1>3, <2>1
    <3>2. Size(c[i]) \in MinTokens..MaxTokens
      BY <1>4, <2>1
    <3>3. PICK m \in 1..k : Within(c[i], sections[m]) /\ Size(sections[m]) >= MinTokens
      BY <1>4, <2>1
    <3>4. m \in 1..(k + 1)
      BY <1>7
    <3> QED
      BY <3>1, <3>2, <3>3, <3>4
  <2>2. CASE \E j \in 1..o : i = n + j
    <3>1. PICK j \in 1..o : i = n + j
      BY <2>2
    <3>2. both[i] = d[j]
      BY <1>3, <3>1
    <3>3. Within(d[j], s) /\ Size(d[j]) \in MinTokens..MaxTokens /\ Size(s) >= MinTokens
      BY <1>5
    <3> QED
      BY <1>6, <3>2, <3>3 DEF s
  <2> QED
    BY <1>3, <2>1, <2>2
<1>10. Lapping(both)
  <2> SUFFICES ASSUME NEW i \in 1..(Len(both) - 1), both[i].title = both[i + 1].title
               PROVE  both[i].to - both[i + 1].from + 1 >= OverlapTokens
    BY DEF Lapping
  <2>1. CASE i + 1 <= n
    <3>1. i \in 1..n /\ i + 1 \in 1..n /\ i \in 1..(n - 1)
      BY <1>3, <2>1
    <3>2. both[i] = c[i] /\ both[i + 1] = c[i + 1]
      BY <1>3, <3>1
    <3> QED
      BY <1>4, <3>1, <3>2 DEF Lapping, n
  <2>2. CASE i = n
    <3>1. i \in 1..n /\ 1 \in 1..o /\ i + 1 = n + 1
      BY <1>3, <2>2
    <3>2. both[i] = c[i] /\ both[i + 1] = d[1]
      BY <1>3, <3>1
    <3>3. PICK m \in 1..k : Within(c[i], sections[m])
      BY <1>4, <3>1
    <3>4. Within(d[1], s)
      BY <1>5, <3>1
    <3>5. sections[m].title = s.title
      BY <3>2, <3>3, <3>4 DEF Within
    <3>6. s.title \in Nat
      BY <1>1, PieceParts
    <3> QED
      BY <1>8, <3>5, <3>6
  <2>3. CASE i > n
    <3> DEFINE j == i - n
    <3>1. j \in 1..(o - 1) /\ j \in 1..o /\ j + 1 \in 1..o /\ i = n + j /\ i + 1 = n + (j + 1)
      BY <1>3, <2>3
    <3> HIDE DEF j
    <3>2. both[i] = d[j] /\ both[i + 1] = d[j + 1]
      BY <1>3, <3>1
    <3> QED
      BY <1>5, <3>1, <3>2 DEF Lapping, o
  <2> QED
    BY <1>3, <2>1, <2>2, <2>3
<1>11. \A t, x : Said(c, t, x) \/ Said(d, t, x) => Said(both, t, x)
  <2> SUFFICES ASSUME NEW t, NEW x, Said(c, t, x) \/ Said(d, t, x) PROVE Said(both, t, x)
    OBVIOUS
  <2>1. CASE Said(c, t, x)
    <3>1. PICK i \in 1..n : c[i].title = t /\ c[i].from <= x /\ x <= c[i].to
      BY <2>1 DEF Said, n
    <3>2. i \in 1..Len(both) /\ both[i] = c[i]
      BY <1>3
    <3> QED
      BY <3>1, <3>2 DEF Said
  <2>2. CASE Said(d, t, x)
    <3>1. PICK i \in 1..o : d[i].title = t /\ d[i].from <= x /\ x <= d[i].to
      BY <2>2 DEF Said, o
    <3>2. n + i \in 1..Len(both) /\ both[n + i] = d[i]
      BY <1>3
    <3> QED
      BY <3>1, <3>2 DEF Said
  <2> QED
    BY <2>1, <2>2
<1>12. \A m \in 1..(k + 1) : Size(sections[m]) >= MinTokens =>
         \A x \in sections[m].from..sections[m].to : Said(both, sections[m].title, x)
  <2> SUFFICES ASSUME NEW m \in 1..(k + 1), Size(sections[m]) >= MinTokens,
                      NEW x \in sections[m].from..sections[m].to
               PROVE  Said(both, sections[m].title, x)
    OBVIOUS
  <2>1. CASE m \in 1..k
    BY <1>4, <1>11, <2>1
  <2>2. CASE m = k + 1
    <3>1. sections[m] = s
      BY <2>2 DEF s
    <3> QED
      BY <1>5, <1>11, <3>1
  <2> QED
    BY <1>6, <2>1, <2>2
<1>13. Grown(sections, both, k + 1)
  BY <1>3, <1>9, <1>10, <1>12 DEF Grown
<1> QED
  BY <1>13 DEF both, d, s

\* The chunks of an article are those of all its sections.
LEMMA ChunksAre ==
  ASSUME NEW article, Rising(Sections(article))
  PROVE  Grown(Sections(article), Chunks(article), Len(Sections(article)))
<1> DEFINE sections == Sections(article)
           N == Len(sections)
           Further(k, c) == c \o LongEnough(Cut(sections[k]))
           all == CHOOSE f : f = [k \in 0..N |-> IF k = 0 THEN <<>> ELSE Further(k, f[k - 1])]
           step == [k \in 1..N |-> [c \in Seq(Pieces) |-> Further(k, c)]]
<1>1. Chunks(article) = all[N]
  BY DEF Chunks
<1> HIDE DEF sections
<1>0. N \in Nat /\ Rising(sections)
  BY DEF sections, Rising
<1>2. <<>> \in Seq(Pieces)
  OBVIOUS
<1>3. \A k \in 1..N, c \in Seq(Pieces) : Further(k, c) \in Seq(Pieces)
  <2> SUFFICES ASSUME NEW k \in 1..N, NEW c \in Seq(Pieces) PROVE Further(k, c) \in Seq(Pieces)
    OBVIOUS
  <2>1. sections[k] \in Pieces /\ 1 <= sections[k].from /\ sections[k].from <= sections[k].to
    BY <1>0 DEF Rising
  <2>2. LongEnough(Cut(sections[k])) \in Seq(Pieces)
    BY <2>1, KeptIs DEF KeptOf
  <2> QED
    BY <2>2, Joined
<1> HIDE DEF N, all
<1>4. step \in StepsOf(N, Seq(Pieces)) /\ \A k \in 1..N, c \in Seq(Pieces) : step[k][c] = Further(k, c)
  <2> HIDE DEF Further
  <2> QED
    BY <1>3 DEF StepsOf
<1> HIDE DEF step
<1>5. HasRun(Seq(Pieces), <<>>, N, step)
  <2> DEFINE start == <<>>
             X == Seq(Pieces)
  <2>1. start \in X /\ step \in StepsOf(N, X)
    BY <1>2, <1>4
  <2> HIDE DEF start, X
  <2>2. HasRun(X, start, N, step)
    BY <1>0, <2>1, Steps
  <2> QED
    BY <2>2 DEF start, X
<1>6. PICK f \in [0..N -> Seq(Pieces)] : f[0] = <<>> /\ \A k \in 1..N : f[k] = step[k][f[k - 1]]
  BY <1>5 DEF HasRun, Computed
<1>7. \A k \in 1..N : f[k] = Further(k, f[k - 1])
  <2> SUFFICES ASSUME NEW k \in 1..N PROVE f[k] = Further(k, f[k - 1])
    OBVIOUS
  <2>1. k - 1 \in 0..N
    BY <1>0
  <2>2. f[k - 1] \in Seq(Pieces)
    BY <2>1
  <2> HIDE DEF Further
  <2> QED
    BY <1>4, <1>6, <2>2
<1>8. f = [k \in 0..N |-> IF k = 0 THEN <<>> ELSE Further(k, f[k - 1])]
  <2> HIDE DEF Further
  <2>1. ASSUME NEW k \in 0..N PROVE f[k] = IF k = 0 THEN <<>> ELSE Further(k, f[k - 1])
    <3>1. CASE k = 0
      BY <1>6, <3>1
    <3>2. CASE k # 0
      <4>1. k \in 1..N
        BY <1>0, <3>2
      <4> QED
        BY <1>7, <3>2, <4>1
    <3> QED
      BY <3>1, <3>2
  <2> QED
    BY <2>1
<1>9. all = [k \in 0..N |-> IF k = 0 THEN <<>> ELSE Further(k, all[k - 1])]
  <2> HIDE DEF Further
  <2> QED
    BY <1>8 DEF all
<1>10. all[0] = <<>> /\ \A k \in 1..N : all[k] = Further(k, all[k - 1])
  <2> HIDE DEF Further
  <2>1. 0 \in 0..N /\ \A k \in 1..N : k \in 0..N /\ k # 0
    BY <1>0
  <2> QED
    BY <1>9, <2>1
<1> DEFINE Good == {k \in Nat : k \in 0..N => Grown(sections, all[k], k)}
<1>11. 0 \in Good
  <2> DEFINE none == <<>>
  <2>1. none \in Seq(Pieces) /\ 1..Len(none) = {} /\ 1..(Len(none) - 1) = {}
    OBVIOUS
  <2>2. all[0] = none
    BY <1>10
  <2> HIDE DEF none
  <2>3. 1..0 = {}
    OBVIOUS
  <2>4. Grown(sections, none, 0)
    BY <2>1, <2>3 DEF Grown, Lapping
  <2> QED
    BY <2>2, <2>4
<1>12. ASSUME NEW k \in Nat, k \in Good PROVE k + 1 \in Good
  <2> SUFFICES ASSUME k + 1 \in 0..N PROVE Grown(sections, all[k + 1], k + 1)
    OBVIOUS
  <2>1. k + 1 \in 1..N /\ k \in 0..N /\ (k + 1) - 1 = k
    BY <1>0
  <2>2. Grown(sections, all[k], k)
    BY <1>12, <2>1
  <2>3. all[k + 1] = all[k] \o LongEnough(Cut(sections[k + 1]))
    BY <1>10, <2>1
  <2>4. k + 1 \in 1..Len(sections)
    BY <2>1 DEF N
  <2> QED
    BY <1>0, <2>2, <2>3, <2>4, GrownNext
<1> HIDE DEF Good
<1>13. N \in Good
  BY <1>0, <1>11, <1>12, AllNumbers
<1>14. Grown(sections, all[N], N)
  BY <1>0, <1>13 DEF Good
<1> QED
  BY <1>1, <1>14 DEF N, sections

\* The words under a title are those the lines say.
LEMMA WordsUnderIs ==
  ASSUME NEW article \in AnArticle, NEW t
  PROVE  \A x : x \in WordsUnder(article, t) <=> x \in Int /\ Under(article, x, t, Len(article))
<1> DEFINE W == WordsUpTo(article)
           N == Len(article)
           Mine == {k \in DOMAIN article : HeadingsUpTo(article, k) = t}
<1>1. DOMAIN article = 1..N /\ N \in Nat
  BY DEF AnArticle
<1>2. W \in [0..N -> Nat]
  BY WordsAre
<1> HIDE DEF W
<1>3. \A k \in 1..N : W[k] \in Nat /\ W[k - 1] \in Nat
  <2> SUFFICES ASSUME NEW k \in 1..N PROVE W[k] \in Nat /\ W[k - 1] \in Nat
    OBVIOUS
  <2>1. k \in 0..N /\ k - 1 \in 0..N
    BY <1>1
  <2> QED
    BY <1>2, <2>1
<1>4. \A x : x \in WordsUnder(article, t) <=> \E k \in Mine : x \in W[k - 1] + 1 .. W[k]
  BY DEF WordsUnder, W
<1>5. \A k : k \in Mine <=> k \in 1..N /\ HeadingsUpTo(article, k) = t
  BY <1>1
<1> HIDE DEF N, Mine
<1>6. \A x, k : k \in 1..N => (x \in W[k - 1] + 1 .. W[k] <=> x \in Int /\ W[k - 1] < x /\ x <= W[k])
  BY <1>3
<1>7. \A x : Under(article, x, t, N) <=>
               \E k \in 1..N : HeadingsUpTo(article, k) = t /\ W[k - 1] < x /\ x <= W[k]
  BY DEF Under, W
<1> QED
  BY <1>4, <1>5, <1>6, <1>7 DEF N

\* The chunks of an article are the words under its headings, no more and no less.
LEMMA ArticleCovers ==
  ASSUME NEW article \in AnArticle
  PROVE  Covers(article, Chunks(article))
<1> DEFINE s == Sections(article)
           n == Len(s)
           c == Chunks(article)
           N == Len(article)
           Mine(t) == {i \in DOMAIN c : c[i].title = t}
           All(t) == UNION {c[i].from .. c[i].to : i \in Mine(t)}
           Worth(t) == \E j \in WordsUnder(article, t) : j + MinTokens - 1 \in WordsUnder(article, t)
<1>1. /\ s \in Seq(Pieces)
      /\ Exact(article, s, N)
      /\ \A i \in 1..n : s[i].title \in Titles(article)
      /\ \A x \in Int, t \in Nat : Under(article, x, t, N) => \E i \in 1..n : s[i].title = t
  BY SectionsAre
<1>2. Rising(s)
  BY <1>1 DEF Exact, Rising
<1>3. Grown(s, c, n)
  BY <1>2, ChunksAre
<1>4. \A t, x : x \in WordsUnder(article, t) <=> x \in Int /\ Under(article, x, t, N)
  BY WordsUnderIs
<1>5. MinTokens \in Nat /\ MaxTokens \in Nat /\ 1 <= MinTokens
  BY ChunkerAssumption, SizesAssumption
<1>6. \A t \in Titles(article) : t \in Nat
  BY DEF Titles
<1> HIDE DEF s, c, N, n
<1>7. \A i \in 1..n : s[i].title \in Nat /\ s[i].from \in Nat /\ s[i].to \in Nat
  <2> SUFFICES ASSUME NEW i \in 1..n PROVE s[i].title \in Nat /\ s[i].from \in Nat /\ s[i].to \in Nat
    OBVIOUS
  <2>1. s[i] \in Pieces
    BY <1>1 DEF n
  <2> QED
    BY <2>1, PieceParts
<1>8. c \in Seq(Pieces) /\ DOMAIN c = 1..Len(c) /\ Len(c) \in Nat
  BY <1>3 DEF Grown
<1>9. \A i \in 1..Len(c) : c[i].title \in Nat /\ c[i].from \in Nat /\ c[i].to \in Nat
  <2> SUFFICES ASSUME NEW i \in 1..Len(c) PROVE c[i].title \in Nat /\ c[i].from \in Nat /\ c[i].to \in Nat
    OBVIOUS
  <2>1. c[i] \in Pieces
    BY <1>8
  <2> QED
    BY <2>1, PieceParts
<1>10. \A i \in 1..n : \A x : x \in WordsUnder(article, s[i].title) <=> x \in Int /\ s[i].from <= x /\ x <= s[i].to
  BY <1>1, <1>4 DEF Exact, n
<1>11. \A i \in 1..n : Worth(s[i].title) <=> Size(s[i]) >= MinTokens
  <2> SUFFICES ASSUME NEW i \in 1..n PROVE Worth(s[i].title) <=> Size(s[i]) >= MinTokens
    OBVIOUS
  <2> DEFINE t == s[i].title
             p == s[i]
             M == WordsUnder(article, t)
  <2>1. \A x : x \in M <=> x \in Int /\ p.from <= x /\ x <= p.to
    BY <1>10
  <2>2. p.from \in Nat /\ p.to \in Nat
    BY <1>7
  <2>3. Worth(t) <=> \E j \in M : j + MinTokens - 1 \in M
    OBVIOUS
  <2> HIDE DEF t, p, M, Worth
  <2>4. ASSUME NEW j \in M, j + MinTokens - 1 \in M PROVE Size(p) >= MinTokens
    <3>1. j \in Int /\ p.from <= j /\ j + MinTokens - 1 <= p.to
      BY <2>1, <2>4
    <3> QED
      BY <1>5, <2>2, <3>1 DEF Size
  <2>5. ASSUME Size(p) >= MinTokens PROVE p.from \in M /\ p.from + MinTokens - 1 \in M
    <3>1. p.from + MinTokens - 1 \in Int /\ p.from + MinTokens - 1 <= p.to /\ p.from <= p.from + MinTokens - 1
      BY <1>5, <2>2, <2>5 DEF Size
    <3>2. p.from \in Int /\ p.from <= p.from /\ p.from <= p.to
      BY <1>5, <2>2, <3>1
    <3> QED
      BY <2>1, <3>1, <3>2
  <2>6. Worth(t) <=> Size(p) >= MinTokens
    BY <2>3, <2>4, <2>5
  <2> QED
    BY <2>6 DEF t, p
<1>12. \A t, x : x \in All(t) <=> x \in Int /\ Said(c, t, x)
  <2> SUFFICES ASSUME NEW t, NEW x PROVE x \in All(t) <=> x \in Int /\ Said(c, t, x)
    OBVIOUS
  <2>1. x \in All(t) <=> \E i \in Mine(t) : x \in c[i].from .. c[i].to
    OBVIOUS
  <2>2. \A i : i \in Mine(t) <=> i \in 1..Len(c) /\ c[i].title = t
    BY <1>8
  <2>3. \A i \in 1..Len(c) : x \in c[i].from .. c[i].to <=> x \in Int /\ c[i].from <= x /\ x <= c[i].to
    BY <1>9
  <2> HIDE DEF All, Mine
  <2> QED
    BY <2>1, <2>2, <2>3 DEF Said
<1> HIDE DEF All, Mine, Worth
<1>13. \A i \in 1..Len(c) : /\ Size(c[i]) \in MinTokens..MaxTokens
                            /\ \E m \in 1..n : Within(c[i], s[m]) /\ Size(s[m]) >= MinTokens
  BY <1>3 DEF Grown
<1>14. \A m \in 1..n : Size(s[m]) >= MinTokens => \A x \in s[m].from..s[m].to : Said(c, s[m].title, x)
  BY <1>3 DEF Grown
<1>15. ASSUME NEW t \in Titles(article), NEW x
       PROVE  x \in All(t) <=> Worth(t) /\ x \in WordsUnder(article, t)
  <2>1. ASSUME x \in All(t) PROVE Worth(t) /\ x \in WordsUnder(article, t)
    <3>1. x \in Int /\ Said(c, t, x)
      BY <1>12, <2>1
    <3>2. PICK i \in 1..Len(c) : c[i].title = t /\ c[i].from <= x /\ x <= c[i].to
      BY <3>1 DEF Said
    <3>3. PICK m \in 1..n : Within(c[i], s[m]) /\ Size(s[m]) >= MinTokens
      BY <1>13
    <3>4. t = s[m].title
      BY <3>2, <3>3 DEF Within
    <3>5. s[m].from <= x /\ x <= s[m].to
      BY <1>7, <1>9, <3>1, <3>2, <3>3 DEF Within
    <3> QED
      BY <1>10, <1>11, <3>1, <3>3, <3>4, <3>5
  <2>2. ASSUME Worth(t), x \in WordsUnder(article, t) PROVE x \in All(t)
    <3>1. x \in Int /\ Under(article, x, t, N)
      BY <1>4, <2>2
    <3>2. PICK m \in 1..n : s[m].title = t
      BY <1>1, <1>6, <3>1
    <3>3. Size(s[m]) >= MinTokens
      BY <1>11, <2>2, <3>2
    <3>4. s[m].from <= x /\ x <= s[m].to
      BY <1>10, <2>2, <3>2
    <3>5. x \in s[m].from..s[m].to
      BY <1>7, <3>1, <3>4
    <3> QED
      BY <1>12, <1>14, <3>1, <3>2, <3>3, <3>5
  <2> QED
    BY <2>1, <2>2
<1>16. \A t \in Titles(article) : All(t) = IF Worth(t) THEN WordsUnder(article, t) ELSE {}
  <2> SUFFICES ASSUME NEW t \in Titles(article) PROVE All(t) = IF Worth(t) THEN WordsUnder(article, t) ELSE {}
    OBVIOUS
  <2>1. \A x : x \in All(t) <=> Worth(t) /\ x \in WordsUnder(article, t)
    BY <1>15
  <2> QED
    BY <2>1
<1>17. \A i \in 1..Len(c) : c[i].title \in Titles(article) /\ c[i].to - c[i].from + 1 \in MinTokens..MaxTokens
  <2> SUFFICES ASSUME NEW i \in 1..Len(c)
               PROVE  c[i].title \in Titles(article) /\ c[i].to - c[i].from + 1 \in MinTokens..MaxTokens
    OBVIOUS
  <2>1. PICK m \in 1..n : Within(c[i], s[m])
    BY <1>13
  <2> QED
    BY <1>1, <1>13, <2>1 DEF Within, Size
<1>18. \A i \in 1..(Len(c) - 1) : c[i].title = c[i + 1].title => c[i].to - c[i + 1].from + 1 >= OverlapTokens
  BY <1>3 DEF Grown, Lapping
<1>19. Covers(article, c)
  BY <1>8, <1>16, <1>17, <1>18 DEF Covers, All, Mine, Worth
<1> QED
  BY <1>19 DEF c

\* chunk.py loses no word of a section worth indexing, whatever the article:
\* the chunks under a heading say exactly the words under it, fit the embedder,
\* and overlap by as much as they should.
THEOREM ArticlesCovered == ChunkerSpec => []ChunksCover
<1>1. ChunkerInit => ChunksCover
  BY DEF ChunkerInit, ChunksCover
<1>2. ASSUME [\E article \in Seq(Nat \cup {Heading}) : CallChunkArticle(article)]_chunked, ChunksCover
      PROVE  ChunksCover'
  <2>1. CASE UNCHANGED chunked
    BY <1>2, <2>1 DEF ChunksCover
  <2>2. ASSUME NEW article \in Seq(Nat \cup {Heading}), CallChunkArticle(article) PROVE ChunksCover'
    <3>1. Covers(article, Chunks(article))
      BY ArticleCovers DEF AnArticle
    <3>2. chunked'.in = article /\ chunked'.out = Chunks(article)
      BY <2>2 DEF CallChunkArticle
    <3> QED
      BY <3>1, <3>2 DEF ChunksCover
  <2> QED
    BY <1>2, <2>1, <2>2
<1> QED
  BY <1>1, <1>2, PTL DEF ChunkerSpec
=============================================================================

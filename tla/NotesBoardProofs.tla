--------------------------- MODULE NotesBoardProofs -------------------------
(***************************************************************************)
(* What the board promises, for any sets of threads and clients, any       *)
(* windows, limits and bounds, and however posts overlap, also those of    *)
(* one client.  Every id belongs to one note while the daemon lives, no    *)
(* note reaches the mesh twice, and a post is one step of SharedBoard.     *)
(* With LIMIT_SHORT 1 two notes of one client within a short window were   *)
(* posted at the same time, and no long window holds more of them than     *)
(* LIMIT_LONG and one for each further thread.  What a post counted it can *)
(* vouch for only among the notes stored before its request came in; of    *)
(* the later ones it may have missed as many as there are other threads.   *)
(***************************************************************************)
EXTENDS NotesBoard, NoteText, FiniteSetTheorems, WellFoundedInduction, TLAPS

-----------------------------------------------------------------------------
(* The cleaning of what is posted.                                         *)

\* A set of numbers that is not empty has a least one.
LEMMA LeastNumber ==
  ASSUME NEW T \in SUBSET Nat, T # {}
  PROVE  \E n \in T : \A m \in T : n <= m
<1> DEFINE R == OpToRel(<, Nat)
<1>1. \A x, y \in Nat : x < y => <<x, y>> \in R
  BY DEF OpToRel
<1>2. IsWellFoundedOn(R, Nat)
  BY NatLessThanWellFounded
<1> HIDE DEF R
<1>3. PICK n \in T : \A m \in T : ~(<<m, n>> \in R)
  BY <1>2, WFMin
<1>4. ASSUME NEW m \in T PROVE n <= m
  <2>1. ~(<<m, n>> \in R)
    BY <1>3
  <2>2. m \in Nat /\ n \in Nat
    OBVIOUS
  <2>3. ~(m < n)
    BY <1>1, <2>1, <2>2
  <2> QED
    BY <2>2, <2>3
<1> QED
  BY <1>4

\* Induction, for a set of numbers.
LEMMA AllNumbers ==
  ASSUME NEW S, 0 \in S, \A n \in Nat : n \in S => n + 1 \in S
  PROVE  Nat \subseteq S
<1> SUFFICES ASSUME Nat \ S # {} PROVE FALSE
  OBVIOUS
<1>1. PICK n \in Nat \ S : \A m \in Nat \ S : n <= m
  BY LeastNumber
<1>2. n # 0 /\ n - 1 \in Nat /\ n - 1 \notin Nat \ S
  BY <1>1
<1>3. n - 1 \in S
  BY <1>2
<1>4. (n - 1) + 1 = n
  BY <1>2
<1> QED
  BY <1>1, <1>2, <1>3, <1>4

\* What is computed step by step, with each step a value for each value, exists.
StepsOf(N, X) == [1..N -> [X -> X]]
Computed(f, start, N, step) == f[0] = start /\ \A n \in 1..N : f[n] = step[n][f[n - 1]]
HasRun(X, start, N, step) == \E f \in [0..N -> X] : Computed(f, start, N, step)

\* So a start and one step after another make a run.
LEMMA Steps ==
  ASSUME NEW X, NEW start \in X, NEW N \in Nat, NEW step \in StepsOf(N, X)
  PROVE  HasRun(X, start, N, step)
<1> USE DEF StepsOf
<1> DEFINE Upto(k, g) == /\ g \in [0..k -> X] /\ g[0] = start
                         /\ \A n \in 1..k : g[n] = step[n][g[n - 1]]
           S == {k \in Nat : k <= N => \E g : Upto(k, g)}
<1>1. 0 \in S
  <2> DEFINE g == [n \in 0..0 |-> start]
  <2>1. Upto(0, g)
    OBVIOUS
  <2> QED
    BY <2>1
<1>2. ASSUME NEW k \in Nat, k \in S PROVE k + 1 \in S
  <2> SUFFICES ASSUME k + 1 <= N PROVE \E g : Upto(k + 1, g)
    OBVIOUS
  <2>1. PICK g : Upto(k, g)
    BY <1>2
  <2> DEFINE x == step[k + 1][g[k]]
             h == [n \in 0..(k + 1) |-> IF n = k + 1 THEN x ELSE g[n]]
  <2>2. x \in X
    BY <2>1
  <2> HIDE DEF x
  <2>3. h \in [0..(k + 1) -> X] /\ h[0] = start
    BY <2>1, <2>2
  <2>4. ASSUME NEW n \in 1..(k + 1) PROVE h[n] = step[n][h[n - 1]]
    <3>1. CASE n = k + 1
      BY <2>1, <3>1 DEF x
    <3>2. CASE n # k + 1
      BY <2>1, <3>2
    <3> QED
      BY <3>1, <3>2
  <2> HIDE DEF h
  <2> QED
    BY <2>3, <2>4
<1> HIDE DEF S
<1>3. Nat \subseteq S
  BY <1>1, <1>2, AllNumbers
<1>4. \E g : Upto(N, g)
  BY <1>3 DEF S
<1> QED
  BY <1>4 DEF HasRun, Computed

\* t is s at some of its places, in their order; f names the places.
Through(f, t, s, at) ==
  /\ f \in [1 .. Len(t) -> at]
  /\ \A i, j \in 1 .. Len(t) : i < j => f[i] < f[j]
  /\ \A p \in at : \E i \in 1 .. Len(t) : f[i] = p
  /\ \A i \in 1 .. Len(t) : t[i] = s[f[i]]

Thins(t, s, at) == \E f : Through(f, t, s, at)

\* Nothing taken is nothing.
LEMMA ThinsNone ==
  ASSUME NEW s
  PROVE  Thins(<<>>, s, {})
<1>1. 1 .. Len(<<>>) = {}
  OBVIOUS
<1> DEFINE f == [i \in {} |-> 0]
<1>2. f \in [{} -> {}]
  OBVIOUS
<1> QED
  BY <1>1, <1>2 DEF Thins, Through

\* One more place is taken, after the others.
LEMMA ThinsOneMore ==
  ASSUME NEW S, NEW s, NEW t \in Seq(S), NEW at \in SUBSET Nat, NEW p \in Nat, s[p] \in S,
         Thins(t, s, at), \A q \in at : q < p
  PROVE  Thins(Append(t, s[p]), s, at \cup {p})
<1>1. PICK f : Through(f, t, s, at)
  BY DEF Thins
<1> DEFINE u == Append(t, s[p])
           n == Len(t)
           g == [i \in 1 .. n + 1 |-> IF i = n + 1 THEN p ELSE f[i]]
<1>2. /\ n \in Nat /\ Len(u) = n + 1 /\ u[n + 1] = s[p]
      /\ \A i \in 1 .. n : u[i] = t[i]
  OBVIOUS
<1>3. /\ f \in [1 .. n -> at]
      /\ \A i, j \in 1 .. n : i < j => f[i] < f[j]
      /\ \A q \in at : \E i \in 1 .. n : f[i] = q
      /\ \A i \in 1 .. n : t[i] = s[f[i]]
  BY <1>1 DEF Through
<1> HIDE DEF u, n
<1>4. g \in [1 .. n + 1 -> at \cup {p}] /\ g[n + 1] = p /\ \A i \in 1 .. n : g[i] = f[i]
  BY <1>2, <1>3
<1> HIDE DEF g
<1>5. ASSUME NEW i \in 1 .. n + 1, NEW j \in 1 .. n + 1, i < j PROVE g[i] < g[j]
  <2>1. i \in 1 .. n
    BY <1>2, <1>5
  <2>2. g[i] = f[i] /\ f[i] \in at
    BY <1>3, <1>4, <2>1
  <2>3. CASE j = n + 1
    BY <1>4, <2>2, <2>3
  <2>4. CASE j # n + 1
    <3>1. j \in 1 .. n
      BY <1>2, <2>4
    <3> QED
      BY <1>3, <1>4, <1>5, <2>1, <3>1
  <2> QED
    BY <2>3, <2>4
<1>6. ASSUME NEW q \in at \cup {p} PROVE \E i \in 1 .. n + 1 : g[i] = q
  <2>1. CASE q = p
    BY <1>2, <1>4, <2>1
  <2>2. CASE q \in at
    <3>1. PICK i \in 1 .. n : f[i] = q
      BY <1>3, <2>2
    <3>2. i \in 1 .. n + 1
      BY <1>2
    <3> QED
      BY <1>4, <3>1, <3>2
  <2> QED
    BY <2>1, <2>2
<1>7. ASSUME NEW i \in 1 .. n + 1 PROVE u[i] = s[g[i]]
  <2>1. i \in 1 .. n \/ i = n + 1
    BY <1>2
  <2>2. CASE i \in 1 .. n
    BY <1>2, <1>3, <1>4, <2>2
  <2>3. CASE i = n + 1
    BY <1>2, <1>4, <2>3
  <2> QED
    BY <2>1, <2>2, <2>3
<1>8. Through(g, u, s, at \cup {p})
  BY <1>2, <1>4, <1>5, <1>6, <1>7 DEF Through
<1> QED
  BY <1>8 DEF Thins, u

\* What Only returns.
LEMMA OnlyIs ==
  ASSUME NEW S, NEW s \in Seq(S), NEW at \in SUBSET Nat, \A i \in at : i \in 1 .. Len(s)
  PROVE  Only(s, at) \in Seq(S) /\ Thins(Only(s, at), s, at)
<1> DEFINE kept == CHOOSE f : f = [i \in 0 .. Len(s) |->
                IF i = 0 THEN <<>>
                ELSE IF i \in at THEN Append(f[i - 1], s[i]) ELSE f[i - 1]]
           step == [i \in 1 .. Len(s) |-> [t \in Seq(S) |-> IF i \in at THEN Append(t, s[i]) ELSE t]]
<1>1. step \in [1 .. Len(s) -> [Seq(S) -> Seq(S)]]
  OBVIOUS
<1>2. ASSUME NEW i \in 1 .. Len(s), NEW t \in Seq(S) PROVE step[i][t] = IF i \in at THEN Append(t, s[i]) ELSE t
  OBVIOUS
<1> HIDE DEF step
<1>3. Len(s) \in Nat /\ <<>> \in Seq(S)
  OBVIOUS
<1>4. PICK f \in [0 .. Len(s) -> Seq(S)] : f[0] = <<>> /\ \A n \in 1 .. Len(s) : f[n] = step[n][f[n - 1]]
  <2> DEFINE Z == Seq(S)
             N == Len(s)
             start == <<>>
  <2>1. step \in StepsOf(N, Z) /\ start \in Z /\ N \in Nat
    BY <1>1, <1>3 DEF StepsOf
  <2> HIDE DEF Z, N, start
  <2>2. HasRun(Z, start, N, step)
    BY <2>1, Steps
  <2> QED
    BY <2>2 DEF Z, N, start, HasRun, Computed
<1> DEFINE Further(i, t) == IF i \in at THEN Append(t, s[i]) ELSE t
<1>5. \A i \in 1 .. Len(s) : f[i - 1] \in Seq(S) /\ f[i] = Further(i, f[i - 1])
  <2> SUFFICES ASSUME NEW i \in 1 .. Len(s)
               PROVE  f[i - 1] \in Seq(S) /\ f[i] = Further(i, f[i - 1])
    OBVIOUS
  <2>1. i - 1 \in 0 .. Len(s)
    BY <1>3
  <2>2. f[i - 1] \in Seq(S)
    BY <2>1
  <2>3. f[i] = step[i][f[i - 1]]
    BY <1>4
  <2> QED
    BY <1>2, <2>2, <2>3
<1>6. f = [i \in 0 .. Len(s) |-> IF i = 0 THEN <<>> ELSE Further(i, f[i - 1])]
  <2> HIDE DEF Further
  <2>1. ASSUME NEW i \in 0 .. Len(s) PROVE f[i] = IF i = 0 THEN <<>> ELSE Further(i, f[i - 1])
    <3>1. i = 0 \/ i \in 1 .. Len(s)
      BY <1>3
    <3>2. CASE i = 0
      BY <1>4, <3>2
    <3>3. CASE i \in 1 .. Len(s)
      <4>1. i # 0
        BY <1>3, <3>3
      <4> QED
        BY <1>5, <3>3, <4>1
    <3> QED
      BY <3>1, <3>2, <3>3
  <2> QED
    BY <2>1
<1>7. kept = [i \in 0 .. Len(s) |-> IF i = 0 THEN <<>> ELSE Further(i, kept[i - 1])]
  BY <1>6
<1>8. Only(s, at) = kept[Len(s)]
  BY DEF Only
<1> HIDE DEF kept
<1>9. kept[0] = <<>> /\ \A i \in 1 .. Len(s) : kept[i] = Further(i, kept[i - 1])
  <2> HIDE DEF Further
  <2> QED
    BY <1>3, <1>7
<1> DEFINE First(k) == at \cap 1 .. k
           Good == {k \in Nat : k <= Len(s) => kept[k] \in Seq(S) /\ Thins(kept[k], s, First(k))}
<1>10. 0 \in Good
  <2>1. First(0) = {}
    OBVIOUS
  <2>2. Thins(<<>>, s, {})
    BY ThinsNone
  <2> QED
    BY <1>3, <1>9, <2>1, <2>2
<1>11. ASSUME NEW k \in Nat, k \in Good PROVE k + 1 \in Good
  <2> SUFFICES ASSUME k + 1 <= Len(s) PROVE kept[k + 1] \in Seq(S) /\ Thins(kept[k + 1], s, First(k + 1))
    OBVIOUS
  <2>1. kept[k] \in Seq(S) /\ Thins(kept[k], s, First(k))
    BY <1>3, <1>11
  <2>2. k + 1 \in 1 .. Len(s) /\ (k + 1) - 1 = k /\ k + 1 \in Nat
    BY <1>3
  <2>3. kept[k + 1] = Further(k + 1, kept[k])
    BY <1>9, <2>2
  <2>4. s[k + 1] \in S
    BY <2>2
  <2>5. CASE k + 1 \in at
    <3>1. First(k + 1) = First(k) \cup {k + 1}
      BY <2>5
    <3>2. First(k) \in SUBSET Nat /\ \A q \in First(k) : q < k + 1
      OBVIOUS
    <3> HIDE DEF First
    <3>3. Thins(Append(kept[k], s[k + 1]), s, First(k) \cup {k + 1})
      BY <2>1, <2>2, <2>4, <3>2, ThinsOneMore
    <3>4. kept[k + 1] = Append(kept[k], s[k + 1])
      BY <2>3, <2>5
    <3>5. Append(kept[k], s[k + 1]) \in Seq(S)
      BY <2>1, <2>4
    <3> QED
      BY <3>1, <3>3, <3>4, <3>5
  <2>6. CASE k + 1 \notin at
    <3>1. First(k + 1) = First(k)
      BY <2>6
    <3> HIDE DEF First
    <3> QED
      BY <2>1, <2>3, <2>6, <3>1
  <2> QED
    BY <2>5, <2>6
<1>12. Len(s) \in Good
  <2> HIDE DEF Good
  <2> QED
    BY <1>3, <1>10, <1>11, AllNumbers
<1>13. First(Len(s)) = at
  OBVIOUS
<1> HIDE DEF First
<1> QED
  BY <1>3, <1>8, <1>12, <1>13 DEF Good

\* The first ones of some places; the beginning of a sequence.
Foremost(bt, at) == bt \subseteq at /\ \A p \in at \ bt : \A q \in bt : q < p
Begins(u, t) == \A i \in 1 .. Len(u) : i <= Len(t) /\ u[i] = t[i]

\* An earlier part of the same places gives an earlier part of the same sequence.
LEMMA ThinsEarlier ==
  ASSUME NEW s, NEW t, NEW u, NEW at \in SUBSET Nat, NEW bt, Foremost(bt, at),
         Len(t) \in Nat, Len(u) \in Nat,
         Thins(t, s, at), Thins(u, s, bt)
  PROVE  Begins(u, t)
<1>0. bt \subseteq at /\ \A p \in at \ bt : \A q \in bt : q < p
  BY DEF Foremost
<1>1. PICK f : Through(f, t, s, at)
  BY DEF Thins
<1>2. PICK g : Through(g, u, s, bt)
  BY DEF Thins
<1> DEFINE m == Len(t)
           n == Len(u)
<1>3. /\ f \in [1 .. m -> at]
      /\ \A i, j \in 1 .. m : i < j => f[i] < f[j]
      /\ \A p \in at : \E i \in 1 .. m : f[i] = p
      /\ \A i \in 1 .. m : t[i] = s[f[i]]
  BY <1>1 DEF Through
<1>4. /\ g \in [1 .. n -> bt]
      /\ \A i, j \in 1 .. n : i < j => g[i] < g[j]
      /\ \A p \in bt : \E i \in 1 .. n : g[i] = p
      /\ \A i \in 1 .. n : u[i] = s[g[i]]
  BY <1>2 DEF Through
<1>5. m \in Nat /\ n \in Nat
  OBVIOUS
<1> HIDE DEF m, n
<1> DEFINE Bad == {i \in 1 .. n : ~ (i \in 1 .. m /\ f[i] = g[i])}
<1>6. ASSUME Bad # {} PROVE FALSE
  <2>1. Bad \in SUBSET Nat
    BY <1>5
  <2>2. PICK i \in Bad : \A j \in Bad : i <= j
    BY <1>6, <2>1, LeastNumber
  <2>3. i \in 1 .. n /\ \A j \in 1 .. n : j < i => j \in 1 .. m /\ f[j] = g[j]
    BY <1>5, <2>2
  <2>4. g[i] \in bt /\ g[i] \in at
    BY <1>0, <1>4, <2>3
  <2>5. PICK j \in 1 .. m : f[j] = g[i]
    BY <1>3, <2>4
  <2>6. j >= i
    <3>1. SUFFICES ASSUME j < i PROVE FALSE
      BY <1>5, <2>3
    <3>2. j \in 1 .. n
      BY <1>5, <2>3, <3>1
    <3>3. f[j] = g[j] /\ g[j] < g[i]
      BY <1>4, <2>3, <3>1, <3>2
    <3>4. g[i] \in Nat
      BY <2>4
    <3> QED
      BY <2>5, <3>3, <3>4
  <2>7. j # i /\ i \in 1 .. m
    BY <1>5, <2>2, <2>3, <2>5, <2>6
  <2>8. i < j
    BY <1>5, <2>3, <2>6, <2>7
  <2>9. f[i] < g[i] /\ f[i] \in at
    BY <1>3, <2>5, <2>7, <2>8
  <2>10. f[i] \in Nat /\ g[i] \in Nat
    BY <2>4, <2>9
  <2>11. f[i] \in bt
    <3>1. SUFFICES ASSUME f[i] \notin bt PROVE FALSE
      OBVIOUS
    <3>2. g[i] < f[i]
      BY <1>0, <2>4, <2>9, <3>1
    <3> QED
      BY <2>9, <2>10, <3>2
  <2>12. PICK l \in 1 .. n : g[l] = f[i]
    BY <1>4, <2>11
  <2>13. l < i
    <3>1. SUFFICES ASSUME i < l \/ i = l PROVE FALSE
      BY <1>5, <2>3
    <3>2. CASE i = l
      BY <2>9, <2>10, <2>12, <3>2
    <3>3. CASE i < l
      <4>1. g[i] < g[l]
        BY <1>4, <2>3, <3>3
      <4> QED
        BY <2>9, <2>10, <2>12, <4>1
    <3> QED
      BY <3>1, <3>2, <3>3
  <2>14. l \in 1 .. m /\ f[l] = g[l]
    BY <2>3, <2>13
  <2>15. f[l] < f[i]
    BY <1>3, <2>7, <2>13, <2>14
  <2> QED
    BY <2>10, <2>12, <2>14, <2>15
<1> HIDE DEF Bad
<1>7. ASSUME NEW i \in 1 .. n PROVE i <= m /\ u[i] = t[i]
  <2>1. i \in 1 .. m /\ f[i] = g[i]
    BY <1>6 DEF Bad
  <2> QED
    BY <1>3, <1>4, <1>5, <2>1
<1> QED
  BY <1>7 DEF m, n, Begins

\* There is one way to take the same places.
LEMMA ThinsOnce ==
  ASSUME NEW S, NEW s, NEW t \in Seq(S), NEW u \in Seq(S), NEW at \in SUBSET Nat,
         Thins(t, s, at), Thins(u, s, at)
  PROVE  t = u
<1> DEFINE m == Len(t)
           n == Len(u)
<1>1. m \in Nat /\ n \in Nat
  OBVIOUS
<1>a. Foremost(at, at)
  BY DEF Foremost
<1>2. \A i \in 1 .. n : i <= m /\ u[i] = t[i]
  BY <1>1, <1>a, ThinsEarlier DEF Begins
<1>3. \A i \in 1 .. m : i <= n /\ t[i] = u[i]
  BY <1>1, <1>a, ThinsEarlier DEF Begins
<1>4. m = n
  <2> HIDE DEF m, n
  <2>1. CASE m < n
    BY <1>1, <1>2, <2>1
  <2>2. CASE n < m
    BY <1>1, <1>3, <2>2
  <2> QED
    BY <1>1, <2>1, <2>2
<1> QED
  BY <1>2, <1>4

\* Taken from what was taken.
LEMMA ThinsTwice ==
  ASSUME NEW s, NEW t, NEW u, NEW at \in SUBSET Nat, NEW bt \in SUBSET Nat, NEW f,
         Len(t) \in Nat, Len(u) \in Nat,
         Through(f, t, s, at), Thins(u, t, bt), bt \subseteq 1 .. Len(t)
  PROVE  Thins(u, s, {f[i] : i \in bt})
<1>1. PICK g : Through(g, u, t, bt)
  BY DEF Thins
<1> DEFINE m == Len(t)
           n == Len(u)
           ct == {f[i] : i \in bt}
           h == [i \in 1 .. n |-> f[g[i]]]
<1>2. /\ f \in [1 .. m -> at]
      /\ \A i, j \in 1 .. m : i < j => f[i] < f[j]
      /\ \A p \in at : \E i \in 1 .. m : f[i] = p
      /\ \A i \in 1 .. m : t[i] = s[f[i]]
  BY DEF Through
<1>3. /\ g \in [1 .. n -> bt]
      /\ \A i, j \in 1 .. n : i < j => g[i] < g[j]
      /\ \A p \in bt : \E i \in 1 .. n : g[i] = p
      /\ \A i \in 1 .. n : u[i] = t[g[i]]
  BY <1>1 DEF Through
<1>4. m \in Nat /\ n \in Nat /\ bt \subseteq 1 .. m
  OBVIOUS
<1>5. \A i \in 1 .. n : h[i] = f[g[i]] /\ g[i] \in bt /\ g[i] \in 1 .. m /\ h[i] \in ct
  BY <1>3, <1>4
<1>6. h \in [1 .. n -> ct]
  BY <1>5
<1> HIDE DEF m, n, h
<1>7. \A i, j \in 1 .. n : i < j => h[i] < h[j]
  BY <1>2, <1>3, <1>5
<1>8. ASSUME NEW p \in ct PROVE \E i \in 1 .. n : h[i] = p
  <2>1. PICK q \in bt : p = f[q]
    BY <1>8
  <2>2. PICK i \in 1 .. n : g[i] = q
    BY <1>3
  <2> QED
    BY <1>5, <2>1, <2>2
<1> HIDE DEF ct
<1>9. \A i \in 1 .. n : u[i] = s[h[i]]
  BY <1>2, <1>3, <1>5
<1>10. Through(h, u, s, ct)
  BY <1>6, <1>7, <1>8, <1>9 DEF Through, n
<1> QED
  BY <1>10 DEF Thins, ct

\* No more is taken than there are places.
LEMMA ThinsShorter ==
  ASSUME NEW s, NEW t, NEW n \in Nat, NEW at \in SUBSET (1 .. n), Len(t) \in Nat, Thins(t, s, at)
  PROVE  Len(t) <= n
<1>1. PICK f : Through(f, t, s, at)
  BY DEF Thins
<1> DEFINE m == Len(t)
           Bad == {i \in 1 .. m : f[i] < i}
<1>2. /\ \A i \in 1 .. m : f[i] \in at
      /\ \A i, j \in 1 .. m : i < j => f[i] < f[j]
  BY <1>1 DEF Through
<1>3. m \in Nat /\ \A i \in 1 .. m : f[i] \in 1 .. n
  BY <1>2
<1> HIDE DEF m
<1>4. ASSUME Bad # {} PROVE FALSE
  <2>0. Bad \in SUBSET Nat
    BY <1>3
  <2>1. PICK i \in Bad : \A j \in Bad : i <= j
    BY <1>4, <2>0, LeastNumber
  <2>2. i \in 1 .. m /\ f[i] < i /\ f[i] \in 1 .. n
    BY <1>3
  <2>3. i - 1 \in 1 .. m /\ i - 1 < i
    BY <1>3, <2>2
  <2>4. f[i - 1] < f[i] /\ f[i - 1] \in 1 .. n
    BY <1>2, <1>3, <2>2, <2>3
  <2>5. i - 1 \in Bad
    BY <1>3, <2>2, <2>3, <2>4
  <2> QED
    BY <1>3, <2>1, <2>2, <2>5
<1>5. CASE m = 0
  BY <1>3, <1>5 DEF m
<1>6. CASE m # 0
  <2>1. m \in 1 .. m
    BY <1>3, <1>6
  <2>2. f[m] \in 1 .. n /\ ~ (f[m] < m)
    BY <1>3, <1>4, <2>1
  <2> QED
    BY <1>3, <2>2 DEF m
<1> QED
  BY <1>5, <1>6

\* Where the letters are.
LetterPlaces(s) == {i \in 1 .. Len(s) : s[i] \in Letters}

LEMMA LettersAre ==
  ASSUME NEW S, NEW s \in Seq(S)
  PROVE  /\ LettersOf(s) \in Seq(S) /\ Thins(LettersOf(s), s, LetterPlaces(s))
         /\ LettersOf(s) = <<>> <=> LetterPlaces(s) = {}
<1> DEFINE at == LetterPlaces(s)
           t == LettersOf(s)
<1>0. DOMAIN s = 1 .. Len(s)
  OBVIOUS
<1>1. t = Only(s, at)
  BY <1>0 DEF LettersOf, LetterPlaces
<1>2. at \in SUBSET Nat /\ \A i \in at : i \in 1 .. Len(s)
  BY DEF LetterPlaces
<1> HIDE DEF at, t
<1>3. t \in Seq(S) /\ Thins(t, s, at)
  BY <1>1, <1>2, OnlyIs
<1>4. PICK f : Through(f, t, s, at)
  BY <1>3 DEF Thins
<1>5. CASE t = <<>>
  <2>1. Len(t) = 0
    BY <1>5
  <2>2. at = {}
    BY <1>4, <2>1 DEF Through
  <2> QED
    BY <1>3, <1>5, <2>2 DEF t, at
<1>6. CASE t # <<>>
  <2>1. 1 \in 1 .. Len(t)
    BY <1>3, <1>6
  <2>2. f[1] \in at
    BY <1>4, <2>1 DEF Through
  <2> QED
    BY <1>3, <1>6, <2>2 DEF t, at
<1> QED
  BY <1>5, <1>6

\* A character that is not a letter may become another.
LEMMA LettersAlike ==
  ASSUME NEW S, NEW s \in Seq(S), NEW t \in Seq(S), Len(t) = Len(s),
         \A i \in 1 .. Len(s) : t[i] = s[i] \/ (s[i] \notin Letters /\ t[i] \notin Letters)
  PROVE  LettersOf(t) = LettersOf(s)
<1>1. LettersOf(t) \in Seq(S) /\ Thins(LettersOf(t), t, LetterPlaces(t))
  BY LettersAre
<1>2. LettersOf(s) \in Seq(S) /\ Thins(LettersOf(s), s, LetterPlaces(s))
  BY LettersAre
<1>3. LetterPlaces(t) = LetterPlaces(s) /\ \A i \in LetterPlaces(s) : t[i] = s[i]
  BY DEF LetterPlaces
<1>4. LetterPlaces(s) \in SUBSET Nat
  BY DEF LetterPlaces
<1>5. PICK f : Through(f, LettersOf(t), t, LetterPlaces(s))
  BY <1>1, <1>3 DEF Thins
<1>6. Through(f, LettersOf(t), s, LetterPlaces(s))
  BY <1>3, <1>5 DEF Through
<1>7. Thins(LettersOf(t), s, LetterPlaces(s))
  BY <1>6 DEF Thins
<1> QED
  BY <1>1, <1>2, <1>4, <1>7, ThinsOnce

\* The letters of what was taken are the letters taken.
LEMMA LettersTaken ==
  ASSUME NEW S, NEW s \in Seq(S), NEW t \in Seq(S), NEW at \in SUBSET (1 .. Len(s)), Thins(t, s, at)
  PROVE  Thins(LettersOf(t), s, LetterPlaces(s) \cap at)
<1>1. LettersOf(t) \in Seq(S) /\ Thins(LettersOf(t), t, LetterPlaces(t))
  BY LettersAre
<1>2. PICK f : Through(f, t, s, at)
  BY DEF Thins
<1>3. /\ f \in [1 .. Len(t) -> at]
      /\ \A p \in at : \E i \in 1 .. Len(t) : f[i] = p
      /\ \A i \in 1 .. Len(t) : t[i] = s[f[i]]
  BY <1>2 DEF Through
<1> DEFINE bt == LetterPlaces(t)
           ct == {f[i] : i \in bt}
           dt == LetterPlaces(s) \cap at
<1>4. at \in SUBSET Nat /\ bt \in SUBSET Nat /\ bt \subseteq 1 .. Len(t)
  BY DEF LetterPlaces
<1>5. Len(t) \in Nat /\ Len(LettersOf(t)) \in Nat
  BY <1>1
<1>6. Thins(LettersOf(t), s, ct)
  <2> HIDE DEF bt
  <2>1. Thins(LettersOf(t), t, bt)
    BY <1>1 DEF bt
  <2> QED
    BY <1>2, <1>4, <1>5, <2>1, ThinsTwice
<1>7. \A p \in ct : p \in dt
  BY <1>3 DEF LetterPlaces
<1>8. ASSUME NEW p \in dt PROVE p \in ct
  <2>1. PICK i \in 1 .. Len(t) : f[i] = p
    BY <1>3
  <2>2. i \in bt
    BY <1>3, <2>1 DEF LetterPlaces
  <2> QED
    BY <2>1, <2>2
<1>9. ct = dt
  <2> HIDE DEF ct, dt
  <2> QED
    BY <1>7, <1>8
<1> QED
  BY <1>6, <1>9

\* Where every letter is taken, they all remain.
LEMMA LettersKept ==
  ASSUME NEW S, NEW s \in Seq(S), NEW t \in Seq(S), NEW at \in SUBSET (1 .. Len(s)), Thins(t, s, at),
         \A i \in 1 .. Len(s) : s[i] \in Letters => i \in at
  PROVE  LettersOf(t) = LettersOf(s)
<1>1. LetterPlaces(s) \cap at = LetterPlaces(s) /\ LetterPlaces(s) \in SUBSET Nat
  BY DEF LetterPlaces
<1>2. Thins(LettersOf(t), s, LetterPlaces(s))
  BY <1>1, LettersTaken
<1>3. Thins(LettersOf(s), s, LetterPlaces(s)) /\ LettersOf(s) \in Seq(S) /\ LettersOf(t) \in Seq(S)
  BY LettersAre
<1> QED
  BY <1>1, <1>2, <1>3, ThinsOnce

\* Where the first of them are taken, those remain.
LEMMA LettersCut ==
  ASSUME NEW S, NEW s \in Seq(S), NEW t \in Seq(S), NEW at \in SUBSET (1 .. Len(s)), Thins(t, s, at),
         \A p \in (1 .. Len(s)) \ at : s[p] \in Letters => \A q \in at : q < p
  PROVE  LettersOf(t) = Only(LettersOf(s), 1 .. Len(LettersOf(t)))
<1> DEFINE l == LettersOf(s)
           u == LettersOf(t)
           m == Len(l)
           n == Len(u)
           ls == LetterPlaces(s)
           bt == ls \cap at
<1>1. l \in Seq(S) /\ u \in Seq(S) /\ Thins(l, s, ls)
  BY LettersAre
<1>2. Thins(u, s, bt)
  BY LettersTaken
<1>3. m \in Nat /\ n \in Nat
  BY <1>1
<1>4. ls \in SUBSET Nat /\ Foremost(bt, ls)
  BY DEF LetterPlaces, Foremost
<1> HIDE DEF l, u, bt, ls
<1>5. \A i \in 1 .. n : i <= m /\ u[i] = l[i]
  BY <1>1, <1>2, <1>3, <1>4, ThinsEarlier DEF Begins
<1>6. Thins(u, l, 1 .. n)
  <2> DEFINE g == [i \in 1 .. n |-> i]
  <2>1. Through(g, u, l, 1 .. n)
    BY <1>3, <1>5 DEF Through
  <2> QED
    BY <2>1 DEF Thins
<1>7. 1 .. n \in SUBSET Nat /\ \A i \in 1 .. n : i \in 1 .. m
  BY <1>3, <1>5
<1>8. Only(l, 1 .. n) \in Seq(S) /\ Thins(Only(l, 1 .. n), l, 1 .. n)
  BY <1>1, <1>7, OnlyIs
<1>9. u = Only(l, 1 .. n)
  BY <1>1, <1>6, <1>7, <1>8, ThinsOnce
<1> QED
  BY <1>9 DEF u, l

\* A function on 1 .. n is a sequence of length n.
LEMMA SequenceOf ==
  ASSUME NEW S, NEW m \in Nat, NEW f \in [1 .. m -> S]
  PROVE  f \in Seq(S) /\ Len(f) = m /\ DOMAIN f = 1 .. m
  OBVIOUS

\* What is thinned.
LEMMA Thinned ==
  ASSUME NEW S, NEW s \in Seq(S), NEW at \in SUBSET (1 .. Len(s)), NEW t, t = Only(s, at)
  PROVE  /\ t \in Seq(S) /\ Thins(t, s, at) /\ Len(t) \in Nat /\ Len(t) <= Len(s)
         /\ \A i \in 1 .. Len(t) : \E p \in at : t[i] = s[p]
         /\ \A p \in at : \E i \in 1 .. Len(t) : t[i] = s[p]
<1>1. at \in SUBSET Nat /\ \A i \in at : i \in 1 .. Len(s)
  OBVIOUS
<1>2. t \in Seq(S) /\ Thins(t, s, at)
  BY <1>1, OnlyIs
<1>3. Len(t) \in Nat /\ Len(s) \in Nat
  BY <1>2
<1>4. Len(t) <= Len(s)
  <2> DEFINE n == Len(s)
  <2>1. n \in Nat /\ at \in SUBSET (1 .. n)
    BY <1>3
  <2> HIDE DEF n
  <2>2. Len(t) <= n
    BY <1>2, <1>3, <2>1, ThinsShorter
  <2> QED
    BY <2>2 DEF n
<1>5. PICK f : Through(f, t, s, at)
  BY <1>2 DEF Thins
<1>6. \A i \in 1 .. Len(t) : f[i] \in at /\ t[i] = s[f[i]]
  BY <1>5 DEF Through
<1>7. \A p \in at : \E i \in 1 .. Len(t) : f[i] = p
  BY <1>5 DEF Through
<1>8. \A i \in 1 .. Len(t) : \E p \in at : t[i] = s[p]
  BY <1>6
<1>9. \A p \in at : \E i \in 1 .. Len(t) : t[i] = s[p]
  BY <1>6, <1>7
<1> QED
  BY <1>2, <1>3, <1>4, <1>8, <1>9

\* Composed, a text is no longer, and has letters if it had.
LEMMA NfcIs ==
  ASSUME NEW s \in Seq(CharKinds)
  PROVE  /\ Nfc(s) \in Seq(CharKinds) /\ Len(Nfc(s)) <= Len(s)
         /\ LettersOf(Nfc(s)) = <<>> <=> LettersOf(s) = <<>>
<1> DEFINE Followed(i) == Stands(s, i + 1, {"accent"})
           r == [i \in 1 .. Len(s) |-> IF s[i] = "e" /\ Followed(i) THEN "composed" ELSE s[i]]
           at == {i \in 1 .. Len(s) : ~ (s[i] = "accent" /\ Stands(s, i - 1, {"e"}))}
           t == Only(r, at)
<1>1. DOMAIN s = 1 .. Len(s) /\ Len(s) \in Nat
  OBVIOUS
<1>2. Nfc(s) = t
  BY <1>1 DEF Nfc
<1>3. \A i \in 1 .. Len(s) : r[i] = IF s[i] = "e" /\ Followed(i) THEN "composed" ELSE s[i]
  OBVIOUS
<1>4. r \in [1 .. Len(s) -> CharKinds]
  BY DEF CharKinds
<1>5. r \in Seq(CharKinds) /\ Len(r) = Len(s)
  BY <1>1, <1>4, SequenceOf
<1>6. \A i \in 1 .. Len(s) : r[i] \in Letters <=> s[i] \in Letters
  BY <1>3 DEF Letters
<1>7. at \in SUBSET (1 .. Len(r))
  BY <1>5
<1>8. ASSUME NEW p \in 1 .. Len(s), p \notin at PROVE s[p] = "accent" /\ p - 1 \in at /\ s[p - 1] = "e"
  <2>1. s[p] = "accent" /\ p - 1 \in 1 .. Len(s) /\ s[p - 1] = "e"
    BY <1>1, <1>8 DEF Stands
  <2> QED
    BY <2>1
<1> HIDE DEF r, at, t
<1>9. /\ t \in Seq(CharKinds) /\ Len(t) <= Len(r)
      /\ \A i \in 1 .. Len(t) : \E p \in at : t[i] = r[p]
      /\ \A p \in at : \E i \in 1 .. Len(t) : t[i] = r[p]
  BY <1>5, <1>7, Thinned DEF t
<1>10. ASSUME NEW i \in LetterPlaces(t) PROVE LetterPlaces(s) # {}
  <2>1. i \in 1 .. Len(t) /\ t[i] \in Letters
    BY DEF LetterPlaces
  <2>2. PICK p \in at : t[i] = r[p]
    BY <1>9, <2>1
  <2>3. p \in 1 .. Len(s) /\ s[p] \in Letters
    BY <1>5, <1>6, <1>7, <2>1, <2>2
  <2> QED
    BY <2>3 DEF LetterPlaces
<1>11. ASSUME NEW p \in at, s[p] \in Letters PROVE LetterPlaces(t) # {}
  <2>1. PICK i \in 1 .. Len(t) : t[i] = r[p]
    BY <1>9
  <2>2. t[i] \in Letters
    BY <1>5, <1>6, <1>7, <1>11, <2>1
  <2> QED
    BY <2>2 DEF LetterPlaces
<1>12. ASSUME NEW p \in LetterPlaces(s) PROVE LetterPlaces(t) # {}
  <2>1. p \in 1 .. Len(s) /\ s[p] \in Letters
    BY DEF LetterPlaces
  <2>2. CASE p \in at
    BY <1>11, <2>1, <2>2
  <2>3. CASE p \notin at
    <3>1. p - 1 \in at /\ s[p - 1] = "e"
      BY <1>8, <2>1, <2>3
    <3>2. "e" \in Letters
      BY DEF Letters
    <3> QED
      BY <1>11, <3>1, <3>2
  <2> QED
    BY <2>2, <2>3
<1>13. LettersOf(t) = <<>> <=> LetterPlaces(t) = {}
  BY <1>9, LettersAre
<1>14. LettersOf(s) = <<>> <=> LetterPlaces(s) = {}
  BY LettersAre
<1> QED
  BY <1>2, <1>5, <1>9, <1>10, <1>12, <1>13, <1>14

\* What the cleaning establishes on its way: no control and no tab, no two
\* blanks and no three newlines in a row.
Clean(s) == \A i \in 1 .. Len(s) : s[i] \notin {"control", "tab"}
OneBlank(s) == \A i \in 1 .. Len(s) - 1 : ~ (s[i] = "blank" /\ s[i + 1] = "blank")
TwoLines(s) == \A i \in 1 .. Len(s) - 2 : ~ (s[i] = "newline" /\ s[i + 1] = "newline" /\ s[i + 2] = "newline")
NoLine(s) == \A i \in 1 .. Len(s) : s[i] # "newline"

\* A text made of another: the same letters, and no longer.
MadeOf(t, s) ==
  /\ t \in Seq(CharKinds) /\ Len(t) \in Nat /\ Len(t) <= Len(s)
  /\ LettersOf(t) = LettersOf(s)

LEMMA DropControlsIs ==
  ASSUME NEW s \in Seq(CharKinds)
  PROVE  /\ MadeOf(DropControls(s), s)
         /\ \A i \in 1 .. Len(DropControls(s)) : DropControls(s)[i] # "control"
<1> DEFINE at == {i \in 1 .. Len(s) : s[i] # "control"}
           t == Only(s, at)
<1>1. DOMAIN s = 1 .. Len(s) /\ at \in SUBSET (1 .. Len(s))
  OBVIOUS
<1>2. DropControls(s) = t
  BY <1>1 DEF DropControls
<1>3. \A p \in at : s[p] # "control"
  OBVIOUS
<1>4. \A i \in 1 .. Len(s) : s[i] \in Letters => i \in at
  BY DEF Letters
<1> HIDE DEF at, t
<1>5. /\ t \in Seq(CharKinds) /\ Thins(t, s, at) /\ Len(t) \in Nat /\ Len(t) <= Len(s)
      /\ \A i \in 1 .. Len(t) : \E p \in at : t[i] = s[p]
  BY <1>1, Thinned DEF t
<1>6. LettersOf(t) = LettersOf(s)
  BY <1>1, <1>4, <1>5, LettersKept
<1> QED
  BY <1>2, <1>3, <1>5, <1>6 DEF MadeOf

\* Two neighbours of what is taken had nothing between them that was.
LEMMA Neighbours ==
  ASSUME NEW s, NEW t, NEW at \in SUBSET Nat, NEW f, Through(f, t, s, at), Len(t) \in Nat,
         NEW i \in 1 .. Len(t) - 1
  PROVE  /\ f[i] \in at /\ f[i + 1] \in at /\ f[i] < f[i + 1]
         /\ \A x \in at : ~ (f[i] < x /\ x < f[i + 1])
<1> DEFINE n == Len(t)
<1>1. /\ \A j \in 1 .. n : f[j] \in at /\ f[j] \in Nat /\ t[j] = s[f[j]]
      /\ \A j, k \in 1 .. n : j < k => f[j] < f[k]
      /\ \A x \in at : \E j \in 1 .. n : f[j] = x
  BY DEF Through
<1>2. n \in Nat /\ i \in 1 .. n /\ i + 1 \in 1 .. n /\ i < i + 1
  OBVIOUS
<1> HIDE DEF n
<1>3. ASSUME NEW x \in at, f[i] < x, x < f[i + 1] PROVE FALSE
  <2>1. PICK j \in 1 .. n : f[j] = x
    BY <1>1
  <2>2. CASE j < i
    <3>1. f[j] < f[i] /\ f[i] \in Nat /\ f[j] \in Nat
      BY <1>1, <1>2, <2>2
    <3> QED
      BY <1>3, <2>1, <3>1
  <2>3. CASE i + 1 < j
    <3>1. f[i + 1] < f[j] /\ f[i + 1] \in Nat /\ f[j] \in Nat
      BY <1>1, <1>2, <2>3
    <3> QED
      BY <1>3, <2>1, <3>1
  <2>4. CASE j = i \/ j = i + 1
    <3>1. f[i] \in Nat /\ f[i + 1] \in Nat
      BY <1>1, <1>2
    <3>2. CASE j = i
      BY <1>3, <2>1, <3>1, <3>2
    <3>3. CASE j = i + 1
      BY <1>3, <2>1, <3>1, <3>3
    <3> QED
      BY <2>4, <3>2, <3>3
  <2> QED
    BY <1>2, <2>2, <2>3, <2>4
<1> QED
  BY <1>1, <1>2, <1>3

\* Squashed, blanks and tabs are single blanks.
LEMMA SquashBlanksIs ==
  ASSUME NEW s \in Seq(CharKinds), \A i \in 1 .. Len(s) : s[i] # "control"
  PROVE  /\ MadeOf(SquashBlanks(s), s) /\ Clean(SquashBlanks(s)) /\ OneBlank(SquashBlanks(s))
         /\ NoLine(s) => NoLine(SquashBlanks(s))
<1> DEFINE B == {"blank", "tab"}
           r == [i \in 1 .. Len(s) |-> IF s[i] = "tab" THEN "blank" ELSE s[i]]
           at == {i \in 1 .. Len(s) : ~ \A j \in {i - 1, i} : Stands(s, j, B)}
           t == Only(r, at)
<1>1. DOMAIN s = 1 .. Len(s) /\ Len(s) \in Nat
  OBVIOUS
<1>2. SquashBlanks(s) = t
  BY <1>1 DEF SquashBlanks
<1>3. \A i \in 1 .. Len(s) : r[i] = IF s[i] = "tab" THEN "blank" ELSE s[i]
  OBVIOUS
<1>4. r \in [1 .. Len(s) -> CharKinds]
  BY DEF CharKinds
<1>5. r \in Seq(CharKinds) /\ Len(r) = Len(s)
  BY <1>1, <1>4, SequenceOf
<1>6. at \in SUBSET (1 .. Len(r))
  BY <1>5
<1>7. \A i \in 1 .. Len(s) : i \in at <=> ~ (i - 1 \in 1 .. Len(s) /\ s[i - 1] \in B /\ s[i] \in B)
  BY <1>1 DEF Stands
<1>8. \A i \in 1 .. Len(s) : s[i] \in B <=> r[i] = "blank"
  BY <1>3
<1>9. \A i \in 1 .. Len(s) : r[i] # "control" /\ r[i] # "tab" /\ (s[i] # "newline" => r[i] # "newline")
  BY <1>3
<1>10. \A i \in 1 .. Len(s) : r[i] = s[i] \/ (s[i] \notin Letters /\ r[i] \notin Letters)
  BY <1>3 DEF Letters
<1>11. \A i \in 1 .. Len(s) : r[i] \in Letters => i \in at
  BY <1>7, <1>8 DEF Letters
<1> HIDE DEF r, at, t
<1>12. /\ t \in Seq(CharKinds) /\ Thins(t, r, at) /\ Len(t) \in Nat /\ Len(t) <= Len(r)
       /\ \A i \in 1 .. Len(t) : \E p \in at : t[i] = r[p]
  BY <1>5, <1>6, Thinned DEF t
<1>13. LettersOf(t) = LettersOf(r) /\ LettersOf(r) = LettersOf(s)
  <2>1. \A i \in 1 .. Len(r) : r[i] \in Letters => i \in at
    BY <1>5, <1>11
  <2>2. LettersOf(t) = LettersOf(r)
    BY <1>5, <1>6, <1>12, <2>1, LettersKept
  <2>3. LettersOf(r) = LettersOf(s)
    BY <1>5, <1>10, LettersAlike
  <2> QED
    BY <2>2, <2>3
<1>14. MadeOf(t, s)
  BY <1>5, <1>12, <1>13 DEF MadeOf
<1>15. Clean(t) /\ (NoLine(s) => NoLine(t))
  BY <1>5, <1>6, <1>9, <1>12 DEF Clean, NoLine
<1>16. PICK f : Through(f, t, r, at)
  BY <1>12 DEF Thins
<1>17. at \in SUBSET Nat
  BY <1>6
<1>18. ASSUME NEW i \in 1 .. Len(t) - 1, t[i] = "blank", t[i + 1] = "blank" PROVE FALSE
  <2> DEFINE p == f[i]
             q == f[i + 1]
  <2>0. Len(t) \in Nat
    BY <1>12
  <2>1. p \in at /\ q \in at /\ p < q
    BY <1>16, <1>17, <2>0, Neighbours
  <2>2. p \in at /\ q \in at /\ p < q /\ r[p] = "blank" /\ r[q] = "blank"
    <3>1. i \in 1 .. Len(t) /\ i + 1 \in 1 .. Len(t)
      BY <2>0
    <3>2. t[i] = r[p] /\ t[i + 1] = r[q]
      BY <1>16, <3>1 DEF Through
    <3> QED
      BY <1>18, <2>1, <3>2
  <2>3. \A x \in at : ~ (p < x /\ x < q)
    BY <1>12, <1>16, <1>17, Neighbours
  <2> HIDE DEF p, q
  <2>4. p \in 1 .. Len(s) /\ q \in 1 .. Len(s)
    BY <1>5, <1>6, <2>2
  <2>5. s[p] \in B /\ s[q] \in B
    BY <1>8, <2>2, <2>4
  <2>6. q - 1 \in 1 .. Len(s)
    BY <1>1, <2>2, <2>4
  <2>7. s[q - 1] \notin B
    BY <1>7, <2>2, <2>4, <2>5, <2>6
  <2>8. q - 1 # p
    BY <2>5, <2>7
  <2>9. q - 1 \notin at
    BY <1>1, <2>2, <2>3, <2>4, <2>6, <2>8
  <2> QED
    BY <1>7, <2>6, <2>7, <2>9
<1>19. OneBlank(t)
  BY <1>18 DEF OneBlank
<1> QED
  BY <1>2, <1>14, <1>15, <1>19

\* Squashed, three newlines and more are two, and no blanks come together.
LEMMA SquashLinesIs ==
  ASSUME NEW s \in Seq(CharKinds), Clean(s), OneBlank(s)
  PROVE  /\ MadeOf(SquashLines(s), s) /\ Clean(SquashLines(s)) /\ OneBlank(SquashLines(s))
         /\ TwoLines(SquashLines(s))
<1> DEFINE L == {"newline"}
           Dropped(i) == \A j \in {i - 2, i - 1, i} : Stands(s, j, L)
           at == {i \in 1 .. Len(s) : ~ Dropped(i)}
           t == Only(s, at)
<1>1. DOMAIN s = 1 .. Len(s) /\ Len(s) \in Nat /\ at \in SUBSET (1 .. Len(s)) /\ at \in SUBSET Nat
  OBVIOUS
<1>2. SquashLines(s) = t
  BY <1>1 DEF SquashLines
<1>3. \A i \in 1 .. Len(s) : i \in at <=>
        ~ (i - 2 \in 1 .. Len(s) /\ s[i - 2] = "newline" /\ s[i - 1] = "newline" /\ s[i] = "newline")
  <2> SUFFICES ASSUME NEW i \in 1 .. Len(s)
               PROVE  Dropped(i) <=>
        (i - 2 \in 1 .. Len(s) /\ s[i - 2] = "newline" /\ s[i - 1] = "newline" /\ s[i] = "newline")
    OBVIOUS
  <2>1. Dropped(i) <=> Stands(s, i - 2, L) /\ Stands(s, i - 1, L) /\ Stands(s, i, L)
    OBVIOUS
  <2>2. i - 2 \in 1 .. Len(s) => i - 1 \in 1 .. Len(s)
    BY <1>1
  <2> QED
    BY <1>1, <2>1, <2>2 DEF Stands
<1>4. \A i \in 1 .. Len(s) : s[i] \in Letters => i \in at
  BY <1>3 DEF Letters
<1> HIDE DEF at, t
<1>5. /\ t \in Seq(CharKinds) /\ Thins(t, s, at) /\ Len(t) \in Nat /\ Len(t) <= Len(s)
      /\ \A i \in 1 .. Len(t) : \E p \in at : t[i] = s[p]
  BY <1>1, Thinned DEF t
<1>6. LettersOf(t) = LettersOf(s)
  BY <1>1, <1>4, <1>5, LettersKept
<1>7. MadeOf(t, s)
  BY <1>5, <1>6 DEF MadeOf
<1>8. Clean(t)
  BY <1>1, <1>5 DEF Clean
<1>9. PICK f : Through(f, t, s, at)
  BY <1>5 DEF Thins
<1>10. \A i \in 1 .. Len(t) : f[i] \in at /\ f[i] \in 1 .. Len(s) /\ t[i] = s[f[i]]
  BY <1>1, <1>9 DEF Through
<1>11. Len(t) \in Nat
  BY <1>5
\* What stands before a character that was taken was taken, or is a newline.
<1>12. ASSUME NEW i \in 1 .. Len(t) - 1
       PROVE  \/ f[i] = f[i + 1] - 1
              \/ /\ f[i] < f[i + 1] - 1
                 /\ s[f[i + 1] - 1] = "newline" /\ s[f[i + 1] - 2] = "newline" /\ s[f[i + 1] - 3] = "newline"
  <2> DEFINE p == f[i]
             q == f[i + 1]
  <2>1. p \in at /\ q \in at /\ p < q /\ \A x \in at : ~ (p < x /\ x < q)
    BY <1>1, <1>9, <1>11, Neighbours
  <2> HIDE DEF p, q
  <2>2. p \in 1 .. Len(s) /\ q \in 1 .. Len(s)
    BY <1>1, <2>1
  <2>3. p = q - 1 \/ (p < q - 1 /\ q - 1 \in 1 .. Len(s) /\ q - 1 \notin at)
    BY <1>1, <2>1, <2>2
  <2>4. CASE p = q - 1
    BY <2>4 DEF p, q
  <2>5. CASE p < q - 1 /\ q - 1 \in 1 .. Len(s) /\ q - 1 \notin at
    <3>1. (q - 1) - 2 = q - 3 /\ (q - 1) - 1 = q - 2
      BY <2>2
    <3>2. s[q - 3] = "newline" /\ s[q - 2] = "newline" /\ s[q - 1] = "newline"
      BY <1>3, <2>5, <3>1
    <3> QED
      BY <2>5, <3>2 DEF p, q
  <2> QED
    BY <2>3, <2>4, <2>5
<1>13. ASSUME NEW i \in 1 .. Len(t) - 1, t[i] = "blank", t[i + 1] = "blank" PROVE FALSE
  <2> DEFINE p == f[i]
             q == f[i + 1]
  <2>1. i \in 1 .. Len(t) /\ i + 1 \in 1 .. Len(t)
    BY <1>11
  <2>2. p \in 1 .. Len(s) /\ q \in 1 .. Len(s) /\ s[p] = "blank" /\ s[q] = "blank"
    BY <1>10, <1>13, <2>1
  <2>3. \A x \in at : ~ (p < x /\ x < q)
    BY <1>1, <1>9, <1>11, Neighbours
  <2>4. p = q - 1 \/ p < q - 1
    BY <1>12
  <2> HIDE DEF p, q
  <2>5. CASE p = q - 1
    <3>1. p \in 1 .. Len(s) - 1 /\ p + 1 = q
      BY <1>1, <2>2, <2>5
    <3> QED
      BY <2>2, <3>1 DEF OneBlank
  <2>6. CASE p < q - 1
    <3>1. p + 1 \in 1 .. Len(s) /\ p < p + 1 /\ p + 1 < q /\ (p + 1) - 1 = p
      BY <1>1, <2>2, <2>6
    <3>2. p + 1 \notin at
      BY <2>3, <3>1
    <3>3. s[(p + 1) - 1] = "newline"
      BY <1>3, <3>1, <3>2
    <3> QED
      BY <2>2, <3>1, <3>3
  <2> QED
    BY <2>4, <2>5, <2>6
<1>14. ASSUME NEW i \in 1 .. Len(t) - 2, t[i] = "newline", t[i + 1] = "newline", t[i + 2] = "newline" PROVE FALSE
  <2> DEFINE o == f[i]
             p == f[i + 1]
             q == f[i + 2]
  <2>1. i \in 1 .. Len(t) /\ i + 1 \in 1 .. Len(t) /\ i + 2 \in 1 .. Len(t) /\ (i + 1) + 1 = i + 2
        /\ i \in 1 .. Len(t) - 1 /\ i + 1 \in 1 .. Len(t) - 1
    BY <1>11
  <2>2. /\ o \in 1 .. Len(s) /\ p \in 1 .. Len(s) /\ q \in 1 .. Len(s)
        /\ s[o] = "newline" /\ s[p] = "newline" /\ s[q] = "newline" /\ q \in at
    BY <1>10, <1>14, <2>1
  <2>3. o = p - 1 \/ (o < p - 1 /\ s[p - 1] = "newline")
    BY <1>12, <2>1
  <2>4. p = q - 1 \/ (p < q - 1 /\ s[q - 1] = "newline" /\ s[q - 2] = "newline")
    <3>1. f[i + 1] = f[(i + 1) + 1] - 1 \/ (f[i + 1] < f[(i + 1) + 1] - 1 /\ s[f[(i + 1) + 1] - 1] = "newline"
            /\ s[f[(i + 1) + 1] - 2] = "newline")
      BY <1>12, <2>1
    <3> QED
      BY <2>1, <3>1
  <2> HIDE DEF o, p, q
  <2>5. q - 2 \in 1 .. Len(s) /\ s[q - 2] = "newline" /\ s[q - 1] = "newline"
    <3>1. CASE p < q - 1 /\ s[q - 1] = "newline" /\ s[q - 2] = "newline"
      BY <1>1, <2>2, <3>1
    <3>2. CASE p = q - 1
      <4>1. p - 1 = q - 2
        BY <2>2, <3>2
      <4>2. s[p - 1] = "newline"
        BY <2>2, <2>3
      <4>3. q - 2 \in 1 .. Len(s)
        BY <1>1, <2>2, <2>3, <3>2
      <4> QED
        BY <2>2, <3>2, <4>1, <4>2, <4>3
    <3> QED
      BY <2>4, <3>1, <3>2
  <2> QED
    BY <1>3, <2>2, <2>5
<1> QED
  BY <1>2, <1>7, <1>8, <1>13, <1>14 DEF OneBlank, TwoLines

\* What was established holds of a slice.
Settled(s) == Clean(s) /\ OneBlank(s) /\ TwoLines(s)

\* Places without a gap.
Gapless(at) == \A p, q \in at : \A x \in p .. q : x \in at

\* In a slice, neighbours are neighbours.
LEMMA SliceSteps ==
  ASSUME NEW s, NEW t, NEW at \in SUBSET Nat, NEW f, Through(f, t, s, at), Len(t) \in Nat,
         Gapless(at), NEW i \in 1 .. Len(t) - 1
  PROVE  f[i + 1] = f[i] + 1
<1> DEFINE p == f[i]
           q == f[i + 1]
<1>1. p \in at /\ q \in at /\ p < q /\ \A x \in at : ~ (p < x /\ x < q)
  BY Neighbours
<1> HIDE DEF p, q
<1>2. p \in Nat /\ q \in Nat
  BY <1>1
<1>3. p + 1 \in p .. q /\ p < p + 1
  BY <1>1, <1>2
<1>4. p + 1 \in at
  BY <1>1, <1>3 DEF Gapless
<1>5. q = p + 1
  BY <1>1, <1>2, <1>4
<1> QED
  BY <1>5 DEF p, q

LEMMA SliceSettled ==
  ASSUME NEW s \in Seq(CharKinds), NEW at \in SUBSET (1 .. Len(s)), NEW t \in Seq(CharKinds),
         Thins(t, s, at), Gapless(at), Settled(s)
  PROVE  Settled(t)
<1>1. PICK f : Through(f, t, s, at)
  BY DEF Thins
<1>2. \A i \in 1 .. Len(t) : f[i] \in 1 .. Len(s) /\ t[i] = s[f[i]]
  BY <1>1 DEF Through
<1>3. Len(t) \in Nat /\ Len(s) \in Nat /\ at \in SUBSET Nat
  OBVIOUS
<1>4. \A i \in 1 .. Len(t) - 1 : f[i + 1] = f[i] + 1
  BY <1>1, <1>3, SliceSteps
<1>5. Clean(t)
  BY <1>2 DEF Settled, Clean
<1>6. ASSUME NEW i \in 1 .. Len(t) - 1, t[i] = "blank", t[i + 1] = "blank" PROVE FALSE
  <2>1. i \in 1 .. Len(t) /\ i + 1 \in 1 .. Len(t)
    BY <1>3
  <2>2. f[i] \in 1 .. Len(s) /\ f[i] + 1 \in 1 .. Len(s) /\ s[f[i]] = "blank" /\ s[f[i] + 1] = "blank"
    BY <1>2, <1>4, <1>6, <2>1
  <2>3. f[i] \in 1 .. Len(s) - 1
    BY <1>3, <2>2
  <2> QED
    BY <2>2, <2>3 DEF Settled, OneBlank
<1>7. ASSUME NEW i \in 1 .. Len(t) - 2, t[i] = "newline", t[i + 1] = "newline", t[i + 2] = "newline" PROVE FALSE
  <2>1. i \in 1 .. Len(t) /\ i + 1 \in 1 .. Len(t) /\ i + 2 \in 1 .. Len(t) /\ (i + 1) + 1 = i + 2
        /\ i \in 1 .. Len(t) - 1 /\ i + 1 \in 1 .. Len(t) - 1
    BY <1>3
  <2>2. f[i] \in 1 .. Len(s) /\ f[i + 1] \in 1 .. Len(s) /\ f[i + 2] \in 1 .. Len(s)
        /\ s[f[i]] = "newline" /\ s[f[i + 1]] = "newline" /\ s[f[i + 2]] = "newline"
    BY <1>2, <1>7, <2>1
  <2>3. f[i + 1] = f[i] + 1
    BY <1>4, <2>1
  <2>4. f[i + 2] = f[i + 1] + 1
    <3>1. f[(i + 1) + 1] = f[i + 1] + 1
      BY <1>4, <2>1
    <3> QED
      BY <2>1, <3>1
  <2>5. f[i + 2] = f[i] + 2 /\ f[i] \in 1 .. Len(s) - 2
    BY <1>3, <2>2, <2>3, <2>4
  <2> QED
    BY <2>2, <2>3, <2>5 DEF Settled, TwoLines
<1> QED
  BY <1>5, <1>6, <1>7 DEF Settled, OneBlank, TwoLines

\* A slice of a text without newlines has none.
LEMMA SliceLines ==
  ASSUME NEW s \in Seq(CharKinds), NEW at \in SUBSET (1 .. Len(s)), NEW t, Thins(t, s, at), NoLine(s)
  PROVE  NoLine(t)
<1>1. PICK f : Through(f, t, s, at)
  BY DEF Thins
<1>2. \A i \in 1 .. Len(t) : f[i] \in 1 .. Len(s) /\ t[i] = s[f[i]]
  BY <1>1 DEF Through
<1> QED
  BY <1>2 DEF NoLine

\* A text that begins, and one that ends, with something to read.
Opens(s) == s # <<>> => s[1] \notin Whitespace
Closes(s) == s # <<>> => s[Len(s)] \notin Whitespace

\* The first place taken is the first of the sequence taken, the last the last.
LEMMA Ends ==
  ASSUME NEW S, NEW s, NEW t \in Seq(S), NEW at \in SUBSET Nat, Thins(t, s, at)
  PROVE  /\ \A p \in at : (\A q \in at : p <= q) => t # <<>> /\ t[1] = s[p]
         /\ \A p \in at : (\A q \in at : q <= p) => t # <<>> /\ t[Len(t)] = s[p]
         /\ t # <<>> => at # {}
<1>1. PICK f : Through(f, t, s, at)
  BY DEF Thins
<1> DEFINE n == Len(t)
<1>2. n \in Nat /\ (t # <<>> <=> n # 0)
  OBVIOUS
<1>3. /\ \A i \in 1 .. n : f[i] \in at /\ f[i] \in Nat /\ t[i] = s[f[i]]
      /\ \A i, j \in 1 .. n : i < j => f[i] < f[j]
      /\ \A p \in at : \E i \in 1 .. n : f[i] = p
  BY <1>1 DEF Through
<1> HIDE DEF n
<1>4. ASSUME NEW p \in at, \A q \in at : p <= q PROVE t # <<>> /\ t[1] = s[p]
  <2>1. PICK i \in 1 .. n : f[i] = p
    BY <1>3
  <2>2. 1 \in 1 .. n /\ n # 0
    BY <1>2
  <2>3. p <= f[1] /\ p \in Nat /\ f[1] \in Nat
    BY <1>3, <1>4, <2>2
  <2>4. CASE i = 1
    BY <1>2, <1>3, <2>1, <2>2, <2>4
  <2>5. CASE 1 < i
    <3>1. f[1] < f[i]
      BY <1>3, <2>2, <2>5
    <3> QED
      BY <2>1, <2>3, <3>1
  <2> QED
    BY <1>2, <2>4, <2>5
<1>5. ASSUME NEW p \in at, \A q \in at : q <= p PROVE t # <<>> /\ t[n] = s[p]
  <2>1. PICK i \in 1 .. n : f[i] = p
    BY <1>3
  <2>2. n \in 1 .. n /\ n # 0
    BY <1>2
  <2>3. f[n] <= p /\ p \in Nat /\ f[n] \in Nat
    BY <1>3, <1>5, <2>2
  <2>4. CASE i = n
    BY <1>2, <1>3, <2>1, <2>2, <2>4
  <2>5. CASE i < n
    <3>1. f[i] < f[n]
      BY <1>3, <2>2, <2>5
    <3> QED
      BY <2>1, <2>3, <3>1
  <2> QED
    BY <1>2, <2>4, <2>5
<1>6. t # <<>> => at # {}
  <2>1. n # 0 => 1 \in 1 .. n
    BY <1>2
  <2> QED
    BY <1>2, <1>3, <2>1
<1> QED
  BY <1>4, <1>5, <1>6 DEF n

LEMMA GreatestPlace ==
  ASSUME NEW n \in Nat, NEW T \in SUBSET (1 .. n), T # {}
  PROVE  \E p \in T : \A q \in T : q <= p
<1> DEFINE U == {n - p : p \in T}
<1>1. U \in SUBSET Nat /\ U # {}
  <2>1. \A p \in T : n - p \in Nat
    OBVIOUS
  <2>2. PICK p \in T : TRUE
    OBVIOUS
  <2>3. n - p \in U
    OBVIOUS
  <2> QED
    BY <2>1, <2>3
<1>2. PICK u \in U : \A v \in U : u <= v
  <2> HIDE DEF U
  <2> QED
    BY <1>1, LeastNumber
<1>3. PICK p \in T : u = n - p
  OBVIOUS
<1>4. ASSUME NEW q \in T PROVE q <= p
  <2>1. n - p <= n - q
    BY <1>2, <1>3
  <2>2. p \in 1 .. n /\ q \in 1 .. n
    OBVIOUS
  <2> QED
    BY <2>1, <2>2
<1> QED
  BY <1>4

\* The ink of a text without controls and tabs is its letters.
LEMMA InkIs ==
  ASSUME NEW s \in Seq(CharKinds)
  PROVE  /\ LetterPlaces(s) \subseteq Ink(s) /\ Ink(s) \subseteq 1 .. Len(s)
         /\ Clean(s) => Ink(s) = LetterPlaces(s)
<1>1. DOMAIN s = 1 .. Len(s)
  OBVIOUS
<1>2. \A i \in 1 .. Len(s) : s[i] \in CharKinds
  OBVIOUS
<1>3. \A i \in 1 .. Len(s) : s[i] \in Letters => s[i] \notin Whitespace
  BY DEF Letters, Whitespace
<1>4. \A i \in 1 .. Len(s) : s[i] \notin Whitespace /\ s[i] \notin {"control", "tab"} => s[i] \in Letters
  BY <1>2 DEF Letters, Whitespace, CharKinds
<1>5. LetterPlaces(s) \subseteq Ink(s) /\ Ink(s) \subseteq 1 .. Len(s)
  BY <1>1, <1>3 DEF Ink, LetterPlaces
<1>6. ASSUME Clean(s) PROVE Ink(s) \subseteq LetterPlaces(s)
  BY <1>1, <1>4, <1>6 DEF Ink, LetterPlaces, Clean
<1> QED
  BY <1>5, <1>6

\* Stripped of what stands after its last ink.
LEMMA RStripIs ==
  ASSUME NEW s \in Seq(CharKinds), Settled(s)
  PROVE  /\ MadeOf(RStrip(s), s) /\ Settled(RStrip(s)) /\ Closes(RStrip(s))
         /\ NoLine(s) => NoLine(RStrip(s))
         /\ s # <<>> /\ Opens(s) => RStrip(s) # <<>> /\ Opens(RStrip(s))
<1> DEFINE I == Ink(s)
           n == Len(s)
           at == {i \in 1 .. n : \E j \in I : i <= j}
           t == Only(s, at)
<1>1. DOMAIN s = 1 .. n /\ n \in Nat
  OBVIOUS
<1>2. RStrip(s) = t
  BY <1>1 DEF RStrip
<1>3. at \in SUBSET (1 .. n) /\ at \in SUBSET Nat
  BY <1>1
<1>4. LetterPlaces(s) \subseteq I /\ I \subseteq 1 .. n
  BY InkIs
<1>5. \A i \in I : s[i] \notin Whitespace
  BY DEF Ink
<1>6. \A i \in 1 .. n : s[i] \notin Whitespace => i \in I
  BY <1>1 DEF Ink
<1> HIDE DEF I
<1>7. I \subseteq at
  BY <1>1, <1>4
<1>8. \A i \in 1 .. n : s[i] \in Letters => i \in at
  BY <1>4, <1>7 DEF LetterPlaces
<1>9. Gapless(at)
  <2> SUFFICES ASSUME NEW p \in at, NEW q \in at, NEW x \in p .. q PROVE x \in at
    BY DEF Gapless
  <2>1. PICK j \in I : q <= j
    OBVIOUS
  <2>2. p \in 1 .. n /\ q \in 1 .. n /\ j \in 1 .. n
    BY <1>4
  <2>3. x \in 1 .. n /\ x <= j
    BY <1>1, <2>1, <2>2
  <2> QED
    BY <2>3
<1>10. ASSUME at # {} PROVE \E q \in I : \A p \in at : p <= q
  <2>1. I # {}
    BY <1>10
  <2>2. PICK q \in I : \A p \in I : p <= q
    BY <1>1, <1>4, <2>1, GreatestPlace
  <2>3. ASSUME NEW p \in at PROVE p <= q
    <3>1. PICK j \in I : p <= j
      OBVIOUS
    <3>2. p \in 1 .. n /\ q \in 1 .. n /\ j \in 1 .. n /\ j <= q
      BY <1>4, <2>2
    <3> QED
      BY <1>1, <3>1, <3>2
  <2> QED
    BY <2>3
<1>11. ASSUME s # <<>>, Opens(s) PROVE 1 \in at /\ \A p \in at : 1 <= p
  <2>1. 1 \in 1 .. n
    BY <1>11
  <2>2. 1 \in I
    BY <1>6, <1>11, <2>1 DEF Opens
  <2> QED
    BY <1>1, <1>3, <1>7, <2>2
<1> HIDE DEF n, at, t
<1>12. t \in Seq(CharKinds) /\ Thins(t, s, at) /\ Len(t) \in Nat /\ Len(t) <= n
  BY <1>3, Thinned DEF t, n
<1>13. MadeOf(t, s)
  <2>1. LettersOf(t) = LettersOf(s)
    BY <1>3, <1>8, <1>12, LettersKept DEF n
  <2> QED
    BY <1>12, <2>1 DEF MadeOf, n
<1>14. Settled(t)
  BY <1>3, <1>9, <1>12, SliceSettled DEF n
<1>15. Closes(t)
  <2> SUFFICES ASSUME t # <<>> PROVE t[Len(t)] \notin Whitespace
    BY DEF Closes
  <2>1. at # {}
    BY <1>3, <1>12, Ends
  <2>2. PICK q \in I : \A p \in at : p <= q
    BY <1>10, <2>1
  <2>3. q \in at
    BY <1>7
  <2>4. t[Len(t)] = s[q]
    BY <1>3, <1>12, <2>2, <2>3, Ends
  <2> QED
    BY <1>5, <2>4
<1>16. NoLine(s) => NoLine(t)
  BY <1>3, <1>12, SliceLines DEF n
<1>17. ASSUME s # <<>>, Opens(s) PROVE t # <<>> /\ Opens(t)
  <2>1. 1 \in at /\ \A p \in at : 1 <= p
    BY <1>11, <1>17
  <2>2. t # <<>> /\ t[1] = s[1]
    BY <1>3, <1>12, <2>1, Ends
  <2> QED
    BY <1>17, <2>2 DEF Opens
<1> QED
  BY <1>2, <1>13, <1>14, <1>15, <1>16, <1>17

\* Stripped on both sides.
LEMMA StripIs ==
  ASSUME NEW s \in Seq(CharKinds), Settled(s)
  PROVE  /\ MadeOf(Strip(s), s) /\ Settled(Strip(s)) /\ Opens(Strip(s)) /\ Closes(Strip(s))
         /\ NoLine(s) => NoLine(Strip(s))
         /\ Strip(s) = <<>> <=> LettersOf(s) = <<>>
<1> DEFINE I == Ink(s)
           n == Len(s)
           at == {i \in 1 .. n : (\E j \in I : j <= i) /\ (\E j \in I : i <= j)}
           t == Only(s, at)
<1>1. DOMAIN s = 1 .. n /\ n \in Nat
  OBVIOUS
<1>2. Strip(s) = t
  BY <1>1 DEF Strip
<1>3. at \in SUBSET (1 .. n) /\ at \in SUBSET Nat
  BY <1>1
<1>4. LetterPlaces(s) = I /\ I \subseteq 1 .. n
  BY InkIs DEF Settled
<1>5. \A i \in I : s[i] \notin Whitespace
  BY DEF Ink
<1> HIDE DEF I
<1>6. I \subseteq at
  BY <1>1, <1>4
<1>7. \A i \in 1 .. n : s[i] \in Letters => i \in at
  BY <1>4, <1>6 DEF LetterPlaces
<1>8. Gapless(at)
  <2> SUFFICES ASSUME NEW p \in at, NEW q \in at, NEW x \in p .. q PROVE x \in at
    BY DEF Gapless
  <2>1. PICK i \in I : i <= p
    OBVIOUS
  <2>2. PICK j \in I : q <= j
    OBVIOUS
  <2>3. p \in 1 .. n /\ q \in 1 .. n /\ i \in 1 .. n /\ j \in 1 .. n
    BY <1>4
  <2>4. x \in 1 .. n /\ i <= x /\ x <= j
    BY <1>1, <2>1, <2>2, <2>3
  <2> QED
    BY <2>4
<1>9. ASSUME at # {} PROVE /\ \E q \in I : \A p \in at : p <= q
                           /\ \E q \in I : \A p \in at : q <= p
  <2>1. I # {} /\ I \in SUBSET Nat
    BY <1>1, <1>4, <1>9
  <2>2. PICK q \in I : \A p \in I : p <= q
    BY <1>1, <1>4, <2>1, GreatestPlace
  <2>3. PICK o \in I : \A p \in I : o <= p
    BY <2>1, LeastNumber
  <2>4. ASSUME NEW p \in at PROVE p <= q /\ o <= p
    <3>1. PICK j \in I : p <= j
      OBVIOUS
    <3>2. PICK i \in I : i <= p
      OBVIOUS
    <3>3. p \in 1 .. n /\ q \in 1 .. n /\ o \in 1 .. n /\ i \in 1 .. n /\ j \in 1 .. n /\ j <= q /\ o <= i
      BY <1>4, <2>2, <2>3
    <3> QED
      BY <1>1, <3>1, <3>2, <3>3
  <2> QED
    BY <2>4
<1>10. at # {} => I # {}
  OBVIOUS
<1> HIDE DEF n, at, t
<1>11. t \in Seq(CharKinds) /\ Thins(t, s, at) /\ Len(t) \in Nat /\ Len(t) <= n
  BY <1>3, Thinned DEF t, n
<1>12. MadeOf(t, s)
  <2>1. LettersOf(t) = LettersOf(s)
    BY <1>3, <1>7, <1>11, LettersKept DEF n
  <2> QED
    BY <1>11, <2>1 DEF MadeOf, n
<1>13. Settled(t)
  BY <1>3, <1>8, <1>11, SliceSettled DEF n
<1>14. ASSUME t # <<>> PROVE t[Len(t)] \notin Whitespace /\ t[1] \notin Whitespace
  <2>1. at # {}
    BY <1>3, <1>11, <1>14, Ends
  <2>2. PICK q \in I : \A p \in at : p <= q
    BY <1>9, <2>1
  <2>3. PICK o \in I : \A p \in at : o <= p
    BY <1>9, <2>1
  <2>4. q \in at /\ o \in at
    BY <1>6
  <2>5. t[Len(t)] = s[q]
    BY <1>3, <1>11, <2>2, <2>4, Ends
  <2>6. t[1] = s[o]
    BY <1>3, <1>11, <2>3, <2>4, Ends
  <2> QED
    BY <1>5, <2>5, <2>6
<1>15. NoLine(s) => NoLine(t)
  BY <1>3, <1>11, SliceLines DEF n
<1>16. LettersOf(s) = <<>> <=> I = {}
  BY <1>4, LettersAre
<1>17. ASSUME I # {} PROVE t # <<>>
  <2>1. at # {}
    BY <1>6, <1>17
  <2>2. PICK q \in I : \A p \in at : p <= q
    BY <1>9, <2>1
  <2>3. q \in at
    BY <1>6
  <2> QED
    BY <1>3, <1>11, <2>2, <2>3, Ends
<1>18. ASSUME t # <<>> PROVE I # {}
  BY <1>3, <1>10, <1>11, <1>18, Ends
<1> QED
  BY <1>2, <1>12, <1>13, <1>14, <1>15, <1>16, <1>17, <1>18 DEF Opens, Closes

\* What the cap leaves is within it, and says the same up to there.
LEMMA CapIs ==
  ASSUME NEW s \in Seq(CharKinds), NEW max \in Nat \ {0}, Settled(s), Opens(s), Closes(s), s # <<>>
  PROVE  /\ Presentable(Cap(s, max), max)
         /\ NoLine(s) => NoLine(Cap(s, max))
         /\ \/ LettersOf(Cap(s, max)) = LettersOf(s)
            \/ /\ Len(s) > max
               /\ LettersOf(Cap(s, max)) = Only(LettersOf(s), 1 .. Len(LettersOf(Cap(s, max))))
<1>0. Len(s) \in Nat /\ Len(s) # 0
  OBVIOUS
<1>1. ASSUME NEW t \in Seq(CharKinds), t # <<>>, Len(t) <= max, Settled(t), Opens(t), Closes(t)
      PROVE  Presentable(t, max)
  <2>1. Len(t) \in 1 .. max /\ DOMAIN t = 1 .. Len(t)
    BY <1>1
  <2> QED
    BY <1>1, <2>1 DEF Presentable, Settled, Clean, OneBlank, TwoLines, Opens, Closes
<1>2. CASE ~ (Len(s) > max)
  <2>1. Cap(s, max) = s
    BY <1>2 DEF Cap
  <2>2. Len(s) <= max
    BY <1>0, <1>2
  <2> QED
    BY <1>1, <2>1, <2>2
<1>3. CASE Len(s) > max
  <2> DEFINE at == 1 .. max
             c == Only(s, at)
             t == RStrip(c)
  <2>1. Cap(s, max) = t
    BY <1>3 DEF Cap
  <2>2. at \in SUBSET (1 .. Len(s)) /\ at \in SUBSET Nat /\ Gapless(at) /\ 1 \in at
        /\ \A p \in at : 1 <= p
    BY <1>0, <1>3 DEF Gapless
  <2>3. \A p \in (1 .. Len(s)) \ at : s[p] \in Letters => \A q \in at : q < p
    BY <1>0, <1>3
  <2>4. at \in SUBSET (1 .. max) /\ max \in Nat
    OBVIOUS
  <2> HIDE DEF at, c, t
  <2>5. c \in Seq(CharKinds) /\ Thins(c, s, at) /\ Len(c) \in Nat
    BY <2>2, Thinned DEF c
  <2>6. Len(c) <= max
    BY <2>4, <2>5, ThinsShorter
  <2>7. Settled(c)
    BY <2>2, <2>5, SliceSettled
  <2>8. NoLine(s) => NoLine(c)
    BY <2>2, <2>5, SliceLines
  <2>9. c # <<>> /\ Opens(c)
    <3>1. c # <<>> /\ c[1] = s[1]
      BY <2>2, <2>5, Ends
    <3> QED
      BY <3>1 DEF Opens
  <2>10. /\ MadeOf(t, c) /\ Settled(t) /\ Closes(t) /\ (NoLine(c) => NoLine(t))
         /\ t # <<>> /\ Opens(t)
    BY <2>5, <2>7, <2>9, RStripIs DEF t
  <2>11. t \in Seq(CharKinds) /\ Len(t) \in Nat /\ Len(t) <= Len(c) /\ LettersOf(t) = LettersOf(c)
    BY <2>10 DEF MadeOf
  <2>12. Presentable(t, max)
    <3>1. Len(t) <= max
      BY <2>5, <2>6, <2>11
    <3> QED
      BY <1>1, <2>10, <2>11, <3>1
  <2>13. LettersOf(c) = Only(LettersOf(s), 1 .. Len(LettersOf(c)))
    BY <2>2, <2>3, <2>5, LettersCut
  <2>14. LettersOf(t) = Only(LettersOf(s), 1 .. Len(LettersOf(t)))
    BY <2>11, <2>13
  <2> QED
    BY <1>3, <2>1, <2>8, <2>10, <2>12, <2>14
<1> QED
  BY <1>2, <1>3

\* A step of the cleaning after another.
LEMMA MadeOfMade ==
  ASSUME NEW s, NEW t, NEW u, Len(s) \in Nat, MadeOf(t, s), MadeOf(u, t) PROVE MadeOf(u, s)
<1>1. Len(u) <= Len(s)
  BY DEF MadeOf
<1> QED
  BY <1>1 DEF MadeOf

\* What becomes of a text that is capped at last.
LEMMA Delivered ==
  ASSUME NEW raw \in Seq(CharKinds), NEW s, NEW max \in Nat \ {0}, MadeOf(s, Nfc(raw)),
         Settled(s), Opens(s), Closes(s), s # <<>>
  PROVE  Presentable(Cap(s, max), max) /\ Faithful(raw, Cap(s, max), max)
<1>1. s \in Seq(CharKinds) /\ Len(s) \in Nat /\ Len(s) <= Len(Nfc(raw)) /\ LettersOf(s) = LettersOf(Nfc(raw))
  BY DEF MadeOf
<1>2. Nfc(raw) \in Seq(CharKinds) /\ Len(Nfc(raw)) <= Len(raw)
  BY NfcIs
<1>3. Len(raw) \in Nat /\ Len(Nfc(raw)) \in Nat /\ max \in Nat
  BY <1>2
<1>4. Presentable(Cap(s, max), max)
  BY <1>1, CapIs
<1>5. \/ LettersOf(Cap(s, max)) = LettersOf(s)
      \/ Len(s) > max /\ LettersOf(Cap(s, max)) = Only(LettersOf(s), 1 .. Len(LettersOf(Cap(s, max))))
  BY <1>1, CapIs
<1>6. Len(s) > max => Len(raw) > max
  BY <1>1, <1>2, <1>3
<1> QED
  BY <1>1, <1>4, <1>5, <1>6 DEF Faithful

\* clean_text does what the board relies on.
LEMMA TextIs ==
  ASSUME NEW raw \in Seq(CharKinds)
  PROVE  TextCleaned(raw, CleanText(raw))
<1> DEFINE a == Nfc(raw)
           b == DropControls(a)
           c == SquashBlanks(b)
           d == SquashLines(c)
           s == Strip(d)
<1>1. a \in Seq(CharKinds) /\ (LettersOf(a) = <<>> <=> LettersOf(raw) = <<>>) /\ Len(a) \in Nat
  <2>1. a \in Seq(CharKinds)
    BY NfcIs
  <2> QED
    BY <2>1, NfcIs
<1>2. CleanText(raw) = IF s = <<>> THEN NoText ELSE Cap(s, TextMax)
  BY DEF CleanText
<1> HIDE DEF a
<1>3. MadeOf(b, a) /\ \A i \in 1 .. Len(b) : b[i] # "control"
  BY <1>1, DropControlsIs
<1> HIDE DEF b
<1>4. b \in Seq(CharKinds)
  BY <1>3 DEF MadeOf
<1>5. MadeOf(c, b) /\ Clean(c) /\ OneBlank(c)
  BY <1>3, <1>4, SquashBlanksIs
<1> HIDE DEF c
<1>6. c \in Seq(CharKinds)
  BY <1>5 DEF MadeOf
<1>7. MadeOf(d, c) /\ Settled(d)
  BY <1>5, <1>6, SquashLinesIs DEF Settled
<1> HIDE DEF d
<1>8. d \in Seq(CharKinds)
  BY <1>7 DEF MadeOf
<1>9. MadeOf(s, d) /\ Settled(s) /\ Opens(s) /\ Closes(s) /\ (s = <<>> <=> LettersOf(d) = <<>>)
  BY <1>7, <1>8, StripIs
<1> HIDE DEF s
<1>10. MadeOf(d, a) /\ MadeOf(s, a)
  BY <1>1, <1>3, <1>5, <1>7, <1>9, MadeOfMade
<1>11. s = <<>> <=> LettersOf(raw) = <<>>
  BY <1>1, <1>9, <1>10 DEF MadeOf
<1>12. CASE s = <<>>
  BY <1>2, <1>11, <1>12 DEF TextCleaned
<1>13. CASE s # <<>>
  <2>1. TextMax \in Nat \ {0}
    BY NoteTextAssumption DEF NoteTextAssumption
  <2>2. Presentable(Cap(s, TextMax), TextMax) /\ Faithful(raw, Cap(s, TextMax), TextMax)
    BY <1>9, <1>10, <1>13, <2>1, Delivered DEF a
  <2> QED
    BY <1>2, <1>11, <1>13, <2>2 DEF TextCleaned
<1> QED
  BY <1>12, <1>13

\* On one line, a text has no newline and the same letters.
LEMMA OneLineIs ==
  ASSUME NEW s \in Seq(CharKinds), \A i \in 1 .. Len(s) : s[i] # "control"
  PROVE  /\ MadeOf(OneLine(s), s) /\ NoLine(OneLine(s))
         /\ \A i \in 1 .. Len(OneLine(s)) : OneLine(s)[i] # "control"
<1> DEFINE t == [i \in 1 .. Len(s) |-> IF s[i] = "newline" THEN "blank" ELSE s[i]]
<1>1. DOMAIN s = 1 .. Len(s) /\ Len(s) \in Nat
  OBVIOUS
<1>2. OneLine(s) = t
  BY <1>1 DEF OneLine
<1>3. \A i \in 1 .. Len(s) : t[i] = IF s[i] = "newline" THEN "blank" ELSE s[i]
  OBVIOUS
<1>4. t \in [1 .. Len(s) -> CharKinds]
  BY DEF CharKinds
<1> HIDE DEF t
<1>5. t \in Seq(CharKinds) /\ Len(t) = Len(s)
  BY <1>1, <1>4, SequenceOf
<1>6. \A i \in 1 .. Len(s) : t[i] = s[i] \/ (s[i] \notin Letters /\ t[i] \notin Letters)
  BY <1>3 DEF Letters
<1>7. LettersOf(t) = LettersOf(s)
  BY <1>5, <1>6, LettersAlike
<1>8. MadeOf(t, s)
  BY <1>1, <1>5, <1>7 DEF MadeOf
<1>9. NoLine(t) /\ \A i \in 1 .. Len(t) : t[i] # "control"
  BY <1>3, <1>5 DEF NoLine
<1> QED
  BY <1>2, <1>8, <1>9

\* clean_name does what the board relies on.
LEMMA NameIs ==
  ASSUME NEW raw \in Seq(CharKinds)
  PROVE  NameCleaned(raw, CleanName(raw))
<1> DEFINE a == Nfc(raw)
           b == DropControls(a)
           c == OneLine(b)
           d == SquashBlanks(c)
           s == Strip(d)
<1>1. a \in Seq(CharKinds) /\ (LettersOf(a) = <<>> <=> LettersOf(raw) = <<>>) /\ Len(a) \in Nat
  <2>1. a \in Seq(CharKinds)
    BY NfcIs
  <2> QED
    BY <2>1, NfcIs
<1>2. CleanName(raw) = Cap(s, NameMax)
  BY DEF CleanName
<1> HIDE DEF a
<1>3. MadeOf(b, a) /\ \A i \in 1 .. Len(b) : b[i] # "control"
  BY <1>1, DropControlsIs
<1> HIDE DEF b
<1>4. b \in Seq(CharKinds)
  BY <1>3 DEF MadeOf
<1>5. MadeOf(c, b) /\ NoLine(c) /\ \A i \in 1 .. Len(c) : c[i] # "control"
  BY <1>3, <1>4, OneLineIs
<1> HIDE DEF c
<1>6. c \in Seq(CharKinds)
  BY <1>5 DEF MadeOf
<1>7. MadeOf(d, c) /\ Clean(d) /\ OneBlank(d) /\ NoLine(d)
  BY <1>5, <1>6, SquashBlanksIs
<1> HIDE DEF d
<1>8. d \in Seq(CharKinds) /\ Len(d) \in Nat
  BY <1>7 DEF MadeOf
<1>9. Settled(d)
  <2>1. \A i \in 1 .. Len(d) - 2 : i \in 1 .. Len(d)
    BY <1>8
  <2> QED
    BY <1>7, <2>1 DEF Settled, TwoLines, NoLine
<1>10. /\ MadeOf(s, d) /\ Settled(s) /\ Opens(s) /\ Closes(s) /\ NoLine(s)
       /\ (s = <<>> <=> LettersOf(d) = <<>>)
  BY <1>7, <1>8, <1>9, StripIs
<1> HIDE DEF s
<1>11. MadeOf(d, a) /\ MadeOf(s, a)
  <2>1. Len(b) \in Nat /\ Len(c) \in Nat
    BY <1>4, <1>6
  <2>2. MadeOf(c, a)
    BY <1>1, <1>3, <1>5, MadeOfMade
  <2>3. MadeOf(d, a)
    BY <1>1, <1>7, <2>2, MadeOfMade
  <2> QED
    BY <1>1, <1>10, <2>3, MadeOfMade
<1>12. s = <<>> <=> LettersOf(raw) = <<>>
  BY <1>1, <1>10, <1>11 DEF MadeOf
<1>13. NameMax \in Nat \ {0}
  BY NoteTextAssumption DEF NoteTextAssumption
<1>14. CASE s = <<>>
  <2>1. Len(s) = 0
    BY <1>14
  <2>2. Cap(s, NameMax) = s
    BY <1>13, <2>1 DEF Cap
  <2> QED
    BY <1>2, <1>12, <1>14, <2>2 DEF NameCleaned
<1>15. CASE s # <<>>
  <2>1. Presentable(Cap(s, NameMax), NameMax) /\ Faithful(raw, Cap(s, NameMax), NameMax)
    BY <1>10, <1>11, <1>13, <1>15, Delivered DEF a
  <2>2. NoLine(Cap(s, NameMax))
    <3>1. s \in Seq(CharKinds)
      BY <1>10 DEF MadeOf
    <3> QED
      BY <1>10, <1>13, <1>15, <3>1, CapIs
  <2>3. \A i \in DOMAIN Cap(s, NameMax) : Cap(s, NameMax)[i] # "newline"
    <3> DEFINE u == Cap(s, NameMax)
    <3>1. DOMAIN u = 1 .. Len(u)
      BY <1>10, <1>13, <1>15, CapIs
    <3> QED
      BY <2>2, <3>1 DEF NoLine
  <2> QED
    BY <1>2, <1>12, <1>15, <2>1, <2>3 DEF NameCleaned
<1> QED
  BY <1>14, <1>15

\* Whatever text is posted under whatever name, clean_text and clean_name leave
\* what the board can show, and every letter of it up to the cap.
THEOREM NotesPresentable == CleaningSpec => []NotesCleaned
<1>1. CleaningInit => NotesCleaned
  BY DEF CleaningInit, NotesCleaned
<1>2. NotesCleaned /\ [\E raw \in Seq(CharKinds) : CallCleanText(raw) \/ CallCleanName(raw)]_cleaned => NotesCleaned'
  <2> SUFFICES ASSUME NotesCleaned, [\E raw \in Seq(CharKinds) : CallCleanText(raw) \/ CallCleanName(raw)]_cleaned
               PROVE  NotesCleaned'
    OBVIOUS
  <2>1. CASE cleaned' = cleaned
    BY <2>1 DEF NotesCleaned
  <2>2. ASSUME NEW raw \in Seq(CharKinds), CallCleanText(raw) PROVE NotesCleaned'
    <3>1. cleaned'.of = "clean_text" /\ cleaned'.in = raw /\ cleaned'.out = CleanText(raw)
      BY <2>2 DEF CallCleanText
    <3> QED
      BY <3>1, TextIs DEF NotesCleaned
  <2>3. ASSUME NEW raw \in Seq(CharKinds), CallCleanName(raw) PROVE NotesCleaned'
    <3>1. cleaned'.of = "clean_name" /\ cleaned'.in = raw /\ cleaned'.out = CleanName(raw)
      BY <2>3 DEF CallCleanName
    <3> QED
      BY <3>1, NameIs DEF NotesCleaned
  <2> QED
    BY <2>1, <2>2, <2>3
<1> QED
  BY <1>1, <1>2, PTL DEF CleaningSpec

-----------------------------------------------------------------------------
(* The board.                                                              *)

\* A thread on its way to the INSERT, and one past it.
Coming(w) == call[w] # None /\ call[w].at \in {"short", "long", "stamp", "insert"}
Stored(w) == call[w] # None /\ call[w].at \in {"rowid", "mesh"}

\* What the table and a post carry: ids follow the notes, the last rowid is that
\* of the last note, no time is in the future, and nobody has seen a note that
\* was not there.
Placed ==
  /\ Len(posts) <= MaxPosts
  /\ next_id <= Len(posts) + 1 /\ last_rowid = next_id - 1
  /\ Len(posts) > 0 => last_rowid = posts[Len(posts)].id
  /\ \A p \in DOMAIN posts : posts[p].seen < p /\ posts[p].ts <= clock /\ posts[p].id < next_id
  /\ \A w \in Workers : Coming(w) => call[w].now <= clock /\ call[w].seen <= Len(posts)
  /\ \A w \in Workers : Stored(w) => call[w].post \in DOMAIN posts
  /\ \A w \in Workers : At(w, "mesh") =>
        \E n \in call[w].post..Len(posts) : call[w].id = posts[n].id

\* What no thread has brought to the mesh yet, the mesh has not taken and nobody
\* has answered, and no two threads bring the same.
Handing ==
  /\ \A p \in Ids : p > Len(posts) => handed[p] = 0
  /\ \A w \in Workers : Stored(w) =>
        handed[call[w].post] = 0 /\ \A a \in replies : a.post # call[w].post
  /\ \A v, w \in Workers : v # w /\ Stored(v) /\ Stored(w) => call[v].post # call[w].post

Ledger == TypeOK /\ Placed /\ Handing /\ IdsNeverReused /\ HandedOnce

record == <<rows, next_id, last_rowid, posts, handed, replies>>

Note == [ip : Clients, ts : Times, id : Ids, seen : 0..MaxPosts]

-----------------------------------------------------------------------------

USE NotesBoardAssumption

\* Every note is a record of its kinds.
LEMMA NotesAre ==
  ASSUME TypeOK, NEW p \in DOMAIN posts
  PROVE  /\ posts[p] \in Note
         /\ posts[p].ts \in Nat /\ posts[p].id \in Nat /\ posts[p].seen \in Nat
         /\ posts[p].id \in Ids /\ p \in Nat /\ p \in 1..Len(posts) /\ Len(posts) \in Nat
<1>1. posts \in Seq(Note) /\ p \in 1..Len(posts)
  BY DEF TypeOK, Note
<1>2. posts[p] \in Note
  BY <1>1
<1> QED
  BY <1>1, <1>2 DEF Note, Times, Ids

\* So is every post in hand.
LEMMA CallsAre ==
  ASSUME TypeOK, NEW w \in Workers, call[w] # None
  PROVE  /\ call[w] \in Calls /\ call[w].at \in Places /\ call[w].ip \in Clients
         /\ call[w].now \in Nat /\ call[w].seen \in Nat /\ call[w].post \in Nat
         /\ call[w].id \in Nat
<1>1. call[w] \in Calls
  BY DEF TypeOK
<1> QED
  BY <1>1 DEF Calls

\* A step of one thread leaves the others as they are.
LEMMA OneMoves ==
  ASSUME TypeOK, NEW w \in Workers, NEW r \in Calls \cup {None}, call' = [call EXCEPT ![w] = r]
  PROVE  /\ call' \in [Workers -> Calls \cup {None}] /\ call'[w] = r
         /\ \A v \in Workers : v # w => call'[v] = call[v]
BY DEF TypeOK

\* A thread short of the INSERT, or done with its row's id, changes no record.
LEMMA LedgerMove ==
  ASSUME Ledger, NEW w \in Workers, NEW r \in Calls, call' = [call EXCEPT ![w] = r],
         UNCHANGED record, UNCHANGED clock,
         r.at # "rowid",
         r.at # "mesh" => r.now <= clock /\ r.seen <= Len(posts),
         r.at = "mesh" => At(w, "rowid") /\ r.post = call[w].post /\ r.id = last_rowid
  PROVE  Ledger'
<1>1. TypeOK /\ Placed /\ Handing
  BY DEF Ledger
<1>2. /\ call' \in [Workers -> Calls \cup {None}] /\ call'[w] = r
      /\ \A v \in Workers : v # w => call'[v] = call[v]
  BY <1>1, OneMoves
<1>3. TypeOK'
  BY <1>1, <1>2 DEF TypeOK, record
<1>4. r.at = "mesh" => Stored(w)
  BY DEF Stored, At
<1>5. ASSUME r.at = "mesh"
      PROVE  \E n \in r.post..Len(posts) : r.id = posts[n].id
  <2>1. call[w].post \in DOMAIN posts
    BY <1>1, <1>4, <1>5 DEF Placed
  <2>2. r.post \in 1..Len(posts) /\ Len(posts) \in Nat
    BY <1>1, <1>5, <2>1, NotesAre
  <2>3. Len(posts) \in r.post..Len(posts) /\ Len(posts) > 0
    BY <2>2
  <2>4. r.id = posts[Len(posts)].id
    BY <1>1, <1>5, <2>3 DEF Placed
  <2> QED
    BY <2>3, <2>4
<1>6. Placed'
  <2>1. \A v \in Workers : Coming(v)' => call'[v].now <= clock' /\ call'[v].seen <= Len(posts')
    BY <1>1, <1>2 DEF Placed, Coming, record
  <2>2. \A v \in Workers : Stored(v)' => call'[v].post \in DOMAIN posts'
    BY <1>1, <1>2, <1>4 DEF Placed, Stored, record
  <2>3. ASSUME NEW v \in Workers, At(v, "mesh")'
        PROVE  \E n \in call'[v].post..Len(posts') : call'[v].id = posts'[n].id
    <3>1. CASE v = w
      BY <1>2, <1>5, <2>3, <3>1 DEF At, record
    <3>2. CASE v # w
      BY <1>1, <1>2, <2>3, <3>2 DEF At, Placed, record
    <3> QED
      BY <3>1, <3>2
  <2> QED
    BY <1>1, <2>1, <2>2, <2>3 DEF Placed, record
<1>7. Handing'
  <2>1. \A v \in Workers : Stored(v)' => Stored(v) /\ call'[v].post = call[v].post
    BY <1>2, <1>4 DEF Stored
  <2> QED
    BY <1>1, <2>1 DEF Handing, record
<1> QED
  BY <1>1, <1>3, <1>6, <1>7 DEF Ledger, IdsNeverReused, HandedOnce, record

\* Nor does one that is refused.
LEMMA LedgerLeave ==
  ASSUME Ledger, NEW w \in Workers, call' = [call EXCEPT ![w] = None],
         UNCHANGED record, UNCHANGED clock
  PROVE  Ledger'
<1>1. TypeOK /\ Placed /\ Handing
  BY DEF Ledger
<1>2. /\ call' \in [Workers -> Calls \cup {None}] /\ call'[w] = None
      /\ \A v \in Workers : v # w => call'[v] = call[v]
  BY <1>1, OneMoves
<1>3. TypeOK'
  BY <1>1, <1>2 DEF TypeOK, record
<1>4. Placed' /\ Handing'
  BY <1>1, <1>2 DEF Placed, Handing, Coming, Stored, At, record
<1> QED
  BY <1>1, <1>3, <1>4 DEF Ledger, IdsNeverReused, HandedOnce, record

\* So a post keeps the records up to its INSERT and at the rowid.
LEMMA LedgerBefore ==
  ASSUME Ledger, NEW w \in Workers,
         \/ \E c \in Clients : BeginPost(w, c)
         \/ CheckShort(w) \/ CheckLong(w) \/ Stamp(w) \/ ReadRowid(w)
  PROVE  Ledger'
<1>1. UNCHANGED record /\ UNCHANGED clock
  BY DEF BeginPost, CheckShort, CheckLong, Check, Stamp, ReadRowid, database, history, record
<1>2. /\ clock \in Nat /\ Len(posts) \in Nat /\ last_rowid \in Nat /\ TypeOK /\ Placed
  BY DEF Ledger, TypeOK, Times
<1>3. ASSUME NEW c \in Clients, BeginPost(w, c) PROVE Ledger'
  <2> DEFINE r == [at |-> "short", ip |-> c, now |-> clock, seen |-> Len(posts), post |-> 0, id |-> 0]
  <2>1. r \in Calls /\ r.now <= clock /\ r.seen <= Len(posts) /\ r.at = "short"
    BY <1>2 DEF Calls, Places
  <2>2. call' = [call EXCEPT ![w] = r]
    BY <1>3 DEF BeginPost
  <2> HIDE DEF r
  <2> QED
    BY <1>1, <2>1, <2>2, LedgerMove
<1>4. ASSUME Coming(w), NEW place \in {"long", "stamp"}, GoTo(w, place) PROVE Ledger'
  <2> DEFINE r == [call[w] EXCEPT !.at = place]
  <2>1. call[w] \in Calls /\ call[w].now <= clock /\ call[w].seen <= Len(posts)
    BY <1>2, <1>4, CallsAre DEF Placed, Coming
  <2>2. r \in Calls /\ r.now <= clock /\ r.seen <= Len(posts) /\ r.at = place
    BY <2>1 DEF Calls, Places
  <2>3. call' = [call EXCEPT ![w] = r]
    BY <1>4 DEF GoTo
  <2> HIDE DEF r
  <2> QED
    BY <1>1, <2>2, <2>3, LedgerMove
<1>5. CASE CheckShort(w) \/ CheckLong(w)
  <2>1. Coming(w)
    BY <1>5 DEF CheckShort, CheckLong, At, Coming
  <2>2. \/ call' = [call EXCEPT ![w] = None]
        \/ \E place \in {"long", "stamp"} : GoTo(w, place)
    BY <1>5 DEF CheckShort, CheckLong, Check
  <2> QED
    BY <1>1, <1>4, <2>1, <2>2, LedgerLeave
<1>6. CASE Stamp(w)
  <2> DEFINE r == [call[w] EXCEPT !.at = "insert", !.now = clock]
  <2>1. Coming(w)
    BY <1>6 DEF Stamp, At, Coming
  <2>2. call[w] \in Calls /\ call[w].seen <= Len(posts)
    BY <1>2, <2>1, CallsAre DEF Placed, Coming
  <2>3. r \in Calls /\ r.now = clock /\ r.seen <= Len(posts) /\ r.at = "insert"
    BY <1>2, <2>2 DEF Calls, Places
  <2>4. call' = [call EXCEPT ![w] = r]
    BY <1>6 DEF Stamp
  <2> HIDE DEF r
  <2>5. r.now <= clock
    BY <1>2, <2>3
  <2> QED
    BY <1>1, <2>3, <2>4, <2>5, LedgerMove
<1>7. CASE ReadRowid(w)
  <2> DEFINE r == [call[w] EXCEPT !.at = "mesh", !.id = last_rowid]
  <2>1. At(w, "rowid") /\ call[w] \in Calls
    BY <1>2, <1>7, CallsAre DEF ReadRowid, At
  <2>2. r \in Calls /\ r.at = "mesh" /\ r.post = call[w].post /\ r.id = last_rowid
    BY <1>2, <2>1 DEF Calls, Places
  <2>3. call' = [call EXCEPT ![w] = r]
    BY <1>7 DEF ReadRowid
  <2> HIDE DEF r
  <2> QED
    BY <1>1, <2>1, <2>2, <2>3, LedgerMove
<1> QED
  BY <1>3, <1>5, <1>6, <1>7

\* The row that goes in, and what its thread holds then.
Row(w) == [ip |-> call[w].ip, ts |-> call[w].now, id |-> next_id, seen |-> call[w].seen]
Past(w) == [at |-> "rowid", ip |-> call[w].ip, now |-> 0, seen |-> 0,
            post |-> Len(posts) + 1, id |-> 0]

\* It goes to the end, and the others stay as they are.
LEMMA Inserted ==
  ASSUME Ledger, NEW w \in Workers, Insert(w)
  PROVE  /\ Len(posts) \in Nat /\ DOMAIN posts = 1..Len(posts)
         /\ Row(w) \in Note /\ next_id \in Nat
         /\ posts' = Append(posts, Row(w)) /\ posts' \in Seq(Note)
         /\ rows' = rows \cup {Len(posts) + 1} /\ rows \subseteq 1..Len(posts)
         /\ Len(posts') = Len(posts) + 1 /\ DOMAIN posts' = 1..(Len(posts) + 1)
         /\ posts'[Len(posts) + 1] = Row(w)
         /\ \A p \in DOMAIN posts : posts'[p] = posts[p]
         /\ Len(posts) + 1 \in Ids
         /\ next_id' = next_id + 1 /\ last_rowid' = next_id
         /\ Past(w) \in Calls /\ call' = [call EXCEPT ![w] = Past(w)]
         /\ UNCHANGED <<clock, handed, replies>>
<1> DEFINE n == Row(w)
           q == Len(posts) + 1
<1>1. posts \in Seq(Note) /\ Len(posts) \in Nat /\ DOMAIN posts = 1..Len(posts) /\ TypeOK
  BY DEF Ledger, TypeOK, Note
<1>2. posts' = Append(posts, n) /\ UNCHANGED <<clock, handed, replies>>
  BY DEF Insert, NextId, Row
<1>3. q \in Ids /\ q \in Nat /\ next_id \in Nat /\ next_id \in Ids
  <2>1. /\ next_id \in 1..(MaxPosts + 1) /\ next_id <= Len(posts) + 1
        /\ Len(posts) < MaxPosts /\ MaxPosts \in Nat
    BY DEF Insert, Ledger, Placed, TypeOK
  <2> QED
    BY <1>1, <2>1 DEF Ids
<1>4. n \in Note
  <2>1. Coming(w) /\ call[w] # None
    BY DEF Insert, At, Coming
  <2>2. call[w].ip \in Clients /\ call[w].now \in Nat /\ call[w].seen \in Nat
    BY <1>1, <2>1, CallsAre
  <2>3. call[w].now <= clock /\ call[w].seen <= Len(posts) /\ Len(posts) <= MaxPosts
    BY <2>1 DEF Ledger, Placed
  <2>4. call[w].now \in Times /\ call[w].seen \in 0..MaxPosts
    BY <1>1, <2>2, <2>3 DEF TypeOK, Times
  <2> QED
    BY <1>3, <2>2, <2>4 DEF Row, Note
<1> HIDE DEF n
<1>5. /\ Len(posts') = q /\ DOMAIN posts' = 1..q /\ posts' \in Seq(Note)
      /\ posts'[q] = n /\ \A p \in 1..Len(posts) : posts'[p] = posts[p]
  BY <1>1, <1>2, <1>4
<1>6. rows' = rows \cup {q} /\ rows \subseteq 1..Len(posts)
  BY <1>1, <1>5 DEF Insert, TypeOK
<1>7. next_id' = next_id + 1 /\ last_rowid' = next_id
  BY DEF Insert, NextId
<1>8. call' = [call EXCEPT ![w] = Past(w)]
  BY <1>5 DEF Insert, Past
<1>9. Past(w) \in Calls
  <2>1. call[w].ip \in Clients
    BY <1>1, CallsAre DEF Insert, At
  <2> QED
    BY <1>3, <2>1 DEF Past, Calls, Places
<1> QED
  BY <1>1, <1>2, <1>3, <1>4, <1>5, <1>6, <1>7, <1>8, <1>9 DEF n

\* The new note takes the next id and the next place among the notes; nobody
\* has brought it to the mesh.
LEMMA LedgerInsert ==
  ASSUME Ledger, NEW w \in Workers, Insert(w) PROVE Ledger'
<1> DEFINE n == Row(w)
           q == Len(posts) + 1
           r == Past(w)
<1>1. TypeOK /\ Placed /\ Handing
  BY DEF Ledger
<1>2. /\ Coming(w) /\ call[w] # None /\ call[w].now <= clock /\ call[w].seen <= Len(posts)
      /\ call[w].now \in Nat /\ call[w].seen \in Nat
  <2>1. Coming(w) /\ call[w] # None
    BY DEF Insert, At, Coming
  <2> QED
    BY <1>1, <2>1, CallsAre DEF Placed
<1>3. /\ n.ts = call[w].now /\ n.id = next_id /\ n.seen = call[w].seen
      /\ r.at = "rowid" /\ r.post = q
  BY DEF Row, Past
<1>4. /\ Len(posts) \in Nat /\ DOMAIN posts = 1..Len(posts)
      /\ next_id \in Nat /\ posts' \in Seq(Note)
      /\ rows' = rows \cup {q} /\ rows \subseteq 1..Len(posts)
      /\ Len(posts') = q /\ DOMAIN posts' = 1..q
      /\ posts'[q] = n
      /\ \A p \in DOMAIN posts : posts'[p] = posts[p]
      /\ q \in Ids
      /\ next_id' = next_id + 1 /\ last_rowid' = next_id
      /\ r \in Calls /\ call' = [call EXCEPT ![w] = r]
      /\ UNCHANGED <<clock, handed, replies>>
  BY Inserted
<1>5. q \in Nat /\ q > Len(posts) /\ q >= 1 /\ next_id <= q /\ q <= MaxPosts /\ next_id >= 1
  BY <1>1, <1>4 DEF Placed, Ids, TypeOK
<1>6. q = Len(posts) + 1
  OBVIOUS
<1> HIDE DEF n, q, r
<1>7. /\ call' \in [Workers -> Calls \cup {None}] /\ call'[w] = r
      /\ \A v \in Workers : v # w => call'[v] = call[v]
  BY <1>1, <1>4, OneMoves
<1>8. \A p \in DOMAIN posts' : p = q \/ (p \in DOMAIN posts /\ p # q /\ posts'[p] = posts[p])
  BY <1>4, <1>6
<1>9. DOMAIN posts \subseteq DOMAIN posts' /\ q \in DOMAIN posts' /\ q \notin DOMAIN posts
  BY <1>4, <1>5, <1>6
<1>10. TypeOK'
  <2>1. rows' \subseteq DOMAIN posts'
    BY <1>4, <1>9
  <2>2. next_id' \in 1..(MaxPosts + 1) /\ last_rowid' \in 0..MaxPosts
    BY <1>4, <1>5
  <2>3. replies' \subseteq [post : DOMAIN posts', id : Ids]
    <3> SUFFICES ASSUME NEW x \in replies PROVE x \in [post : DOMAIN posts', id : Ids]
      BY <1>4
    <3>1. x \in [post : DOMAIN posts, id : Ids]
      BY <1>1 DEF TypeOK
    <3> QED
      BY <1>9, <3>1
  <2>4. posts' \in Seq([ip : Clients, ts : Times, id : Ids, seen : 0..MaxPosts])
    BY <1>4 DEF Note
  <2>5. clock' \in Times /\ handed' \in [Ids -> Nat]
    BY <1>1, <1>4 DEF TypeOK
  <2> QED
    BY <1>7, <2>1, <2>2, <2>3, <2>4, <2>5 DEF TypeOK
<1>11. Placed'
  <2>1. Len(posts') <= MaxPosts /\ next_id' <= Len(posts') + 1 /\ last_rowid' = next_id' - 1
    BY <1>4, <1>5
  <2>2. last_rowid' = posts'[Len(posts')].id
    BY <1>3, <1>4
  <2>3. ASSUME NEW p \in DOMAIN posts'
        PROVE  posts'[p].seen < p /\ posts'[p].ts <= clock' /\ posts'[p].id < next_id'
    <3>1. CASE p = q
      BY <1>2, <1>3, <1>4, <1>5, <3>1
    <3>2. CASE p # q
      <4>1. p \in DOMAIN posts /\ posts'[p] = posts[p]
        BY <1>8, <3>2
      <4>2. posts[p].seen < p /\ posts[p].ts <= clock /\ posts[p].id < next_id /\ posts[p].id \in Nat
        BY <1>1, <4>1, NotesAre DEF Placed
      <4> QED
        BY <1>4, <4>1, <4>2
    <3> QED
      BY <3>1, <3>2
  <2>4. ASSUME NEW v \in Workers, Coming(v)' PROVE call'[v].now <= clock' /\ call'[v].seen <= Len(posts')
    <3>1. v # w /\ call'[v] = call[v] /\ Coming(v)
      BY <1>3, <1>7, <2>4 DEF Coming
    <3>2. call[v].now <= clock /\ call[v].seen <= Len(posts) /\ call[v].seen \in Nat
      BY <1>1, <3>1, CallsAre DEF Placed, Coming
    <3> QED
      BY <1>4, <1>6, <3>1, <3>2
  <2>5. \A v \in Workers : Stored(v)' => call'[v].post \in DOMAIN posts'
    BY <1>1, <1>3, <1>7, <1>9 DEF Placed, Stored
  <2>6. ASSUME NEW v \in Workers, At(v, "mesh")'
        PROVE  \E k \in call'[v].post..Len(posts') : call'[v].id = posts'[k].id
    <3>1. v # w /\ call'[v] = call[v] /\ At(v, "mesh") /\ Stored(v)
      BY <1>3, <1>7, <2>6 DEF At, Stored
    <3>2. PICK k \in call[v].post..Len(posts) : call[v].id = posts[k].id
      BY <1>1, <3>1 DEF Placed
    <3>3. call[v].post \in DOMAIN posts
      BY <1>1, <3>1 DEF Placed
    <3>4. k \in DOMAIN posts /\ k \in call[v].post..Len(posts')
      BY <1>4, <1>6, <3>3
    <3> QED
      BY <1>4, <3>1, <3>2, <3>4
  <2> QED
    BY <2>1, <2>2, <2>3, <2>4, <2>5, <2>6 DEF Placed
<1>12. IdsNeverReused'
  <2> SUFFICES ASSUME NEW a \in DOMAIN posts', NEW b \in DOMAIN posts', a # b
               PROVE  posts'[a].id # posts'[b].id
    BY DEF IdsNeverReused
  <2>1. ASSUME NEW p \in DOMAIN posts PROVE posts[p].id # next_id
    BY <1>1, <1>4, NotesAre DEF Placed
  <2>2. CASE a = q
    <3>1. b \in DOMAIN posts /\ posts'[b] = posts[b]
      BY <1>8, <2>2
    <3> QED
      BY <1>3, <1>4, <2>1, <2>2, <3>1
  <2>3. CASE b = q
    <3>1. a \in DOMAIN posts /\ posts'[a] = posts[a]
      BY <1>8, <2>3
    <3> QED
      BY <1>3, <1>4, <2>1, <2>3, <3>1
  <2>4. CASE a # q /\ b # q
    BY <1>8, <2>4 DEF Ledger, IdsNeverReused
  <2> QED
    BY <2>2, <2>3, <2>4
<1>13. Handing'
  <2>1. \A p \in Ids : p > q => handed[p] = 0
    BY <1>1, <1>4, <1>6 DEF Handing, Ids
  <2>2. handed[q] = 0 /\ \A a \in replies : a.post # q
    <3>1. \A a \in replies : a.post \in DOMAIN posts
      BY <1>1 DEF TypeOK
    <3> QED
      BY <1>1, <1>4, <1>5, <1>9, <3>1 DEF Handing
  <2>3. \A v \in Workers : v # w /\ Stored(v) => call[v].post # q
    BY <1>1, <1>9 DEF Placed
  <2>4. \A v \in Workers : Stored(v)' =>
           handed[call'[v].post] = 0 /\ \A a \in replies : a.post # call'[v].post
    BY <1>1, <1>3, <1>7, <2>2 DEF Handing, Stored
  <2>5. \A u, v \in Workers : u # v /\ Stored(u)' /\ Stored(v)' => call'[u].post # call'[v].post
    <3> SUFFICES ASSUME NEW u \in Workers, NEW v \in Workers, u # v, Stored(u)', Stored(v)'
                 PROVE  call'[u].post # call'[v].post
      OBVIOUS
    <3>1. CASE u = w \/ v = w
      BY <1>3, <1>7, <2>3, <3>1 DEF Stored
    <3>2. CASE u # w /\ v # w
      <4>1. Stored(u) /\ Stored(v) /\ call'[u] = call[u] /\ call'[v] = call[v]
        BY <1>7, <3>2 DEF Stored
      <4> QED
        BY <1>1, <4>1 DEF Handing
    <3> QED
      BY <3>1, <3>2
  <2> QED
    BY <1>4, <2>1, <2>4, <2>5 DEF Handing
<1> QED
  BY <1>4, <1>10, <1>11, <1>12, <1>13 DEF Ledger, HandedOnce

\* The mesh takes a note, or not, when its thread lets go of it.
LEMMA LedgerHandOver ==
  ASSUME Ledger, NEW w \in Workers, NEW taken \in BOOLEAN, NEW answered \in BOOLEAN,
         HandOver(w, taken, answered)
  PROVE  Ledger'
<1> DEFINE p == call[w].post
<1>1. TypeOK /\ Placed /\ Handing /\ HandedOnce
  BY DEF Ledger
<1>2. /\ Stored(w) /\ p \in DOMAIN posts /\ handed[p] = 0
      /\ DOMAIN posts = 1..Len(posts) /\ Len(posts) \in Nat /\ At(w, "mesh")
  BY <1>1 DEF HandOver, At, Stored, Placed, Handing, TypeOK
<1>3. call[w].id \in Ids
  <2>1. PICK n \in p..Len(posts) : call[w].id = posts[n].id
    BY <1>1, <1>2 DEF Placed
  <2>2. n \in DOMAIN posts
    BY <1>2
  <2> QED
    BY <1>1, <2>1, <2>2, NotesAre
<1>4. /\ call' = [call EXCEPT ![w] = None]
      /\ replies' = replies \cup {[post |-> p, id |-> call[w].id]}
      /\ UNCHANGED <<clock, rows, next_id, last_rowid, posts>>
  BY DEF HandOver, Reply, database
<1>5. handed' = IF taken THEN [handed EXCEPT ![p] = handed[p] + 1] ELSE handed
  BY <1>1, <1>2 DEF HandOver, Deliver
<1>6. p \in Ids
  BY <1>1, <1>2 DEF Placed, Ids
<1> HIDE DEF p
<1>7. /\ handed' \in [Ids -> Nat] /\ handed'[p] <= 1
      /\ \A x \in Ids : x # p => handed'[x] = handed[x]
  BY <1>1, <1>2, <1>5, <1>6 DEF TypeOK
<1>8. /\ call' \in [Workers -> Calls \cup {None}] /\ call'[w] = None
      /\ \A v \in Workers : v # w => call'[v] = call[v]
  BY <1>1, <1>4, OneMoves
<1>9. TypeOK'
  <2>1. replies' \subseteq [post : DOMAIN posts, id : Ids]
    BY <1>1, <1>2, <1>3, <1>4 DEF TypeOK, p
  <2> QED
    BY <1>1, <1>4, <1>7, <1>8, <2>1 DEF TypeOK
<1>10. Placed'
  BY <1>1, <1>4, <1>8 DEF Placed, Coming, Stored, At
<1>11. Handing'
  <2>1. \A x \in Ids : x > Len(posts) => handed'[x] = 0
    BY <1>1, <1>2, <1>7 DEF Handing
  <2>2. ASSUME NEW v \in Workers, Stored(v)'
        PROVE  handed'[call'[v].post] = 0 /\ \A a \in replies' : a.post # call'[v].post
    <3>1. v # w /\ call'[v] = call[v] /\ Stored(v)
      BY <1>8, <2>2 DEF Stored
    <3>2. /\ call[v].post # p /\ handed[call[v].post] = 0
          /\ \A a \in replies : a.post # call[v].post
      BY <1>1, <1>2, <3>1 DEF Handing, p
    <3>3. call[v].post \in Ids
      BY <1>1, <1>2, <3>1 DEF Placed, Ids
    <3> QED
      BY <1>4, <1>7, <3>1, <3>2, <3>3
  <2>3. \A u, v \in Workers : u # v /\ Stored(u)' /\ Stored(v)' => call'[u].post # call'[v].post
    BY <1>1, <1>8 DEF Handing, Stored
  <2> QED
    BY <1>4, <2>1, <2>2, <2>3 DEF Handing
<1>12. HandedOnce'
  BY <1>1, <1>7 DEF HandedOnce
<1> QED
  BY <1>1, <1>4, <1>9, <1>10, <1>11, <1>12 DEF Ledger, IdsNeverReused

\* The owner takes rows, the clock goes on, a new life starts from nothing:
\* none of them gives an id or a note.
LEMMA LedgerAround ==
  ASSUME Ledger, (\E p \in rows : DeleteNote(p)) \/ Wipe \/ Tick \/ Restart PROVE Ledger'
<1>1. TypeOK /\ Placed /\ Handing
  BY DEF Ledger
<1>2. CASE (\E p \in rows : DeleteNote(p)) \/ Wipe
  <2>1. /\ rows' \subseteq rows
        /\ UNCHANGED <<clock, next_id, last_rowid, call, posts, handed, replies>>
    BY <1>2 DEF DeleteNote, Wipe, history
  <2> QED
    BY <2>1 DEF Ledger, TypeOK, Placed, Handing, Coming, Stored, At, IdsNeverReused, HandedOnce
<1>3. CASE Tick
  <2>1. /\ clock \in Nat /\ clock' = clock + 1 /\ clock' \in Times
        /\ UNCHANGED <<rows, next_id, last_rowid, call, posts, handed, replies>>
    BY <1>1, <1>3 DEF Tick, database, history, TypeOK, Times
  <2>2. \A w \in Workers : call[w] # None => call[w].now \in Nat
    BY <1>1, CallsAre
  <2>3. \A p \in DOMAIN posts : posts[p].ts \in Nat
    BY <1>1, NotesAre
  <2>4. \A w \in Workers : Coming(w) => call[w].now <= clock' /\ call[w].seen <= Len(posts)
    BY <1>1, <2>1, <2>2 DEF Placed, Coming
  <2>5. \A p \in DOMAIN posts : posts[p].seen < p /\ posts[p].ts <= clock' /\ posts[p].id < next_id
    BY <1>1, <2>1, <2>3 DEF Placed
  <2>6. Placed'
    BY <1>1, <2>1, <2>4, <2>5 DEF Placed, Coming, Stored, At
  <2> QED
    BY <1>1, <2>1, <2>6 DEF Ledger, TypeOK, Handing, Stored, IdsNeverReused, HandedOnce
<1>4. CASE Restart
  <2>1. /\ rows' = {} /\ next_id' = 1 /\ last_rowid' = 0
        /\ \A w \in Workers : call'[w] = None
        /\ call' \in [Workers -> Calls \cup {None}]
        /\ posts' = <<>> /\ DOMAIN posts' = {} /\ Len(posts') = 0
        /\ handed' \in [Ids -> Nat] /\ \A p \in Ids : handed'[p] = 0
        /\ replies' = {} /\ clock' = clock
    BY <1>4 DEF Restart
  <2>2. TypeOK'
    BY <1>1, <2>1 DEF TypeOK
  <2>3. Placed' /\ Handing'
    BY <2>1 DEF Placed, Handing, Coming, Stored, At
  <2>4. IdsNeverReused' /\ HandedOnce'
    BY <2>1 DEF IdsNeverReused, HandedOnce
  <2> QED
    BY <2>2, <2>3, <2>4 DEF Ledger
<1> QED
  BY <1>2, <1>3, <1>4

\* Every step keeps the records straight.
LEMMA LedgerStep == Ledger /\ [Next]_vars => Ledger'
<1> SUFFICES ASSUME Ledger, [Next]_vars PROVE Ledger'
  OBVIOUS
<1>1. ASSUME NEW w \in Workers, PostStep(w) PROVE Ledger'
  BY <1>1, LedgerBefore, LedgerInsert, LedgerHandOver DEF PostStep
<1>2. ASSUME NEW w \in Workers, NEW c \in Clients, BeginPost(w, c) PROVE Ledger'
  BY <1>2, LedgerBefore
<1>3. CASE UNCHANGED vars
  BY <1>3 DEF vars, Ledger, TypeOK, Placed, Handing, Coming, Stored, At, IdsNeverReused, HandedOnce
<1> QED
  BY <1>1, <1>2, <1>3, LedgerAround DEF Next

\* The first life starts with an empty table.
LEMMA InitLedger == Init => Ledger
<1> SUFFICES ASSUME Init PROVE Ledger
  OBVIOUS
<1>1. Len(posts) = 0 /\ DOMAIN posts = {} /\ posts = <<>>
  BY DEF Init
<1>2. TypeOK
  BY <1>1 DEF Init, TypeOK, Times
<1>3. Placed /\ Handing
  BY <1>1 DEF Init, Placed, Handing, Coming, Stored, At
<1>4. IdsNeverReused /\ HandedOnce
  BY <1>1 DEF Init, IdsNeverReused, HandedOnce
<1> QED
  BY <1>2, <1>3, <1>4 DEF Ledger

\* The records stay straight in every reachable state.
LEMMA LedgerKept == Spec => []Ledger
  BY InitLedger, LedgerStep, PTL DEF Spec

\* Every variable keeps its kind and every id, rowid and answer its range.
THEOREM TypeCorrect == Spec => []TypeOK
<1>1. Ledger => TypeOK
  BY DEF Ledger
<1> QED
  BY <1>1, LedgerKept, PTL

\* AUTOINCREMENT: while the daemon lives an id belongs to one note for good,
\* whatever the owner deletes and however posts overlap.
THEOREM IdsForGood == Spec => []IdsNeverReused
<1>1. Ledger => IdsNeverReused
  BY DEF Ledger
<1> QED
  BY <1>1, LedgerKept, PTL

\* mesh_client.publish: no note reaches the mesh twice, though its answer may
\* be lost or late.
THEOREM MeshOnce == Spec => []HandedOnce
<1>1. Ledger => HandedOnce
  BY DEF Ledger
<1> QED
  BY <1>1, LedgerKept, PTL

-----------------------------------------------------------------------------
(* The rate limit.                                                         *)

\* Of these rows, those among the first n notes that are this client's and no
\* older than that: what a post that came in after n notes has counted for sure.
Near(R, P, c, n, since) == {p \in R : p <= n /\ P[p].ip = c /\ P[p].ts >= since}

\* What a post on its way has found out: no note it has seen is later than its
\* reading of the clock, and past a count those it has seen leave room for it.
Promise(w) ==
  /\ \A p \in 1..call[w].seen : posts[p].ts <= call[w].now
  /\ call[w].at \in {"long", "stamp", "insert"} =>
       Cardinality(Near(rows, posts, call[w].ip, call[w].seen, call[w].now - ShortWindow)) < LimitShort
  /\ call[w].at \in {"stamp", "insert"} =>
       Cardinality(Near(rows, posts, call[w].ip, call[w].seen, call[w].now - LongWindow)) < LimitLong

\* The same of a note on the board.
Kept(p) ==
  /\ Cardinality(Near(rows, posts, posts[p].ip, posts[p].seen, posts[p].ts - ShortWindow)) < LimitShort
  /\ Cardinality(Near(rows, posts, posts[p].ip, posts[p].seen, posts[p].ts - LongWindow)) < LimitLong

\* The notes stored after the first n whose posts came in before that, and the
\* threads with such a post on its way: together no more than there are threads.
Across(n)  == {p \in DOMAIN posts : n < p /\ posts[p].seen <= n}
Waiting(n) == {w \in Workers : Coming(w) /\ call[w].seen <= n}

Crowd ==
  \A n \in 0..Len(posts) :
     Cardinality(Across(n)) + Cardinality(Waiting(n)) <= Cardinality(Workers)

Counts ==
  /\ Crowd
  /\ \A w \in Workers : Coming(w) => Promise(w)
  /\ \A p \in rows : Kept(p)

-----------------------------------------------------------------------------

\* Fewer rows or a later instant: the count goes down or stays.
LEMMA NearFewer ==
  ASSUME NEW R, NEW P, NEW S, NEW Q, NEW c, NEW n \in Nat, NEW s \in Int, NEW t \in Int, s <= t,
         \A p \in S : p <= n => p \in R /\ Q[p] = P[p],
         \A p \in R : p \in Nat /\ P[p].ts \in Nat
  PROVE  /\ Near(S, Q, c, n, t) \subseteq Near(R, P, c, n, s)
         /\ IsFiniteSet(Near(R, P, c, n, s))
         /\ Cardinality(Near(R, P, c, n, s)) \in Nat /\ Cardinality(Near(S, Q, c, n, t)) \in Nat
         /\ Cardinality(Near(S, Q, c, n, t)) <= Cardinality(Near(R, P, c, n, s))
<1> DEFINE A == Near(R, P, c, n, s)
           B == Near(S, Q, c, n, t)
<1>1. IsFiniteSet(A)
  <2>1. A \subseteq 0..n
    BY DEF Near
  <2>2. IsFiniteSet(0..n)
    BY FS_Interval
  <2> QED
    BY <2>1, <2>2, FS_Subset
<1>2. B \subseteq A
  <2> SUFFICES ASSUME NEW p \in B PROVE p \in A
    OBVIOUS
  <2>1. p \in S /\ p <= n /\ Q[p].ip = c /\ Q[p].ts >= t
    BY DEF Near
  <2>2. p \in R /\ Q[p] = P[p] /\ P[p].ts \in Nat
    BY <2>1
  <2>3. P[p].ts >= s
    BY <2>1, <2>2
  <2> QED
    BY <2>1, <2>2, <2>3 DEF Near
<1> HIDE DEF A, B
<1>3. IsFiniteSet(B) /\ Cardinality(B) <= Cardinality(A)
  BY <1>1, <1>2, FS_Subset
<1>4. Cardinality(A) \in Nat /\ Cardinality(B) \in Nat
  BY <1>1, <1>3, FS_CardinalityType
<1> QED
  BY <1>1, <1>2, <1>3, <1>4 DEF A, B

\* Rows are places of notes, with times.
LEMMA RowsAre ==
  ASSUME TypeOK PROVE \A p \in rows : p \in Nat /\ p \in DOMAIN posts /\ posts[p].ts \in Nat
BY NotesAre DEF TypeOK

\* What a post on its way has found out outlives other steps: only rows among
\* those it has seen count, and they can only go.
LEMMA PromiseStays ==
  ASSUME Ledger, NEW w \in Workers, Coming(w), Promise(w), call'[w] = call[w],
         \A p \in 1..call[w].seen : posts'[p] = posts[p],
         \A p \in rows' : p <= call[w].seen => p \in rows
  PROVE  Promise(w)'
<1> DEFINE c == call[w].ip
           n == call[w].seen
           now == call[w].now
<1>1. TypeOK /\ Placed
  BY DEF Ledger
<1>2. n \in Nat /\ now \in Nat /\ n <= Len(posts) /\ call[w] # None
  BY <1>1, CallsAre DEF Placed, Coming
<1>3. \A p \in rows : p \in Nat /\ p >= 1 /\ posts[p].ts \in Nat
  BY <1>1, RowsAre, NotesAre
<1> HIDE DEF n, now, c
<1>4. \A p \in rows' : p <= n => p \in rows /\ posts'[p] = posts[p]
  <2> SUFFICES ASSUME NEW p \in rows', p <= n PROVE p \in rows /\ posts'[p] = posts[p]
    OBVIOUS
  <2>1. p \in rows
    BY DEF n
  <2>2. p \in 1..n
    BY <1>2, <1>3, <2>1
  <2> QED
    BY <2>1, <2>2 DEF n
<1>5. ASSUME NEW d \in Nat
      PROVE  /\ Cardinality(Near(rows', posts', c, n, now - d)) \in Nat
             /\ Cardinality(Near(rows, posts, c, n, now - d)) \in Nat
             /\ Cardinality(Near(rows', posts', c, n, now - d)) <= Cardinality(Near(rows, posts, c, n, now - d))
  <2>1. now - d \in Int /\ now - d <= now - d
    BY <1>2
  <2> QED
    BY <1>2, <1>3, <1>4, <2>1, NearFewer
<1>6. call[w].at \in {"long", "stamp", "insert"} =>
        Cardinality(Near(rows', posts', c, n, now - ShortWindow)) < LimitShort
  <2>1. LimitShort \in Nat /\ ShortWindow \in Nat
    OBVIOUS
  <2> QED
    BY <1>5, <2>1 DEF Promise, c, n, now
<1>7. call[w].at \in {"stamp", "insert"} =>
        Cardinality(Near(rows', posts', c, n, now - LongWindow)) < LimitLong
  <2>1. LimitLong \in Nat /\ LongWindow \in Nat
    OBVIOUS
  <2> QED
    BY <1>5, <2>1 DEF Promise, c, n, now
<1>8. \A p \in 1..n : posts'[p].ts <= now
  BY DEF Promise, n, now
<1> QED
  BY <1>6, <1>7, <1>8 DEF Promise, c, n, now

\* So does what holds of a note on the board.
LEMMA KeptStays ==
  ASSUME Ledger, Ledger', NEW p \in rows, Kept(p),
         \A x \in 1..p : posts'[x] = posts[x],
         \A x \in rows' : x <= p => x \in rows
  PROVE  Kept(p)'
<1> DEFINE c == posts[p].ip
           n == posts[p].seen
           ts == posts[p].ts
<1>1. TypeOK /\ Placed
  BY DEF Ledger
<1>2. p \in DOMAIN posts /\ p \in Nat /\ p >= 1 /\ n \in Nat /\ n < p /\ ts \in Nat
  <2>1. p \in DOMAIN posts
    BY <1>1, RowsAre
  <2> QED
    BY <1>1, <2>1, NotesAre DEF Placed
<1>3. \A x \in rows : x \in Nat /\ x >= 1 /\ posts[x].ts \in Nat
  BY <1>1, RowsAre, NotesAre
<1>4. posts'[p] = posts[p]
  BY <1>2
<1> HIDE DEF n, ts, c
<1>5. \A x \in rows' : x <= n => x \in rows /\ posts'[x] = posts[x]
  <2> SUFFICES ASSUME NEW x \in rows', x <= n PROVE x \in rows /\ posts'[x] = posts[x]
    OBVIOUS
  <2>1. x \in Nat
    <3>1. TypeOK'
      BY DEF Ledger
    <3>2. rows' \subseteq DOMAIN posts' /\ DOMAIN posts' = 1..Len(posts') /\ Len(posts') \in Nat
      BY <3>1 DEF TypeOK
    <3> QED
      BY <3>2
  <2>2. x <= p
    BY <1>2, <2>1
  <2>3. x \in rows
    BY <2>2
  <2>4. x \in 1..p
    BY <1>2, <1>3, <2>2, <2>3
  <2> QED
    BY <2>3, <2>4
<1>6. ASSUME NEW d \in Nat
      PROVE  /\ Cardinality(Near(rows', posts', c, n, ts - d)) \in Nat
             /\ Cardinality(Near(rows, posts, c, n, ts - d)) \in Nat
             /\ Cardinality(Near(rows', posts', c, n, ts - d)) <= Cardinality(Near(rows, posts, c, n, ts - d))
  <2>1. ts - d \in Int /\ ts - d <= ts - d
    BY <1>2
  <2> QED
    BY <1>2, <1>3, <1>5, <2>1, NearFewer
<1>7. /\ LimitShort \in Nat /\ ShortWindow \in Nat
      /\ LimitLong \in Nat /\ LongWindow \in Nat
  OBVIOUS
<1>8. Cardinality(Near(rows', posts', c, n, ts - ShortWindow)) < LimitShort
  BY <1>6, <1>7 DEF Kept, c, n, ts
<1>9. Cardinality(Near(rows', posts', c, n, ts - LongWindow)) < LimitLong
  BY <1>6, <1>7 DEF Kept, c, n, ts
<1> QED
  BY <1>4, <1>8, <1>9 DEF Kept, c, n, ts

\* Sets of notes and of threads are finite.
LEMMA CrowdSets ==
  ASSUME TypeOK, NEW n
  PROVE  /\ IsFiniteSet(Across(n)) /\ Cardinality(Across(n)) \in Nat
         /\ IsFiniteSet(Waiting(n)) /\ Cardinality(Waiting(n)) \in Nat
         /\ Cardinality(Workers) \in Nat /\ Cardinality(Waiting(n)) <= Cardinality(Workers)
<1>1. IsFiniteSet(DOMAIN posts)
  <2>1. DOMAIN posts = 1..Len(posts) /\ Len(posts) \in Nat
    BY DEF TypeOK
  <2> QED
    BY <2>1, FS_Interval
<1>2. IsFiniteSet(Across(n))
  <2>1. Across(n) \subseteq DOMAIN posts
    BY DEF Across
  <2> QED
    BY <1>1, <2>1, FS_Subset
<1>3. IsFiniteSet(Workers)
  OBVIOUS
<1>4. IsFiniteSet(Waiting(n)) /\ Cardinality(Waiting(n)) <= Cardinality(Workers)
  <2>1. Waiting(n) \subseteq Workers
    BY DEF Waiting
  <2> QED
    BY <1>3, <2>1, FS_Subset
<1> QED
  BY <1>2, <1>3, <1>4, FS_CardinalityType

\* No new note and nobody new on the way.
LEMMA CrowdFewer ==
  ASSUME Ledger, Ledger', Crowd, UNCHANGED posts,
         \A v \in Workers : Coming(v)' => Coming(v) /\ call'[v].seen = call[v].seen
  PROVE  Crowd'
<1>1. TypeOK /\ TypeOK'
  BY DEF Ledger
<1> SUFFICES ASSUME NEW n \in 0..Len(posts)
             PROVE  Cardinality(Across(n)') + Cardinality(Waiting(n)') <= Cardinality(Workers)
  BY DEF Crowd
<1>2. Across(n)' = Across(n)
  BY DEF Across
<1>3. Waiting(n)' \subseteq Waiting(n)
  BY DEF Waiting
<1>4. IsFiniteSet(Waiting(n)) /\ Cardinality(Waiting(n)) \in Nat /\ Cardinality(Across(n)) \in Nat
      /\ Cardinality(Workers) \in Nat
  BY <1>1, CrowdSets
<1>5. Cardinality(Waiting(n)') <= Cardinality(Waiting(n)) /\ IsFiniteSet(Waiting(n)')
  BY <1>3, <1>4, FS_Subset
<1>6. Cardinality(Waiting(n)') \in Nat
  BY <1>5, FS_CardinalityType
<1>7. Cardinality(Across(n)) + Cardinality(Waiting(n)) <= Cardinality(Workers)
  BY DEF Crowd
<1> QED
  BY <1>2, <1>4, <1>5, <1>6, <1>7

\* A thread that goes on with a promise it can keep, or is done.
LEMMA CountsMove ==
  ASSUME Ledger, Ledger', Counts, NEW w \in Workers, UNCHANGED <<posts, rows>>,
         \A v \in Workers : v # w => call'[v] = call[v],
         Coming(w)' => Coming(w) /\ call'[w].seen = call[w].seen /\ Promise(w)'
  PROVE  Counts'
<1>1. Crowd'
  <2>1. \A v \in Workers : Coming(v)' => Coming(v) /\ call'[v].seen = call[v].seen
    BY DEF Coming
  <2> QED
    BY <2>1, CrowdFewer DEF Counts
<1>2. ASSUME NEW v \in Workers, Coming(v)' PROVE Promise(v)'
  <2>1. CASE v = w
    BY <1>2, <2>1
  <2>2. CASE v # w
    <3>1. call'[v] = call[v] /\ Coming(v) /\ Promise(v)
      BY <1>2, <2>2 DEF Coming, Counts
    <3> QED
      BY <3>1, PromiseStays
  <2> QED
    BY <2>1, <2>2
<1>3. \A p \in rows : Kept(p)'
  BY KeptStays DEF Counts
<1> QED
  BY <1>1, <1>2, <1>3 DEF Counts

\* Rows go, the clock goes on.
LEMMA CountsFewer ==
  ASSUME Ledger, Ledger', Counts, UNCHANGED <<posts, call>>, rows' \subseteq rows
  PROVE  Counts'
<1>1. Crowd'
  BY CrowdFewer DEF Counts, Coming
<1>2. ASSUME NEW v \in Workers, Coming(v)' PROVE Promise(v)'
  <2>1. call'[v] = call[v] /\ Coming(v) /\ Promise(v)
    BY <1>2 DEF Coming, Counts
  <2> QED
    BY <2>1, PromiseStays
<1>3. \A p \in rows' : Kept(p)'
  BY KeptStays DEF Counts
<1> QED
  BY <1>1, <1>2, <1>3 DEF Counts

\* A post that comes in has seen every note there is.
LEMMA CountsBegin ==
  ASSUME Ledger, Ledger', Counts, NEW w \in Workers, NEW c \in Clients, BeginPost(w, c)
  PROVE  Counts'
<1> DEFINE r == [at |-> "short", ip |-> c, now |-> clock, seen |-> Len(posts), post |-> 0, id |-> 0]
<1>1. TypeOK /\ TypeOK' /\ Placed /\ Len(posts) \in Nat /\ DOMAIN posts = 1..Len(posts)
  <2>1. TypeOK /\ TypeOK' /\ Placed
    BY DEF Ledger
  <2>2. Len(posts) \in Nat /\ DOMAIN posts = 1..Len(posts)
    <3>1. TypeOK
      BY <2>1
    <3> QED
      BY <3>1 DEF TypeOK
  <2> QED
    BY <2>1, <2>2
<1>2. call' = [call EXCEPT ![w] = r] /\ UNCHANGED <<posts, rows>>
  BY DEF BeginPost, database, history
<1>3. r.at = "short" /\ r.seen = Len(posts) /\ r.now = clock
  OBVIOUS
<1> HIDE DEF r
<1>4. call'[w] = r /\ \A v \in Workers : v # w => call'[v] = call[v]
  BY <1>1, <1>2 DEF TypeOK
<1>5. Crowd'
  <2> SUFFICES ASSUME NEW n \in 0..Len(posts)
               PROVE  Cardinality(Across(n)') + Cardinality(Waiting(n)') <= Cardinality(Workers)
    BY <1>2 DEF Crowd
  <2>1. /\ Cardinality(Waiting(n)') \in Nat /\ Cardinality(Workers) \in Nat
        /\ Cardinality(Waiting(n)') <= Cardinality(Workers)
    <3> USE <1>1
    <3>1. IsFiniteSet(Workers) /\ Waiting(n)' \subseteq Workers
      BY DEF Waiting
    <3> QED
      BY <3>1, FS_Subset, FS_CardinalityType
  <2>2. CASE n = Len(posts)
    <3>1. Across(n)' = {}
      BY <1>1, <1>2, <2>2 DEF Across
    <3>2. Cardinality(Across(n)') = 0
      BY <3>1, FS_EmptySet
    <3> QED
      BY <2>1, <3>2
  <2>3. CASE n # Len(posts)
    <3>1. Across(n)' = Across(n)
      BY <1>2 DEF Across
    <3>2. Waiting(n)' \subseteq Waiting(n)
      <4> SUFFICES ASSUME NEW v \in Waiting(n)' PROVE v \in Waiting(n)
        OBVIOUS
      <4>1. v \in Workers /\ Coming(v)' /\ call'[v].seen <= n
        BY DEF Waiting
      <4>2. v # w
        <5>1. v = w => Len(posts) <= n
          BY <1>3, <1>4, <4>1
        <5>2. n \in Nat /\ n <= Len(posts) /\ Len(posts) \in Nat
          BY <1>1
        <5>3. ~(Len(posts) <= n)
          BY <2>3, <5>2
        <5> QED
          BY <5>1, <5>3
      <4> QED
        BY <1>4, <4>1, <4>2 DEF Waiting, Coming
    <3>3. IsFiniteSet(Waiting(n)) /\ Cardinality(Waiting(n)) \in Nat /\ Cardinality(Across(n)) \in Nat
      BY <1>1, CrowdSets
    <3>4. Cardinality(Waiting(n)') <= Cardinality(Waiting(n))
      BY <3>2, <3>3, FS_Subset
    <3>5. Cardinality(Across(n)) + Cardinality(Waiting(n)) <= Cardinality(Workers)
      BY DEF Counts, Crowd
    <3> QED
      BY <2>1, <3>1, <3>3, <3>4, <3>5
  <2> QED
    BY <2>2, <2>3
<1>6. ASSUME NEW v \in Workers, Coming(v)' PROVE Promise(v)'
  <2>1. CASE v = w
    <3>1. \A p \in 1..Len(posts) : posts[p].ts <= clock
      BY <1>1 DEF Placed
    <3> QED
      BY <1>2, <1>3, <1>4, <2>1, <3>1 DEF Promise
  <2>2. CASE v # w
    <3>1. call'[v] = call[v] /\ Coming(v) /\ Promise(v)
      BY <1>4, <1>6, <2>2 DEF Coming, Counts
    <3> QED
      BY <1>2, <3>1, PromiseStays
  <2> QED
    BY <2>1, <2>2
<1>7. \A p \in rows : Kept(p)'
  BY <1>2, KeptStays DEF Counts
<1> QED
  BY <1>2, <1>5, <1>6, <1>7 DEF Counts

\* A count that leaves room leaves room among the notes its post has seen.
LEMMA CountFits ==
  ASSUME Ledger, NEW w \in Workers, Coming(w), NEW window \in Nat, NEW limit \in Nat,
         ~(Count(call[w].ip, call[w].now - window) >= limit)
  PROVE  Cardinality(Near(rows, posts, call[w].ip, call[w].seen, call[w].now - window)) < limit
<1> DEFINE S == {p \in rows : posts[p].ip = call[w].ip /\ posts[p].ts >= call[w].now - window}
           T == Near(rows, posts, call[w].ip, call[w].seen, call[w].now - window)
<1>1. TypeOK
  BY DEF Ledger
<1>2. IsFiniteSet(S)
  <2>1. IsFiniteSet(1..Len(posts)) /\ rows \subseteq 1..Len(posts)
    <3>1. Len(posts) \in Nat /\ rows \subseteq 1..Len(posts)
      BY <1>1 DEF TypeOK
    <3> QED
      BY <3>1, FS_Interval
  <2>2. S \subseteq 1..Len(posts)
    BY <2>1
  <2> QED
    BY <2>1, <2>2, FS_Subset
<1>3. T \subseteq S
  BY DEF Near
<1>4. Cardinality(S) = Count(call[w].ip, call[w].now - window)
  BY DEF Count
<1> HIDE DEF S, T
<1>5. Cardinality(T) <= Cardinality(S) /\ IsFiniteSet(T)
  BY <1>2, <1>3, FS_Subset
<1>6. Cardinality(T) \in Nat /\ Cardinality(S) \in Nat
  BY <1>2, <1>5, FS_CardinalityType
<1>7. Cardinality(T) < limit
  BY <1>4, <1>5, <1>6
<1> QED
  BY <1>7 DEF T

\* The two counts and the second reading of the clock.
LEMMA CountsCheck ==
  ASSUME Ledger, Ledger', Counts, NEW w \in Workers, CheckShort(w) \/ CheckLong(w) \/ Stamp(w)
  PROVE  Counts'
<1>1. TypeOK /\ TypeOK' /\ Placed
  BY DEF Ledger
<1>2. /\ Coming(w) /\ call[w] # None /\ call[w] \in Calls /\ Promise(w)
      /\ call[w].now \in Nat /\ call[w].seen \in Nat
  <2>1. Coming(w) /\ call[w] # None
    BY DEF CheckShort, CheckLong, Stamp, At, Coming
  <2> QED
    BY <1>1, <2>1, CallsAre DEF Counts
<1>3. UNCHANGED <<posts, rows, clock>>
  BY DEF CheckShort, CheckLong, Stamp, Check, database, history
<1>4. LimitShort \in Nat /\ ShortWindow \in Nat /\ LimitLong \in Nat /\ LongWindow \in Nat
  OBVIOUS
<1>5. CASE call' = [call EXCEPT ![w] = None]
  <2>1. call'[w] = None /\ \A v \in Workers : v # w => call'[v] = call[v]
    BY <1>1, <1>5 DEF TypeOK
  <2>2. ~Coming(w)'
    BY <2>1 DEF Coming
  <2> QED
    BY <1>3, <2>1, <2>2, CountsMove
<1>6. ASSUME NEW r, call' = [call EXCEPT ![w] = r], r.seen = call[w].seen, r.ip = call[w].ip,
             \A p \in 1..call[w].seen : posts[p].ts <= r.now,
             r.at \in {"long", "stamp", "insert"},
             Cardinality(Near(rows, posts, r.ip, r.seen, r.now - ShortWindow)) < LimitShort,
             r.at \in {"stamp", "insert"} =>
               Cardinality(Near(rows, posts, r.ip, r.seen, r.now - LongWindow)) < LimitLong
      PROVE  Counts'
  <2>1. call'[w] = r /\ \A v \in Workers : v # w => call'[v] = call[v]
    BY <1>1, <1>6 DEF TypeOK
  <2>2. Promise(w)'
    BY <1>3, <1>6, <2>1 DEF Promise
  <2> QED
    BY <1>2, <1>3, <1>6, <2>1, <2>2, CountsMove
<1>7. CASE CheckShort(w) /\ ~(Count(call[w].ip, call[w].now - ShortWindow) >= LimitShort)
  <2> DEFINE r == [call[w] EXCEPT !.at = "long"]
  <2>1. call' = [call EXCEPT ![w] = r]
    BY <1>7 DEF CheckShort, Check, GoTo
  <2>2. r.at = "long" /\ r.seen = call[w].seen /\ r.ip = call[w].ip /\ r.now = call[w].now
    BY <1>2 DEF Calls
  <2> HIDE DEF r
  <2>3. Cardinality(Near(rows, posts, r.ip, r.seen, r.now - ShortWindow)) < LimitShort
    BY <1>2, <1>4, <1>7, <2>2, CountFits
  <2> QED
    BY <1>2, <1>6, <2>1, <2>2, <2>3 DEF Promise
<1>8. CASE CheckLong(w) /\ ~(Count(call[w].ip, call[w].now - LongWindow) >= LimitLong)
  <2> DEFINE r == [call[w] EXCEPT !.at = "stamp"]
  <2>1. call' = [call EXCEPT ![w] = r] /\ call[w].at = "long"
    BY <1>8 DEF CheckLong, Check, GoTo, At
  <2>2. r.at = "stamp" /\ r.seen = call[w].seen /\ r.ip = call[w].ip /\ r.now = call[w].now
    BY <1>2 DEF Calls
  <2> HIDE DEF r
  <2>3. Cardinality(Near(rows, posts, r.ip, r.seen, r.now - LongWindow)) < LimitLong
    BY <1>2, <1>4, <1>8, <2>2, CountFits
  <2> QED
    BY <1>2, <1>6, <2>1, <2>2, <2>3 DEF Promise
<1>9. CASE Stamp(w)
  <2> DEFINE r == [call[w] EXCEPT !.at = "insert", !.now = clock]
  <2>1. call' = [call EXCEPT ![w] = r] /\ call[w].at = "stamp"
    BY <1>9 DEF Stamp, At
  <2>2. r.at = "insert" /\ r.seen = call[w].seen /\ r.ip = call[w].ip /\ r.now = clock
    BY <1>2 DEF Calls
  <2> HIDE DEF r
  <2>3. call[w].now <= clock /\ clock \in Nat
    BY <1>1, <1>2 DEF Placed, TypeOK, Times
  <2>4. \A p \in 1..call[w].seen : posts[p].ts <= r.now
    <3> SUFFICES ASSUME NEW p \in 1..call[w].seen PROVE posts[p].ts <= clock
      BY <2>2
    <3>1. call[w].seen <= Len(posts) /\ DOMAIN posts = 1..Len(posts) /\ Len(posts) \in Nat
      BY <1>1, <1>2 DEF Placed, TypeOK
    <3>2. p \in DOMAIN posts
      BY <1>2, <3>1
    <3> QED
      BY <1>1, <3>2 DEF Placed
  <2>5. ASSUME NEW d \in Nat, NEW limit \in Nat,
               Cardinality(Near(rows, posts, call[w].ip, call[w].seen, call[w].now - d)) < limit
        PROVE  Cardinality(Near(rows, posts, r.ip, r.seen, r.now - d)) < limit
    <3>1. call[w].now - d \in Int /\ r.now - d \in Int /\ call[w].now - d <= r.now - d
      BY <1>2, <2>2, <2>3
    <3>2. /\ Cardinality(Near(rows, posts, call[w].ip, call[w].seen, call[w].now - d)) \in Nat
          /\ Cardinality(Near(rows, posts, call[w].ip, call[w].seen, r.now - d)) \in Nat
          /\ Cardinality(Near(rows, posts, call[w].ip, call[w].seen, r.now - d))
               <= Cardinality(Near(rows, posts, call[w].ip, call[w].seen, call[w].now - d))
      BY <1>1, <1>2, <3>1, RowsAre, NearFewer
    <3> QED
      BY <2>2, <2>5, <3>2
  <2> QED
    BY <1>2, <1>4, <1>6, <2>1, <2>2, <2>4, <2>5 DEF Promise
<1>10. \/ call' = [call EXCEPT ![w] = None]
       \/ CheckShort(w) /\ ~(Count(call[w].ip, call[w].now - ShortWindow) >= LimitShort)
       \/ CheckLong(w) /\ ~(Count(call[w].ip, call[w].now - LongWindow) >= LimitLong)
       \/ Stamp(w)
  BY DEF CheckShort, CheckLong, Check
<1> QED
  BY <1>5, <1>7, <1>8, <1>9, <1>10

\* A note that goes in takes its thread out of those on the way, and comes after
\* every note that another has seen.
LEMMA CountsInsert ==
  ASSUME Ledger, Ledger', Counts, NEW w \in Workers, Insert(w) PROVE Counts'
<1> DEFINE q == Len(posts) + 1
           n == Row(w)
<1>1. TypeOK /\ TypeOK' /\ Placed
  BY DEF Ledger
<1>2. Coming(w) /\ call[w] # None /\ call[w].at = "insert" /\ Promise(w)
  BY DEF Insert, At, Coming, Counts
<1>3. call[w].seen \in Nat /\ call[w].seen <= Len(posts) /\ call[w].now \in Nat
  BY <1>1, <1>2, CallsAre DEF Placed
<1>4. /\ Len(posts) \in Nat /\ DOMAIN posts = 1..Len(posts)
      /\ rows' = rows \cup {q} /\ rows \subseteq 1..Len(posts)
      /\ Len(posts') = q /\ DOMAIN posts' = 1..q
      /\ posts'[q] = n
      /\ \A p \in DOMAIN posts : posts'[p] = posts[p]
      /\ Past(w) \in Calls /\ call' = [call EXCEPT ![w] = Past(w)]
  BY Inserted
<1>5. n.ip = call[w].ip /\ n.ts = call[w].now /\ n.seen = call[w].seen /\ Past(w).at = "rowid"
  BY DEF Row, Past
<1>6. q \in Nat /\ q > Len(posts) /\ q = Len(posts) + 1
  BY <1>4
<1> HIDE DEF q, n
<1>7. call'[w] = Past(w) /\ \A v \in Workers : v # w => call'[v] = call[v]
  BY <1>1, <1>4 DEF TypeOK
<1>8. \A p \in rows' : p # q => p \in rows
  BY <1>4
<1>9. Crowd'
  <2> SUFFICES ASSUME NEW m \in 0..q
               PROVE  Cardinality(Across(m)') + Cardinality(Waiting(m)') <= Cardinality(Workers)
    BY <1>4 DEF Crowd
  <2>1. /\ IsFiniteSet(Waiting(m)) /\ Cardinality(Waiting(m)) \in Nat
        /\ IsFiniteSet(Across(m)) /\ Cardinality(Across(m)) \in Nat
        /\ Cardinality(Workers) \in Nat
    BY <1>1, CrowdSets
  <2>2. \A v \in Workers : v \in Waiting(m)' <=> v \in Waiting(m) /\ v # w
    BY <1>5, <1>7 DEF Waiting, Coming
  <2>3. CASE m = q
    <3>1. Across(m)' = {}
      BY <1>4, <1>6, <2>3 DEF Across
    <3>2. Cardinality(Across(m)') = 0
      BY <3>1, FS_EmptySet
    <3>3. IsFiniteSet(Workers) /\ Waiting(m)' \subseteq Workers
      BY DEF Waiting
    <3>4. Cardinality(Waiting(m)') \in Nat /\ Cardinality(Waiting(m)') <= Cardinality(Workers)
      BY <3>3, FS_Subset, FS_CardinalityType
    <3> QED
      BY <2>1, <3>2, <3>4
  <2>4. CASE m # q
    <3>1. m \in 0..Len(posts) /\ m < q
      BY <1>4, <1>6, <2>4
    <3>2. Cardinality(Across(m)) + Cardinality(Waiting(m)) <= Cardinality(Workers)
      BY <3>1 DEF Counts, Crowd
    <3>3. CASE call[w].seen <= m
      <4>1. Across(m)' = Across(m) \cup {q} /\ q \notin Across(m)
        <5>1. \A p : p \in Across(m)' <=> p \in Across(m) \/ p = q
          BY <1>4, <1>5, <1>6, <3>1, <3>3 DEF Across
        <5>2. q \notin Across(m)
          BY <1>4, <1>6 DEF Across
        <5> QED
          BY <5>1, <5>2
      <4>2. Waiting(m)' = Waiting(m) \ {w} /\ w \in Waiting(m)
        <5>1. w \in Waiting(m)
          BY <1>2, <3>3 DEF Waiting
        <5>2. \A v : v \in Waiting(m)' => v \in Workers
          BY DEF Waiting
        <5>3. \A v : v \in Waiting(m) => v \in Workers
          BY DEF Waiting
        <5> QED
          BY <2>2, <5>1, <5>2, <5>3
      <4>3. Cardinality(Across(m)') = Cardinality(Across(m)) + 1
        BY <2>1, <4>1, FS_AddElement
      <4>4. Cardinality(Waiting(m)') = Cardinality(Waiting(m)) - 1
        BY <2>1, <4>2, FS_RemoveElement
      <4> QED
        BY <2>1, <3>2, <4>3, <4>4
    <3>4. CASE ~(call[w].seen <= m)
      <4>1. Across(m)' = Across(m)
        <5>1. \A p : p \in Across(m)' <=> p \in Across(m)
          BY <1>4, <1>5, <1>6, <3>1, <3>4 DEF Across
        <5> QED
          BY <5>1
      <4>2. Waiting(m)' \subseteq Waiting(m)
        <5>1. \A v : v \in Waiting(m)' => v \in Workers
          BY DEF Waiting
        <5> QED
          BY <2>2, <5>1
      <4>3. Cardinality(Waiting(m)') <= Cardinality(Waiting(m)) /\ Cardinality(Waiting(m)') \in Nat
        BY <2>1, <4>2, FS_Subset, FS_CardinalityType
      <4> QED
        BY <2>1, <3>2, <4>1, <4>3
    <3> QED
      BY <3>3, <3>4
  <2> QED
    BY <2>3, <2>4
<1>10. ASSUME NEW v \in Workers, Coming(v)' PROVE Promise(v)'
  <2>1. v # w
    BY <1>5, <1>7, <1>10 DEF Coming
  <2>2. call'[v] = call[v] /\ Coming(v) /\ Promise(v)
    BY <1>7, <1>10, <2>1 DEF Coming, Counts
  <2>3. call[v].seen \in Nat /\ call[v].seen <= Len(posts)
    BY <1>1, <2>2, CallsAre DEF Placed, Coming
  <2>4. \A p \in 1..call[v].seen : posts'[p] = posts[p]
    BY <1>4, <2>3
  <2>5. \A p \in rows' : p <= call[v].seen => p \in rows
    BY <1>4, <1>6, <1>8, <2>3
  <2> QED
    BY <2>2, <2>4, <2>5, PromiseStays
<1>11. ASSUME NEW p \in rows' PROVE Kept(p)'
  <2>1. CASE p \in rows
    <3>1. p \in 1..Len(posts) /\ Kept(p)
      BY <1>4, <2>1 DEF Counts
    <3>2. \A x \in 1..p : posts'[x] = posts[x]
      BY <1>4, <3>1
    <3>3. \A x \in rows' : x <= p => x \in rows
      BY <1>4, <1>6, <1>8, <3>1
    <3> QED
      BY <2>1, <3>1, <3>2, <3>3, KeptStays
  <2>2. CASE p = q
    <3> DEFINE c == call[w].ip
               k == call[w].seen
               ts == call[w].now
    <3>1. \A x \in rows' : x <= k => x \in rows /\ posts'[x] = posts[x]
      BY <1>3, <1>4, <1>6, <1>8
    <3>2. k \in Nat /\ ts \in Nat
      BY <1>3
    <3>3. \A x \in rows : x \in Nat /\ posts[x].ts \in Nat
      BY <1>1, RowsAre
    <3>4. /\ Cardinality(Near(rows, posts, c, k, ts - ShortWindow)) < LimitShort
          /\ Cardinality(Near(rows, posts, c, k, ts - LongWindow)) < LimitLong
      BY <1>2 DEF Promise
    <3>5. posts'[p].ip = c /\ posts'[p].seen = k /\ posts'[p].ts = ts
      BY <1>4, <1>5, <2>2
    <3> HIDE DEF c, k, ts
    <3>6. ASSUME NEW d \in Nat, NEW limit \in Nat, Cardinality(Near(rows, posts, c, k, ts - d)) < limit
          PROVE  Cardinality(Near(rows', posts', c, k, ts - d)) < limit
      <4>1. ts - d \in Int /\ ts - d <= ts - d
        BY <3>2
      <4>2. /\ Cardinality(Near(rows, posts, c, k, ts - d)) \in Nat
            /\ Cardinality(Near(rows', posts', c, k, ts - d)) \in Nat
            /\ Cardinality(Near(rows', posts', c, k, ts - d)) <= Cardinality(Near(rows, posts, c, k, ts - d))
        BY <3>1, <3>2, <3>3, <4>1, NearFewer
      <4> QED
        BY <3>6, <4>2
    <3>7. LimitShort \in Nat /\ ShortWindow \in Nat /\ LimitLong \in Nat /\ LongWindow \in Nat
      OBVIOUS
    <3>8. /\ Cardinality(Near(rows', posts', c, k, ts - ShortWindow)) < LimitShort
          /\ Cardinality(Near(rows', posts', c, k, ts - LongWindow)) < LimitLong
      BY <3>4, <3>6, <3>7
    <3> QED
      BY <3>5, <3>8 DEF Kept
  <2> QED
    BY <1>4, <2>1, <2>2
<1> QED
  BY <1>9, <1>10, <1>11 DEF Counts

\* Every step keeps the counts.
LEMMA CountsStep == Ledger /\ Counts /\ [Next]_vars => Counts'
<1> SUFFICES ASSUME Ledger, Counts, [Next]_vars PROVE Counts'
  OBVIOUS
<1>1. Ledger' /\ TypeOK
  BY LedgerStep DEF Ledger
<1>2. ASSUME NEW w \in Workers, ReadRowid(w) PROVE Counts'
  <2> DEFINE r == [call[w] EXCEPT !.at = "mesh", !.id = last_rowid]
  <2>1. call' = [call EXCEPT ![w] = r] /\ UNCHANGED <<posts, rows>>
    BY <1>2 DEF ReadRowid, database, history
  <2>2. call[w] \in Calls
    BY <1>1, <1>2, CallsAre DEF ReadRowid, At
  <2>3. r.at = "mesh"
    BY <2>2 DEF Calls
  <2> HIDE DEF r
  <2>4. call'[w] = r /\ \A v \in Workers : v # w => call'[v] = call[v]
    BY <1>1, <2>1 DEF TypeOK
  <2>5. ~Coming(w)'
    BY <2>3, <2>4 DEF Coming
  <2> QED
    BY <1>1, <2>1, <2>4, <2>5, CountsMove
<1>3. ASSUME NEW w \in Workers, NEW taken, NEW answered, HandOver(w, taken, answered) PROVE Counts'
  <2>1. call' = [call EXCEPT ![w] = None] /\ UNCHANGED <<posts, rows>>
    BY <1>3 DEF HandOver, Reply, database
  <2>2. call'[w] = None /\ \A v \in Workers : v # w => call'[v] = call[v]
    BY <1>1, <2>1 DEF TypeOK
  <2>3. ~Coming(w)'
    BY <2>2 DEF Coming
  <2> QED
    BY <1>1, <2>1, <2>2, <2>3, CountsMove
<1>4. ASSUME NEW w \in Workers, PostStep(w) PROVE Counts'
  BY <1>1, <1>2, <1>3, <1>4, CountsCheck, CountsInsert DEF PostStep
<1>5. ASSUME NEW w \in Workers, NEW c \in Clients, BeginPost(w, c) PROVE Counts'
  BY <1>1, <1>5, CountsBegin
<1>6. CASE (\E p \in rows : DeleteNote(p)) \/ Wipe \/ Tick \/ UNCHANGED vars
  <2>1. UNCHANGED <<posts, call>> /\ rows' \subseteq rows
    BY <1>6 DEF DeleteNote, Wipe, Tick, history, database, vars
  <2> QED
    BY <1>1, <2>1, CountsFewer
<1>7. CASE Restart
  <2>1. rows' = {} /\ posts' = <<>> /\ \A w \in Workers : call'[w] = None
    BY <1>7 DEF Restart
  <2>2. \A w \in Workers : ~Coming(w)'
    BY <2>1 DEF Coming
  <2>3. Crowd'
    <3> SUFFICES ASSUME NEW n \in 0..Len(posts')
                 PROVE  Cardinality(Across(n)') + Cardinality(Waiting(n)') <= Cardinality(Workers)
      BY DEF Crowd
    <3>1. Across(n)' = {} /\ Waiting(n)' = {}
      BY <2>1, <2>2 DEF Across, Waiting
    <3>2. Cardinality(Workers) \in Nat /\ Cardinality({}) = 0
      BY FS_CardinalityType, FS_EmptySet
    <3> QED
      BY <3>1, <3>2
  <2> QED
    BY <2>1, <2>2, <2>3 DEF Counts
<1> QED
  BY <1>4, <1>5, <1>6, <1>7 DEF Next

\* On an empty board nothing is under way.
LEMMA InitCounts == Init => Counts
<1> SUFFICES ASSUME Init PROVE Counts
  OBVIOUS
<1>1. rows = {} /\ posts = <<>> /\ \A w \in Workers : call[w] = None
  BY DEF Init
<1>2. \A w \in Workers : ~Coming(w)
  BY <1>1 DEF Coming
<1>3. Crowd
  <2> SUFFICES ASSUME NEW n \in 0..Len(posts)
               PROVE  Cardinality(Across(n)) + Cardinality(Waiting(n)) <= Cardinality(Workers)
    BY DEF Crowd
  <2>1. Across(n) = {} /\ Waiting(n) = {}
    BY <1>1, <1>2 DEF Across, Waiting
  <2>2. Cardinality(Workers) \in Nat /\ Cardinality({}) = 0
    BY FS_CardinalityType, FS_EmptySet
  <2> QED
    BY <2>1, <2>2
<1> QED
  BY <1>1, <1>2, <1>3 DEF Counts

IInv == Ledger /\ Counts

\* Records and counts hold in every reachable state.
LEMMA Invariance == Spec => []IInv
<1>1. Init => IInv
  BY InitLedger, InitCounts DEF IInv
<1>2. IInv /\ [Next]_vars => IInv'
  BY LedgerStep, CountsStep DEF IInv
<1> QED
  BY <1>1, <1>2, PTL DEF Spec

\* rate_limit.check: with LIMIT_SHORT 1, of two notes of one client that the
\* board shows within a short window of each other the second was already being
\* posted when the first went in.  No client that awaits its answer gets there.
THEOREM Spacing ==
  ASSUME LimitShort = 1 PROVE Spec => []VisibleSpacing
<1>1. IInv => VisibleSpacing
  <2> SUFFICES ASSUME IInv, NEW p \in rows, NEW q \in rows, p < q, posts[p].ip = posts[q].ip,
                      posts[q].ts - posts[p].ts <= ShortWindow
               PROVE  posts[q].seen < p
    BY DEF VisibleSpacing
  <2> DEFINE S == Near(rows, posts, posts[q].ip, posts[q].seen, posts[q].ts - ShortWindow)
  <2>1. TypeOK
    BY DEF IInv, Ledger
  <2>2. /\ p \in Nat /\ posts[p].ts \in Nat /\ posts[q].ts \in Nat /\ posts[q].seen \in Nat
        /\ \A x \in rows : x \in Nat /\ posts[x].ts \in Nat
    BY <2>1, RowsAre, NotesAre
  <2>3. ASSUME posts[q].seen >= p PROVE FALSE
    <3>1. p \in S
      BY <2>2, <2>3 DEF Near
    <3>2. IsFiniteSet(S) /\ Cardinality(S) \in Nat
      <4>1. posts[q].ts - ShortWindow \in Int /\ posts[q].ts - ShortWindow <= posts[q].ts - ShortWindow
        BY <2>2
      <4> QED
        BY <2>2, <4>1, NearFewer
    <3>3. Cardinality(S) < 1
      BY DEF IInv, Counts, Kept
    <3> HIDE DEF S
    <3>4. S = {}
      BY <3>2, <3>3, FS_EmptySet
    <3> QED
      BY <3>1, <3>4
  <2> QED
    BY <2>2, <2>3
<1> QED
  BY <1>1, Invariance, PTL

\* Of some notes, one has seen at least as much as any other.
LEMMA GreatestSeen ==
  ASSUME TypeOK, NEW S \in SUBSET DOMAIN posts, S # {}
  PROVE  \E m \in S : \A x \in S : posts[x].seen <= posts[m].seen
<1> DEFINE T == {posts[x].seen : x \in S}
<1>1. T \subseteq 0..MaxPosts /\ T # {} /\ MaxPosts \in Nat
  BY NotesAre DEF Note
<1> HIDE DEF T
<1>2. \E k \in T : \A x \in T : x <= k
  <2> DEFINE U == {k \in Nat : \A x \in T : x <= k}
  <2>1. MaxPosts \in U /\ U \subseteq Nat
    BY <1>1
  <2> HIDE DEF U
  <2>2. PICK k \in U : \A j \in U : k <= j
    BY <2>1, LeastNumber
  <2>3. k \in Nat /\ \A x \in T : x <= k
    BY <2>2 DEF U
  <2>4. k \in T
    <3> SUFFICES ASSUME k \notin T PROVE FALSE
      OBVIOUS
    <3>1. \A x \in T : x \in Nat /\ x <= k /\ x # k
      BY <1>1, <2>3
    <3>2. k # 0
      <4>1. PICK x \in T : TRUE
        BY <1>1
      <4>2. x \in Nat /\ x <= k /\ x # k
        BY <3>1
      <4> QED
        BY <2>3, <4>2
    <3>3. k - 1 \in Nat
      BY <2>3, <3>2
    <3>4. \A x \in T : x <= k - 1
      BY <2>3, <3>1
    <3>5. k - 1 \in U
      BY <3>3, <3>4 DEF U
    <3>6. k <= k - 1
      BY <2>2, <3>5
    <3> QED
      BY <2>3, <3>6
  <2> QED
    BY <2>3, <2>4
<1>3. PICK k \in T : \A x \in T : x <= k
  BY <1>2
<1>4. PICK m \in S : posts[m].seen = k
  BY <1>3 DEF T
<1> QED
  BY <1>3, <1>4 DEF T

\* The rate limit's ceiling, for any limits and windows: within a long window the
\* board shows at most LIMIT_LONG notes of one client, and one more for each
\* further request thread.
THEOREM CeilingHolds == Spec => []VisibleCeiling
<1>1. IInv => VisibleCeiling
  <2> SUFFICES ASSUME IInv, NEW q \in rows
               PROVE  Cardinality({p \in rows : /\ posts[p].ip = posts[q].ip
                               /\ posts[p].ts \in (posts[q].ts - LongWindow)..posts[q].ts})
                        <= LimitLong + Cardinality(Workers) - 1
    BY DEF VisibleCeiling
  <2> DEFINE S == {p \in rows : /\ posts[p].ip = posts[q].ip
                                /\ posts[p].ts \in (posts[q].ts - LongWindow)..posts[q].ts}
  <2>1. TypeOK /\ Placed /\ Counts
    BY DEF IInv, Ledger
  <2>2. \A x \in rows : x \in Nat /\ x \in DOMAIN posts /\ posts[x].ts \in Nat /\ posts[x].seen \in Nat
                         /\ posts[x].seen < x /\ x \in 1..Len(posts) /\ Len(posts) \in Nat
    BY <2>1, RowsAre, NotesAre DEF Placed
  <2>3. q \in S /\ S \in SUBSET DOMAIN posts
    BY <2>2
  <2>4. PICK m \in S : \A x \in S : posts[x].seen <= posts[m].seen
    BY <2>1, <2>3, GreatestSeen
  <2> DEFINE k == posts[m].seen
             A == Near(rows, posts, posts[m].ip, k, posts[m].ts - LongWindow)
             B == Across(k)
  <2>5. m \in rows /\ k \in Nat /\ k \in 0..Len(posts) /\ posts[m].ts \in Nat /\ posts[m].ip = posts[q].ip
        /\ posts[m].ts <= posts[q].ts
    BY <2>2
  <2>6. \A x \in S : x \in A \/ x \in B
    <3> SUFFICES ASSUME NEW x \in S PROVE x \in A \/ x \in B
      OBVIOUS
    <3>1. /\ x \in rows /\ posts[x].ip = posts[q].ip /\ posts[x].ts >= posts[q].ts - LongWindow
          /\ posts[x].seen <= k /\ x \in Nat /\ posts[x].ts \in Nat /\ x \in DOMAIN posts
      BY <2>2, <2>4
    <3>2. CASE x <= k
      <4>1. posts[x].ts >= posts[m].ts - LongWindow
        BY <2>2, <2>5, <3>1
      <4> QED
        BY <2>5, <3>1, <3>2, <4>1 DEF Near
    <3>3. CASE ~(x <= k)
      BY <2>5, <3>1, <3>3 DEF Across
    <3> QED
      BY <3>2, <3>3
  <2>7. IsFiniteSet(A) /\ Cardinality(A) \in Nat
    <3>1. posts[m].ts - LongWindow \in Int /\ posts[m].ts - LongWindow <= posts[m].ts - LongWindow
      BY <2>5
    <3> QED
      BY <2>2, <2>5, <3>1, NearFewer
  <2>8. Cardinality(A) < LimitLong /\ LimitLong \in Nat
    BY <2>1, <2>5 DEF Counts, Kept
  <2>9. /\ IsFiniteSet(B) /\ Cardinality(B) \in Nat /\ Cardinality(Workers) \in Nat
        /\ Cardinality(Waiting(k)) \in Nat
    BY <2>1, CrowdSets
  <2>10. Cardinality(B) + Cardinality(Waiting(k)) <= Cardinality(Workers)
    BY <2>1, <2>5 DEF Counts, Crowd
  <2> HIDE DEF S, A, B, k
  <2>11. S \subseteq A \cup B
    BY <2>6
  <2>12. IsFiniteSet(A \cup B) /\ Cardinality(A \cup B) <= Cardinality(A) + Cardinality(B)
    <3>1. /\ IsFiniteSet(A \cup B) /\ IsFiniteSet(A \cap B)
          /\ Cardinality(A \cup B) = Cardinality(A) + Cardinality(B) - Cardinality(A \cap B)
      BY <2>7, <2>9, FS_Union, FS_Intersection
    <3>2. Cardinality(A \cap B) \in Nat
      BY <3>1, FS_CardinalityType
    <3> QED
      BY <2>7, <2>9, <3>1, <3>2
  <2>13. Cardinality(S) <= Cardinality(A \cup B) /\ Cardinality(S) \in Nat /\ Cardinality(A \cup B) \in Nat
    BY <2>11, <2>12, FS_Subset, FS_CardinalityType
  <2>14. Cardinality(S) <= LimitLong + Cardinality(Workers) - 1
    BY <2>7, <2>8, <2>9, <2>10, <2>12, <2>13
  <2> QED
    BY <2>14 DEF S
<1> QED
  BY <1>1, Invariance, PTL

-----------------------------------------------------------------------------
(* The refinement.                                                         *)

\* The prover takes the two modules' Cardinality for two operators.
LEMMA SameCount == \A S : Board!Cardinality(S) = Cardinality(S)
BY DEF Cardinality, Board!Cardinality

\* The INSERT is the post of the one-step board.
LEMMA InsertPosts ==
  ASSUME IInv, NEW w \in Workers, Insert(w) PROVE Board!Next
<1> DEFINE c == call[w].ip
           ts == call[w].now
           k == call[w].seen
           q == Len(posts) + 1
<1>1. Ledger /\ Counts /\ TypeOK /\ Placed /\ Handing
  BY DEF IInv, Ledger
<1>2. Coming(w) /\ call[w] # None /\ call[w].at = "insert" /\ Promise(w)
  BY <1>1 DEF Insert, At, Coming, Counts
<1>3. /\ Len(posts) \in Nat /\ DOMAIN posts = 1..Len(posts) /\ rows \subseteq 1..Len(posts)
      /\ posts' = Append(posts, Row(w)) /\ rows' = rows \cup {q}
      /\ DOMAIN posts' = 1..q /\ \A p \in DOMAIN posts : posts'[p] = posts[p]
      /\ q \in Ids /\ UNCHANGED <<clock, handed, replies>>
  BY <1>1, Inserted
<1>4. c \in Clients /\ ts \in Nat /\ ts <= clock /\ clock \in Nat /\ k \in Nat /\ k <= Len(posts)
  <2>1. c \in Clients /\ ts \in Nat /\ k \in Nat
    BY <1>1, <1>2, CallsAre
  <2>2. ts <= clock /\ k <= Len(posts)
    BY <1>1, <1>2 DEF Placed
  <2>3. clock \in Nat
    BY <1>1 DEF TypeOK, Times
  <2> QED
    BY <2>1, <2>2, <2>3
<1>5. ts \in 0..clock /\ k \in 0..Len(posts)
  BY <1>3, <1>4
<1>6. next_id \in 1..q
  BY <1>1, <1>3 DEF TypeOK, Placed
<1>7. \A p \in DOMAIN posts : posts[p].id < next_id
  BY <1>1 DEF Placed
<1>8. /\ Cardinality(Near(rows, posts, c, k, ts - ShortWindow)) < LimitShort
      /\ Cardinality(Near(rows, posts, c, k, ts - LongWindow)) < LimitLong
  BY <1>2 DEF Promise
<1>9. \A p \in rows : p <= k => posts[p].ts <= ts
  <2> SUFFICES ASSUME NEW p \in rows, p <= k PROVE posts[p].ts <= ts
    OBVIOUS
  <2>1. p \in 1..k
    BY <1>3, <1>4
  <2> QED
    BY <1>2, <2>1 DEF Promise
<1>10. ASSUME NEW m \in k..Len(posts) PROVE Cardinality(Across(m)) < Cardinality(Workers)
  <2>1. m \in 0..Len(posts) /\ k <= m
    BY <1>3, <1>4
  <2>2. Cardinality(Across(m)) + Cardinality(Waiting(m)) <= Cardinality(Workers)
    BY <1>1, <2>1 DEF Counts, Crowd
  <2>3. /\ IsFiniteSet(Waiting(m)) /\ Cardinality(Waiting(m)) \in Nat
        /\ Cardinality(Across(m)) \in Nat /\ Cardinality(Workers) \in Nat
    BY <1>1, CrowdSets
  <2>4. w \in Waiting(m)
    BY <1>2, <2>1 DEF Waiting
  <2>5. Cardinality(Waiting(m)) # 0
    BY <2>3, <2>4, FS_EmptySet
  <2> QED
    BY <2>2, <2>3, <2>5
<1>11. OnMesh' = OnMesh
  <2>1. handed[q] = 0
    BY <1>1, <1>3 DEF Handing
  <2>2. \A p : p \in 1..q <=> p \in 1..Len(posts) \/ p = q
    BY <1>3
  <2> HIDE DEF q
  <2>3. \A p : p \in OnMesh' <=> p \in OnMesh
    BY <1>3, <2>1, <2>2 DEF OnMesh
  <2> QED
    BY <2>3 DEF OnMesh
<1>12. Row(w) = [ip |-> c, ts |-> ts, id |-> next_id, seen |-> k]
  BY DEF Row
<1> HIDE DEF c, ts, k
<1>13. /\ Board!Recent(c, k, ts - ShortWindow) < LimitShort
       /\ Board!Recent(c, k, ts - LongWindow) < LimitLong
  <2>1. ASSUME NEW d PROVE Board!Recent(c, k, d) = Cardinality(Near(rows, posts, c, k, d))
    <3>1. {p \in Board!Before(c, k) : posts[p].ts >= d} = Near(rows, posts, c, k, d)
      BY DEF Board!Before, Near
    <3> QED
      BY <3>1, SameCount DEF Board!Recent
  <2> QED
    BY <1>8, <2>1
<1>14. \A m \in k..Len(posts) : Board!Cardinality(Board!Across(m)) < Cardinality(Workers)
  <2> SUFFICES ASSUME NEW m \in k..Len(posts)
               PROVE  Board!Cardinality(Board!Across(m)) < Cardinality(Workers)
    OBVIOUS
  <2>1. Board!Across(m) = Across(m)
    BY DEF Board!Across, Across
  <2> QED
    BY <1>10, <2>1, SameCount
<1>15. \A p \in Board!Before(c, k) : posts[p].ts <= ts
  BY <1>9 DEF Board!Before
<1>16. posts' = Append(posts, [ip |-> c, ts |-> ts, id |-> next_id, seen |-> k])
  BY <1>3, <1>12
<1>17. Board!Post(c)
  BY <1>3, <1>5, <1>6, <1>7, <1>11, <1>13, <1>14, <1>15, <1>16 DEF Board!Post
<1> QED
  BY <1>4, <1>17 DEF Board!Next, c

\* A hand-over is the answer to a note that has none, whether the mesh takes it
\* or not.
LEMMA HandOverAnswers ==
  ASSUME IInv, NEW w \in Workers, NEW taken \in BOOLEAN, NEW answered \in BOOLEAN,
         HandOver(w, taken, answered)
  PROVE  Board!Next
<1> DEFINE p == call[w].post
<1>1. TypeOK /\ Placed /\ Handing
  BY DEF IInv, Ledger
<1>2. /\ Stored(w) /\ p \in DOMAIN posts /\ handed[p] = 0 /\ At(w, "mesh")
      /\ DOMAIN posts = 1..Len(posts) /\ Len(posts) \in Nat /\ Len(posts) <= MaxPosts
      /\ \A a \in replies : a.post # p
  BY <1>1 DEF HandOver, At, Stored, Placed, Handing, TypeOK
<1>3. UNCHANGED <<clock, rows, posts>> /\ replies' = replies \cup {[post |-> p, id |-> call[w].id]}
  BY DEF HandOver, Reply, database
<1>4. PICK n \in p..Len(posts) : call[w].id = posts[n].id
  BY <1>1, <1>2 DEF Placed
<1>5. handed \in [Ids -> Nat] /\ p \in Ids /\ DOMAIN posts \subseteq Ids
  <2>1. handed \in [Ids -> Nat] /\ MaxPosts \in Nat
    BY <1>1 DEF TypeOK
  <2>2. DOMAIN posts \subseteq Ids
    BY <1>2, <2>1 DEF Ids
  <2> QED
    BY <1>2, <2>1, <2>2
<1>6. handed' = IF taken THEN [handed EXCEPT ![p] = handed[p] + 1] ELSE handed
  BY <1>1, <1>2 DEF HandOver, Deliver
<1> HIDE DEF p
<1>7. p \notin OnMesh
  BY <1>2 DEF OnMesh
<1>8. OnMesh' = IF taken THEN OnMesh \cup {p} ELSE OnMesh
  <2>1. CASE taken
    <3>1. handed'[p] = 1 /\ \A x \in Ids : x # p => handed'[x] = handed[x]
      BY <1>2, <1>5, <1>6, <2>1
    <3>2. \A x : x \in OnMesh' <=> x \in OnMesh \/ x = p
      BY <1>2, <1>3, <1>5, <3>1 DEF OnMesh
    <3> QED
      BY <2>1, <3>2
  <2>2. CASE ~taken
    BY <1>3, <1>6, <2>2 DEF OnMesh
  <2> QED
    BY <2>1, <2>2
<1>9. Board!Answer(p, taken)
  BY <1>2, <1>3, <1>4, <1>7, <1>8 DEF Board!Answer
<1> QED
  BY <1>2, <1>9 DEF Board!Next

\* Every step of the code is a step of the one-step board, or none.
LEMMA NextOnBoard ==
  ASSUME IInv, [Next]_vars PROVE [Board!Next]_(Board!vars)
<1>1. ASSUME NEW w \in Workers, NEW c \in Clients, BeginPost(w, c) PROVE UNCHANGED Board!vars
  BY <1>1 DEF BeginPost, database, history, Board!vars, OnMesh
<1>2. ASSUME NEW w \in Workers, CheckShort(w) \/ CheckLong(w) \/ Stamp(w) \/ ReadRowid(w)
      PROVE  UNCHANGED Board!vars
  BY <1>2 DEF CheckShort, CheckLong, Check, Stamp, ReadRowid, database, history, Board!vars, OnMesh
<1>3. ASSUME NEW p \in rows, DeleteNote(p) PROVE Board!Next
  BY <1>3 DEF DeleteNote, history, Board!Next, Board!TakeDown, OnMesh
<1>4. CASE Wipe
  <2>1. rows' = rows \ rows /\ UNCHANGED <<clock, posts, replies>> /\ OnMesh' = OnMesh
    BY <1>4 DEF Wipe, history, OnMesh
  <2> QED
    BY <2>1 DEF Board!Next, Board!TakeDown
<1>5. CASE Tick
  BY <1>5 DEF Tick, database, history, Board!Next, Board!Pass, OnMesh
<1>6. CASE Restart
  BY <1>6 DEF Restart, Board!Next, Board!ComeBack, Board!Empty, OnMesh
<1>7. CASE UNCHANGED vars
  BY <1>7 DEF vars, Board!vars, OnMesh
<1> QED
  BY <1>1, <1>2, <1>3, <1>4, <1>5, <1>6, <1>7, InsertPosts, HandOverAnswers DEF Next, PostStep

\* post_note, counted, stamped and stored in six steps among other posts, also of
\* the same client, the owner and restarts, is one step of the board, and the
\* hand-over with its answer another, whatever the limits and the windows.
THEOREM PostsAreAtomic == Spec => ImplementsBoard
<1>1. Init => Board!Init
  BY DEF Init, Board!Init, Board!Empty, OnMesh
<1>2. IInv /\ [Next]_vars => [Board!Next]_(Board!vars)
  BY NextOnBoard
<1> QED
  BY Invariance, <1>1, <1>2, PTL DEF Spec, ImplementsBoard, Board!Spec

=============================================================================

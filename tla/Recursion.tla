------------------------------- MODULE Recursion -------------------------------
(***************************************************************************)
(* Induction over the natural numbers, and what it says of recursive       *)
(* functions and of FlattenSeq.  The provers cannot instantiate an         *)
(* induction principle that takes a predicate, so these take a set, and    *)
(* follow from the well-foundedness of the subset order of a finite set.   *)
(***************************************************************************)
EXTENDS Integers, Sequences, SequencesExt, SequenceTheorems, FiniteSetTheorems, TLAPS

\* A set of natural numbers has a least element: its initial segment includes no other.
LEMMA LeastElement ==
  ASSUME NEW T, T \subseteq Nat, T # {}
  PROVE  \E m \in T : \A n \in T : m <= n
<1>1. PICK n \in T : TRUE
  OBVIOUS
<1>2. n \in Nat /\ 0 \in Int
  BY <1>1
<1> DEFINE S == SUBSET (0..n)
<1> DEFINE R == StrictSubsetOrdering(0..n)
<1> DEFINE U == {0..k : k \in T \intersect (0..n)}
<1>3. IsFiniteSet(0..n)
  BY <1>2, FS_Interval
<1>4. IsWellFoundedOn(R, S)
  <2>1. FiniteSubsetsOf(0..n) = S
    BY <1>3, FS_FiniteSubsetsOfFinite
  <2>2. IsWellFoundedOn(R, FiniteSubsetsOf(0..n))
    BY FS_StrictSubsetOrderingWellFounded
  <2> QED  BY <2>1, <2>2
<1>5. U \subseteq S /\ U # {}
  BY <1>1, <1>2
<1>6. PICK x \in U : \A y \in U : ~ (<<y, x>> \in R)
  <2> HIDE DEF U, R, S
  <2> QED BY ONLY <1>4, <1>5, WFMin
<1>7. PICK m \in T \intersect (0..n) : x = 0..m
  BY <1>6
<1>8. ASSUME NEW k \in T, k < m PROVE FALSE
  <2>1. 0..k \in U /\ 0..k \subseteq 0..m /\ 0..k # 0..m
    BY <1>2, <1>8
  <2>2. <<0..k, 0..m>> \in R
    BY <1>5, <1>6, <1>7, <2>1 DEF StrictSubsetOrdering
  <2> QED  BY <1>6, <1>7, <2>1, <2>2
<1>9. m \in Nat /\ \A k \in T : k \in Nat
  OBVIOUS
<1> QED  BY <1>7, <1>8, <1>9

\* A set with 0 and the successor of each of its numbers has every natural number.
LEMMA SetInduction ==
  ASSUME NEW S, 0 \in S, \A n \in Nat : n \in S => n + 1 \in S
  PROVE  Nat \subseteq S
<1> DEFINE T == Nat \ S
<1>1. SUFFICES ASSUME T # {} PROVE FALSE
  OBVIOUS
<1>2. PICK m \in T : \A n \in T : m <= n
  BY <1>1, LeastElement
<1>3. m - 1 \in Nat /\ m - 1 \notin T
  BY <1>2
<1> QED  BY <1>3

\* The same up to a bound.
LEMMA BoundedInduction ==
  ASSUME NEW S, NEW n \in Nat, 0 \in S, \A k \in 0..(n - 1) : k \in S => k + 1 \in S
  PROVE  \A k \in 0..n : k \in S
<1> DEFINE T == {k \in Nat : k <= n => k \in S}
<1>1. 0 \in T
  OBVIOUS
<1>2. \A k \in Nat : k \in T => k + 1 \in T
  OBVIOUS
<1>3. Nat \subseteq T
  <2> HIDE DEF T
  <2> QED  BY <1>1, <1>2, SetInduction
<1> QED  BY <1>3

-----------------------------------------------------------------------------
(* Recursive functions.                                                    *)

\* What is computed from a value of X in any of n steps is one.
Steps(X, n, step) == \A i \in 1..n : \A x \in X : step[i][x] \in X

\* The values after each of the n steps.
Run(X, base, n, step, f) ==
    /\ f \in [0..n -> X] /\ f[0] = base
    /\ \A i \in 1..n : f[i] = step[i][f[i - 1]]

\* n steps can be taken.
LEMMA RecursionExists ==
  ASSUME NEW X, NEW base \in X, NEW n \in Nat, NEW step, Steps(X, n, step)
  PROVE  \E f : Run(X, base, n, step, f)
<1> USE DEF Steps
<1> DEFINE Runs(k) == {f \in [0..k -> X] : f[0] = base /\ \A i \in 1..k : f[i] = step[i][f[i - 1]]}
<1> DEFINE S == {k \in Nat : k <= n => Runs(k) # {}}
<1>1. 0 \in S
  <2>1. [i \in 0..0 |-> base] \in Runs(0)
    OBVIOUS
  <2> QED  BY <2>1
<1>2. ASSUME NEW k \in Nat, k \in S PROVE k + 1 \in S
  <2>1. SUFFICES ASSUME k + 1 <= n PROVE Runs(k + 1) # {}
    OBVIOUS
  <2>2. PICK f \in Runs(k) : TRUE
    BY <1>2, <2>1
  <2>3. f \in [0..k -> X] /\ f[0] = base /\ \A i \in 1..k : f[i] = step[i][f[i - 1]]
    BY <2>2
  <2> HIDE <2>2
  <2> DEFINE g == [i \in 0..(k + 1) |-> IF i = k + 1 THEN step[k + 1][f[k]] ELSE f[i]]
  <2>4. f[k] \in X /\ step[k + 1][f[k]] \in X
    BY <2>1, <2>3
  <2>5. g \in [0..(k + 1) -> X]
    BY <2>3, <2>4
  <2>6. g[0] = base
    BY <2>3
  <2>7. ASSUME NEW i \in 1..(k + 1) PROVE g[i] = step[i][g[i - 1]]
    <3>1. CASE i = k + 1
      <4>1. g[i] = step[k + 1][f[k]] /\ g[k] = f[k] /\ i - 1 = k
        BY <3>1
      <4> QED  BY <3>1, <4>1
    <3>2. CASE i # k + 1
      <4>1. i \in 1..k /\ g[i] = f[i] /\ g[i - 1] = f[i - 1]
        BY <3>2
      <4> QED  BY <2>3, <4>1
    <3> QED  BY <3>1, <3>2
  <2> QED  BY <2>5, <2>6, <2>7
<1>3. n \in S
  <2> HIDE DEF S
  <2> QED BY <1>1, <1>2, SetInduction
<1> QED  BY <1>3 DEF Run

\* Two functions are alike at m and go on alike up to n.
Alike(f, g, m, n) ==
    f[m] = g[m] /\ \A i \in (m + 1)..n : f[i - 1] = g[i - 1] => f[i] = g[i]

\* Then they are alike from m to n.
LEMMA Agreement ==
  ASSUME NEW f, NEW g, NEW m \in Nat, NEW n \in Nat, Alike(f, g, m, n)
  PROVE  \A i \in m..n : f[i] = g[i]
<1> USE DEF Alike
<1> DEFINE S == {k \in Nat : m + k <= n => f[m + k] = g[m + k]}
<1>1. 0 \in S
  OBVIOUS
<1>2. ASSUME NEW k \in Nat, k \in S PROVE k + 1 \in S
  <2> SUFFICES ASSUME m + (k + 1) <= n PROVE f[m + (k + 1)] = g[m + (k + 1)]
    OBVIOUS
  <2>1. m + (k + 1) \in (m + 1)..n /\ (m + (k + 1)) - 1 = m + k
    OBVIOUS
  <2>2. f[m + k] = g[m + k]
    BY <1>2
  <2> QED  BY <2>1, <2>2
<1>3. Nat \subseteq S
  <2> HIDE DEF S
  <2> QED  BY <1>1, <1>2, SetInduction
<1>4. ASSUME NEW i \in m..n PROVE f[i] = g[i]
  <2>1. i - m \in Nat /\ m + (i - m) = i
    OBVIOUS
  <2>2. i - m \in S
    BY <1>3, <2>1
  <2> QED  BY <2>1, <2>2
<1> QED  BY <1>4

-----------------------------------------------------------------------------
(* FlattenSeq.                                                             *)

\* f has the first sequences of s joined together.
Joins(X, n, s, f) ==
    /\ f \in [1..n -> Seq(X)]
    /\ f[1] = s[1] /\ \A i \in 2..n : f[i] = f[i - 1] \o s[i]
    /\ FlattenSeq(s) = f[n]

\* FlattenSeq joins the sequences one by one.
LEMMA FlattenRuns ==
  ASSUME NEW X, NEW n \in Nat, n >= 1, NEW s \in Seq(Seq(X)), Len(s) = n
  PROVE  \E f : Joins(X, n, s, f)
<1>1. \A i \in 1..n : s[i] \in Seq(X)
  OBVIOUS
<1> DEFINE step == [i \in 1..n |-> [r \in Seq(X) |-> IF i = 1 THEN s[i] ELSE r \o s[i]]]
<1>2. Steps(Seq(X), n, step)
  BY <1>1 DEF Steps
<1>3. PICK r : Run(Seq(X), <<>>, n, step, r)
  <2>1. <<>> \in Seq(X)
    OBVIOUS
  <2> HIDE DEF step
  <2> QED  BY <1>2, <2>1, RecursionExists
<1>4. r \in [0..n -> Seq(X)] /\ r[0] = <<>> /\ \A i \in 1..n : r[i] = step[i][r[i - 1]]
  BY <1>3 DEF Run
<1>5. ASSUME NEW i \in 1..n PROVE r[i] = IF i = 1 THEN s[i] ELSE r[i - 1] \o s[i]
  <2>1. i - 1 \in 0..n
    OBVIOUS
  <2>2. r[i - 1] \in Seq(X)
    BY <1>4, <2>1
  <2> QED  BY <1>4, <2>2
<1> DEFINE Def(h) == [i \in 1..n |-> IF i = 1 THEN s[i] ELSE h[i - 1] \o s[i]]
<1>6. PICK f : f = [i \in 1..n |-> r[i]]
  OBVIOUS
<1>7. f = Def(f) /\ f \in [1..n -> Seq(X)]
  <2>1. f \in [1..n -> Seq(X)]
    BY <1>4, <1>6
  <2>2. ASSUME NEW i \in 1..n PROVE f[i] = IF i = 1 THEN s[i] ELSE f[i - 1] \o s[i]
    <3>1. i # 1 => i - 1 \in 1..n
      OBVIOUS
    <3> QED  BY <1>5, <1>6, <3>1
  <2> QED  BY <1>6, <2>1, <2>2
<1>8. PICK g : g = CHOOSE h : h = Def(h)
  OBVIOUS
<1>9. g = Def(g)
  <2> HIDE DEF Def
  <2> QED  BY <1>7, <1>8
<1>10. FlattenSeq(s) = g[n]
  BY <1>8 DEF FlattenSeq
<1>11. f[1] = s[1] /\ g[1] = s[1]
  BY <1>7, <1>9
<1>12. ASSUME NEW i \in 2..n PROVE f[i] = f[i - 1] \o s[i] /\ g[i] = g[i - 1] \o s[i]
  <2>1. i \in 1..n /\ i # 1
    OBVIOUS
  <2> QED  BY <1>7, <1>9, <2>1
<1>13. f[n] = g[n]
  <2>1. Alike(f, g, 1, n)
    <3>1. ASSUME NEW i \in (1 + 1)..n, f[i - 1] = g[i - 1] PROVE f[i] = g[i]
      <4>1. i \in 2..n
        OBVIOUS
      <4> QED  BY <1>12, <3>1, <4>1
    <3> QED  BY <1>11, <3>1 DEF Alike
  <2>2. \A i \in 1..n : f[i] = g[i]
    BY <2>1, Agreement
  <2> QED  BY <2>2
<1> QED  BY <1>7, <1>10, <1>11, <1>12, <1>13 DEF Joins

\* Of no sequences.
LEMMA FlattenEmpty == FlattenSeq(<<>>) = <<>>
BY DEF FlattenSeq

\* Of one sequence more.
LEMMA FlattenAppend ==
  ASSUME NEW X, NEW s \in Seq(Seq(X)), NEW e \in Seq(X)
  PROVE  /\ FlattenSeq(s) \in Seq(X)
         /\ FlattenSeq(Append(s, e)) = FlattenSeq(s) \o e
<1>1. PICK n \in Nat : n = Len(s)
  OBVIOUS
<1>2. PICK t : t = Append(s, e)
  OBVIOUS
<1>3. /\ t \in Seq(Seq(X)) /\ Len(t) = n + 1 /\ t[n + 1] = e
      /\ \A i \in 1..n : t[i] = s[i]
  BY <1>1, <1>2
<1>4. PICK g : Joins(X, n + 1, t, g)
  <2>1. n + 1 \in Nat /\ n + 1 >= 1
    OBVIOUS
  <2> QED  BY <1>3, <2>1, FlattenRuns
<1>5. /\ g \in [1..(n + 1) -> Seq(X)]
      /\ g[1] = t[1] /\ \A i \in 2..(n + 1) : g[i] = g[i - 1] \o t[i]
      /\ FlattenSeq(t) = g[n + 1]
  BY <1>4 DEF Joins
<1>6. CASE n = 0
  <2>1. s = <<>>
    BY <1>1, <1>6, EmptySeq
  <2>2. FlattenSeq(s) = <<>>
    BY <2>1, FlattenEmpty
  <2>3. FlattenSeq(t) = e
    BY <1>3, <1>5, <1>6
  <2>4. <<>> \o e = e /\ <<>> \in Seq(X)
    OBVIOUS
  <2> QED  BY <1>2, <2>2, <2>3, <2>4
<1>7. CASE n # 0
  <2>1. PICK f : Joins(X, n, s, f)
    <3>1. n >= 1
      BY <1>7
    <3> QED  BY <1>1, <3>1, FlattenRuns
  <2>2. /\ f \in [1..n -> Seq(X)]
        /\ f[1] = s[1] /\ \A i \in 2..n : f[i] = f[i - 1] \o s[i]
        /\ FlattenSeq(s) = f[n]
    BY <2>1 DEF Joins
  <2>3. f[n] = g[n]
    <3>1. f[1] = g[1]
      BY <1>3, <1>5, <1>7, <2>2
    <3>2. ASSUME NEW i \in (1 + 1)..n, f[i - 1] = g[i - 1] PROVE f[i] = g[i]
      <4>1. i \in 2..n /\ i \in 2..(n + 1) /\ i \in 1..n
        OBVIOUS
      <4> QED  BY <1>3, <1>5, <2>2, <3>2, <4>1
    <3>3. \A i \in 1..n : f[i] = g[i]
      <4>1. Alike(f, g, 1, n)
        BY <3>1, <3>2 DEF Alike
      <4> QED  BY <4>1, Agreement
    <3>4. n \in 1..n
      BY <1>7
    <3> QED  BY <3>3, <3>4
  <2>4. g[n + 1] = g[n] \o e
    <3>1. n + 1 \in 2..(n + 1) /\ (n + 1) - 1 = n
      BY <1>7
    <3> QED  BY <1>3, <1>5, <3>1
  <2>5. f[n] \in Seq(X)
    BY <1>7, <2>2
  <2> QED  BY <1>2, <1>5, <2>2, <2>3, <2>4, <2>5
<1> QED  BY <1>6, <1>7

================================================================================

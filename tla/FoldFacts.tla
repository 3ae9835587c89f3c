----------------------------- MODULE FoldFacts ------------------------------
(***************************************************************************)
(* Induction, sums, folds and sorting in the form in which the provers can *)
(* use them: what is to be shown is a set or a function, never an operator.*)
(*                                                                         *)
(* The folds of the community modules are functions that are defined       *)
(* recursively over the subsets of a finite set.  A proof about one first  *)
(* shows that some function has the property wanted, then that it solves   *)
(* the same equation.                                                      *)
(***************************************************************************)
EXTENDS SequencesExt, FiniteSetTheorems, TLAPS

----------------------------------------------------------------------------
(* Induction.                                                              *)

Below == {p \in Nat \X Nat : p[1] < p[2]}

\* The order of the naturals is well-founded.
LEMMA BelowIsWellFounded == IsWellFoundedOn(Below, Nat)
<1>1. Below = OpToRel(<, Nat)
  BY Zenon DEF OpToRel, Below
<1> QED
  BY <1>1, NatLessThanWellFounded, Zenon

\* Every set of naturals that is not empty has a least element.
LEMMA LeastOf ==
    ASSUME NEW S \in SUBSET Nat, S # {}
    PROVE  \E x \in S : \A y \in S : x <= y
<1>1. PICK x \in S : \A y \in S : ~(<<y, x>> \in Below)
  BY WFMin, BelowIsWellFounded, Zenon
<1>2. ASSUME NEW y \in S PROVE x <= y
  <2>1. <<y, x>> \notin Below
    BY <1>1, Zenon
  <2>2. ~(y < x)
    BY <2>1 DEF Below
  <2> QED
    BY <2>2
<1> QED
  BY <1>2, Zenon

\* Induction over the naturals.
LEMMA InductionOnNat ==
    ASSUME NEW P \in SUBSET Nat, 0 \in P, \A n \in P : n + 1 \in P
    PROVE  P = Nat
<1> SUFFICES ASSUME Nat \ P # {} PROVE FALSE
  OBVIOUS
<1>1. PICK x \in Nat \ P : \A y \in Nat \ P : x <= y
  BY LeastOf
<1>2. x - 1 \in Nat /\ x - 1 \in P
  BY <1>1
<1>3. x = (x - 1) + 1
  BY <1>1
<1> QED
  BY <1>1, <1>2, <1>3

\* A finite set without one of its elements.
LEMMA OneLess ==
    ASSUME NEW S, IsFiniteSet(S), NEW n \in Nat, Cardinality(S) = n + 1, NEW x \in S
    PROVE  IsFiniteSet(S \ {x}) /\ Cardinality(S \ {x}) = n
<1>1. IsFiniteSet(S \ {x}) /\ Cardinality(S \ {x}) = Cardinality(S) - 1
  BY FS_RemoveElement
<1> QED
  BY <1>1

\* Induction over the subsets of a finite set, one element at a time.
LEMMA InductionOnSubsets ==
    ASSUME NEW S, IsFiniteSet(S), NEW P \in SUBSET SUBSET S, {} \in P,
           \A T \in P, x \in S : x \notin T => T \cup {x} \in P
    PROVE  P = SUBSET S
<1> DEFINE Q == {n \in Nat : \A T \in SUBSET S : Cardinality(T) = n => T \in P}
<1>1. \A T \in SUBSET S : IsFiniteSet(T) /\ Cardinality(T) \in Nat
  BY FS_Subset, FS_CardinalityType
<1>2. 0 \in Q
  BY <1>1, FS_EmptySet
<1>3. ASSUME NEW n \in Q PROVE n + 1 \in Q
  <2> SUFFICES ASSUME NEW T \in SUBSET S, Cardinality(T) = n + 1 PROVE T \in P
    OBVIOUS
  <2>1. PICK x \in T : TRUE
    BY <1>1, FS_EmptySet
  <2>2. Cardinality(T \ {x}) = n
    BY <1>1, OneLess
  <2>3. T \ {x} \in P
    BY <1>3, <2>2
  <2>4. x \in S /\ x \notin T \ {x} /\ (T \ {x}) \cup {x} = T
    BY <2>1
  <2> QED
    BY <2>3, <2>4
<1> HIDE DEF Q
<1>4. Q = Nat
  <2>1. Q \in SUBSET Nat
    BY DEF Q
  <2> QED
    BY <1>2, <1>3, <2>1, InductionOnNat
<1> QED
  BY <1>1, <1>4 DEF Q

----------------------------------------------------------------------------
(* Sums over a finite set.                                                 *)

\* The equation of MapThenSumSet for the summands w.
SumsUp(g, w, S) ==
    g = [T \in SUBSET S |-> IF T = {} THEN 0
                            ELSE w[CHOOSE x \in T : TRUE] + g[T \ {CHOOSE x \in T : TRUE}]]

\* What a sum is.
Additive(g, w, S) ==
    /\ g \in [SUBSET S -> Nat]
    /\ g[{}] = 0
    /\ \A T \in SUBSET S, x \in S : x \notin T => g[T \cup {x}] = g[T] + w[x]

LEMMA AdditiveExists ==
    ASSUME NEW S, IsFiniteSet(S), NEW w, \A x \in S : w[x] \in Nat
    PROVE  \E g : Additive(g, w, S)
<1> DEFINE P == {T \in SUBSET S : \E g : Additive(g, w, T)}
<1>1. {} \in P
  <2>1. Additive([T \in SUBSET {} |-> 0], w, {})
    BY DEF Additive
  <2> QED
    BY <2>1
<1>2. ASSUME NEW T \in P, NEW x \in S, x \notin T PROVE T \cup {x} \in P
  <2>1. PICK g : Additive(g, w, T)
    OBVIOUS
  <2> DEFINE R == T \cup {x}
             h == [U \in SUBSET R |-> IF x \in U THEN g[U \ {x}] + w[x] ELSE g[U]]
  <2>2. h \in [SUBSET R -> Nat] /\ h[{}] = 0
    <3>1. ASSUME NEW U \in SUBSET R PROVE h[U] \in Nat
      <4>1. CASE x \in U
        <5>1. U \ {x} \in SUBSET T
          OBVIOUS
        <5>2. g[U \ {x}] \in Nat
          BY <2>1, <5>1 DEF Additive
        <5> QED
          BY <4>1, <5>2
      <4>2. CASE x \notin U
        <5>1. U \in SUBSET T
          BY <4>2
        <5> QED
          BY <2>1, <4>2, <5>1 DEF Additive
      <4> QED
        BY <4>1, <4>2
    <3> QED
      BY <2>1, <3>1 DEF Additive
  <2>3. ASSUME NEW U \in SUBSET R, NEW y \in R, y \notin U PROVE h[U \cup {y}] = h[U] + w[y]
    <3>1. U \cup {y} \in SUBSET R
      OBVIOUS
    <3>2. CASE y = x
      <4>1. (U \cup {y}) \ {x} = U /\ U \in SUBSET T
        BY <2>3, <3>2
      <4> QED
        BY <2>3, <3>1, <3>2, <4>1
    <3>3. CASE y # x /\ x \in U
      <4>1. (U \cup {y}) \ {x} = (U \ {x}) \cup {y} /\ U \ {x} \in SUBSET T /\ y \in T
        BY <3>3
      <4>2. g[(U \ {x}) \cup {y}] = g[U \ {x}] + w[y]
        BY <2>1, <2>3, <4>1 DEF Additive
      <4>3. h[U \cup {y}] = g[(U \ {x}) \cup {y}] + w[x] /\ h[U] = g[U \ {x}] + w[x]
        BY <3>1, <3>3, <4>1
      <4>4. g[U \ {x}] \in Nat /\ w[x] \in Nat /\ w[y] \in Nat
        BY <2>1, <4>1 DEF Additive
      <4> QED
        BY <4>2, <4>3, <4>4
    <3>4. CASE y # x /\ x \notin U
      <4>1. U \in SUBSET T /\ y \in T /\ x \notin U \cup {y}
        BY <3>4
      <4> QED
        BY <2>1, <2>3, <3>1, <3>4, <4>1 DEF Additive
    <3> QED
      BY <3>2, <3>3, <3>4
  <2>4. Additive(h, w, R)
    BY <2>2, <2>3 DEF Additive
  <2> QED
    BY <1>2, <2>4
<1> HIDE DEF P
<1>3. P = SUBSET S
  <2>1. P \in SUBSET SUBSET S
    BY DEF P
  <2> QED
    BY <1>1, <1>2, <2>1, InductionOnSubsets
<1> QED
  BY <1>3 DEF P

\* The equation has one solution.
LEMMA SumsUpIsAdditive ==
    ASSUME NEW S, IsFiniteSet(S), NEW w, \A x \in S : w[x] \in Nat, NEW U, S \subseteq U,
           NEW g, NEW a, SumsUp(g, w, S), Additive(a, w, U)
    PROVE  \A T \in SUBSET S : g[T] = a[T]
<1> DEFINE P == {n \in Nat : \A T \in SUBSET S : Cardinality(T) = n => g[T] = a[T]}
<1>1. \A T \in SUBSET S : IsFiniteSet(T) /\ Cardinality(T) \in Nat
  BY FS_Subset, FS_CardinalityType
<1>2. 0 \in P
  <2>1. g[{}] = 0
    BY DEF SumsUp
  <2> QED
    BY <1>1, <2>1, FS_EmptySet DEF Additive
<1>3. ASSUME NEW n \in P PROVE n + 1 \in P
  <2> SUFFICES ASSUME NEW T \in SUBSET S, Cardinality(T) = n + 1 PROVE g[T] = a[T]
    OBVIOUS
  <2>1. T # {}
    BY <1>1, FS_EmptySet
  <2>2. PICK x \in T : g[T] = w[x] + g[T \ {x}]
    <3>1. (CHOOSE y \in T : TRUE) \in T
      BY <2>1
    <3>2. g[T] = w[CHOOSE y \in T : TRUE] + g[T \ {CHOOSE y \in T : TRUE}]
      BY <2>1, Zenon DEF SumsUp
    <3> QED
      BY <3>1, <3>2, Zenon
  <2>3. Cardinality(T \ {x}) = n
    BY <1>1, OneLess
  <2>4. g[T \ {x}] = a[T \ {x}]
    BY <1>3, <2>3
  <2>5. T \ {x} \in SUBSET U /\ x \in U /\ x \notin T \ {x} /\ (T \ {x}) \cup {x} = T
    OBVIOUS
  <2>6. a[(T \ {x}) \cup {x}] = a[T \ {x}] + w[x] /\ a[T \ {x}] \in Nat
    BY <2>5, Zenon DEF Additive
  <2>7. a[T] = a[T \ {x}] + w[x]
    BY <2>5, <2>6, Zenon
  <2>8. g[T] = w[x] + a[T \ {x}]
    BY <2>2, <2>4, Zenon
  <2> QED
    BY <2>6, <2>7, <2>8
<1> HIDE DEF P
<1>4. P = Nat
  <2>1. P \in SUBSET Nat
    BY DEF P
  <2> QED
    BY <1>2, <1>3, <2>1, InductionOnNat
<1> QED
  BY <1>1, <1>4 DEF P

\* A sum solves the equation.
LEMMA AdditiveSumsUp ==
    ASSUME NEW S, NEW w, \A x \in S : w[x] \in Nat, NEW a, Additive(a, w, S)
    PROVE  SumsUp(a, w, S)
<1>1. a \in [SUBSET S -> Nat]
  BY DEF Additive
<1>2. ASSUME NEW T \in SUBSET S, T # {}
      PROVE  a[T] = w[CHOOSE x \in T : TRUE] + a[T \ {CHOOSE x \in T : TRUE}]
  <2> DEFINE x == CHOOSE y \in T : TRUE
  <2>1. x \in T
    BY <1>2
  <2> HIDE DEF x
  <2>2. T \ {x} \in SUBSET S /\ x \in S /\ x \notin T \ {x} /\ (T \ {x}) \cup {x} = T
    BY <2>1
  <2>3. a[(T \ {x}) \cup {x}] = a[T \ {x}] + w[x] /\ a[T \ {x}] \in Nat
    BY <2>2, Zenon DEF Additive
  <2>4. a[T] = a[T \ {x}] + w[x]
    BY <2>2, <2>3, Zenon
  <2>5. a[T] = w[x] + a[T \ {x}]
    BY <2>2, <2>3, <2>4
  <2> QED
    BY <2>5, Zenon DEF x
<1>3. a[{}] = 0
  BY DEF Additive
<1>4. \A T \in SUBSET S :
        a[T] = IF T = {} THEN 0
               ELSE w[CHOOSE x \in T : TRUE] + a[T \ {CHOOSE x \in T : TRUE}]
  BY <1>2, <1>3, Zenon
<1> QED
  BY <1>1, <1>4, Zenon DEF SumsUp

\* The sums of the two fields of tallies f[x].
BytesOf(f, S) == MapThenSumSet(LAMBDA x : f[x].bytes, S)

NumOf(f, S) == MapThenSumSet(LAMBDA x : f[x].num, S)

LEMMA SumOfBytes ==
    ASSUME NEW S, IsFiniteSet(S), NEW f, \A x \in S : f[x].bytes \in Nat,
           NEW w, \A x \in S : w[x] = f[x].bytes, NEW U, S \subseteq U, NEW a, Additive(a, w, U)
    PROVE  BytesOf(f, S) = a[S]
<1> DEFINE F(g) == [T \in SUBSET S |->
                      IF T = {} THEN 0
                      ELSE f[CHOOSE x \in T : TRUE].bytes + g[T \ {CHOOSE x \in T : TRUE}]]
           sum == CHOOSE g : g = F(g)
<1>1. BytesOf(f, S) = sum[S]
  BY Zenon DEF BytesOf, MapThenSumSet, MapThenFoldSet
<1>2. ASSUME NEW g PROVE SumsUp(g, w, S) <=> g = F(g)
  BY DEF SumsUp
<1>3. \E g : SumsUp(g, w, S)
  BY AdditiveExists, AdditiveSumsUp
<1> HIDE DEF F
<1>4. SumsUp(sum, w, S)
  BY <1>2, <1>3, Zenon
<1> HIDE DEF sum
<1>5. \A x \in S : w[x] \in Nat
  OBVIOUS
<1>6. \A T \in SUBSET S : sum[T] = a[T]
  BY <1>4, <1>5, SumsUpIsAdditive
<1>7. sum[S] = a[S]
  BY <1>6
<1> QED
  BY <1>1, <1>7, Zenon

LEMMA SumOfNums ==
    ASSUME NEW S, IsFiniteSet(S), NEW f, \A x \in S : f[x].num \in Nat,
           NEW w, \A x \in S : w[x] = f[x].num, NEW U, S \subseteq U, NEW a, Additive(a, w, U)
    PROVE  NumOf(f, S) = a[S]
<1> DEFINE F(g) == [T \in SUBSET S |->
                      IF T = {} THEN 0
                      ELSE f[CHOOSE x \in T : TRUE].num + g[T \ {CHOOSE x \in T : TRUE}]]
           sum == CHOOSE g : g = F(g)
<1>1. NumOf(f, S) = sum[S]
  BY Zenon DEF NumOf, MapThenSumSet, MapThenFoldSet
<1>2. ASSUME NEW g PROVE SumsUp(g, w, S) <=> g = F(g)
  BY DEF SumsUp
<1>3. \E g : SumsUp(g, w, S)
  BY AdditiveExists, AdditiveSumsUp
<1> HIDE DEF F
<1>4. SumsUp(sum, w, S)
  BY <1>2, <1>3, Zenon
<1> HIDE DEF sum
<1>5. \A x \in S : w[x] \in Nat
  OBVIOUS
<1>6. \A T \in SUBSET S : sum[T] = a[T]
  BY <1>4, <1>5, SumsUpIsAdditive
<1>7. sum[S] = a[S]
  BY <1>6
<1> QED
  BY <1>1, <1>7, Zenon
\* The sum of no tally, and of one tally more.
LEMMA BytesAddUp ==
    ASSUME NEW S, IsFiniteSet(S), NEW f, \A x \in S : f[x].bytes \in Nat
    PROVE  /\ BytesOf(f, S) \in Nat
           /\ BytesOf(f, {}) = 0
           /\ \A x \in S : BytesOf(f, S) = BytesOf(f, S \ {x}) + f[x].bytes
<1> DEFINE w == [x \in S |-> f[x].bytes]
<1>1. \A x \in S : w[x] = f[x].bytes
  OBVIOUS
<1> HIDE DEF w
<1>2. PICK a : Additive(a, w, S)
  BY <1>1, AdditiveExists
<1>3. ASSUME NEW T \in SUBSET S PROVE BytesOf(f, T) = a[T]
  <2>1. IsFiniteSet(T)
    BY FS_Subset
  <2>2. \A x \in T : f[x].bytes \in Nat /\ w[x] = f[x].bytes
    BY <1>1
  <2> QED
    BY <1>2, <2>1, <2>2, SumOfBytes
<1>4. a[S] \in Nat /\ a[{}] = 0
  BY <1>2 DEF Additive
<1>5. ASSUME NEW x \in S PROVE BytesOf(f, S) = BytesOf(f, S \ {x}) + f[x].bytes
  <2>1. S \ {x} \in SUBSET S /\ x \notin S \ {x} /\ (S \ {x}) \cup {x} = S
    OBVIOUS
  <2>2. a[(S \ {x}) \cup {x}] = a[S \ {x}] + w[x]
    BY <1>2, <2>1, Zenon DEF Additive
  <2>3. a[S] = a[S \ {x}] + w[x]
    BY <2>1, <2>2, Zenon
  <2>4. BytesOf(f, S) = a[S] /\ BytesOf(f, S \ {x}) = a[S \ {x}]
    BY <1>3, <2>1
  <2> QED
    BY <1>1, <2>3, <2>4
<1> QED
  BY <1>3, <1>4, <1>5

\* A sum depends on its summands only.
LEMMA BytesAgree ==
    ASSUME NEW S, IsFiniteSet(S), NEW f, NEW g,
           \A x \in S : f[x].bytes \in Nat /\ g[x].bytes = f[x].bytes
    PROVE  BytesOf(f, S) = BytesOf(g, S)
<1> DEFINE w == [x \in S |-> f[x].bytes]
<1>1. \A x \in S : w[x] = f[x].bytes /\ w[x] = g[x].bytes /\ g[x].bytes \in Nat /\ w[x] \in Nat
  OBVIOUS
<1> HIDE DEF w
<1>2. PICK a : Additive(a, w, S)
  BY <1>1, AdditiveExists
<1> QED
  BY <1>1, <1>2, SumOfBytes

\* The sum of no tally, and of one tally more.
LEMMA NumsAddUp ==
    ASSUME NEW S, IsFiniteSet(S), NEW f, \A x \in S : f[x].num \in Nat
    PROVE  /\ NumOf(f, S) \in Nat
           /\ NumOf(f, {}) = 0
           /\ \A x \in S : NumOf(f, S) = NumOf(f, S \ {x}) + f[x].num
<1> DEFINE w == [x \in S |-> f[x].num]
<1>1. \A x \in S : w[x] = f[x].num
  OBVIOUS
<1> HIDE DEF w
<1>2. PICK a : Additive(a, w, S)
  BY <1>1, AdditiveExists
<1>3. ASSUME NEW T \in SUBSET S PROVE NumOf(f, T) = a[T]
  <2>1. IsFiniteSet(T)
    BY FS_Subset
  <2>2. \A x \in T : f[x].num \in Nat /\ w[x] = f[x].num
    BY <1>1
  <2> QED
    BY <1>2, <2>1, <2>2, SumOfNums
<1>4. a[S] \in Nat /\ a[{}] = 0
  BY <1>2 DEF Additive
<1>5. ASSUME NEW x \in S PROVE NumOf(f, S) = NumOf(f, S \ {x}) + f[x].num
  <2>1. S \ {x} \in SUBSET S /\ x \notin S \ {x} /\ (S \ {x}) \cup {x} = S
    OBVIOUS
  <2>2. a[(S \ {x}) \cup {x}] = a[S \ {x}] + w[x]
    BY <1>2, <2>1, Zenon DEF Additive
  <2>3. a[S] = a[S \ {x}] + w[x]
    BY <2>1, <2>2, Zenon
  <2>4. NumOf(f, S) = a[S] /\ NumOf(f, S \ {x}) = a[S \ {x}]
    BY <1>3, <2>1
  <2> QED
    BY <1>1, <2>3, <2>4
<1> QED
  BY <1>3, <1>4, <1>5

\* A sum depends on its summands only.
LEMMA NumsAgree ==
    ASSUME NEW S, IsFiniteSet(S), NEW f, NEW g,
           \A x \in S : f[x].num \in Nat /\ g[x].num = f[x].num
    PROVE  NumOf(f, S) = NumOf(g, S)
<1> DEFINE w == [x \in S |-> f[x].num]
<1>1. \A x \in S : w[x] = f[x].num /\ w[x] = g[x].num /\ g[x].num \in Nat /\ w[x] \in Nat
  OBVIOUS
<1> HIDE DEF w
<1>2. PICK a : Additive(a, w, S)
  BY <1>1, AdditiveExists
<1> QED
  BY <1>1, <1>2, SumOfNums

\* A sum of nothing but zeros, and a sum of which one summand changes.
LEMMA NothingAddsUp ==
    ASSUME NEW S, IsFiniteSet(S), NEW f, \A x \in S : f[x].num = 0 /\ f[x].bytes = 0
    PROVE  NumOf(f, S) = 0 /\ BytesOf(f, S) = 0
<1> DEFINE a == [T \in SUBSET S |-> 0]
           w == [x \in S |-> 0]
<1>1. Additive(a, w, S)
  BY DEF Additive
<1>2. \A x \in S : w[x] = f[x].num /\ w[x] = f[x].bytes /\ f[x].num \in Nat /\ f[x].bytes \in Nat
  OBVIOUS
<1>3. a[S] = 0
  OBVIOUS
<1> HIDE DEF a, w
<1>4. NumOf(f, S) = a[S]
  BY <1>1, <1>2, SumOfNums
<1>5. BytesOf(f, S) = a[S]
  BY <1>1, <1>2, SumOfBytes
<1> QED
  BY <1>3, <1>4, <1>5

\* A sum, and the sum of all but one.
LEMMA OneApart ==
    ASSUME NEW S, IsFiniteSet(S), NEW f, NEW x \in S,
           \A y \in S : f[y].num \in Nat /\ f[y].bytes \in Nat
    PROVE  /\ NumOf(f, S) = NumOf(f, S \ {x}) + f[x].num
           /\ BytesOf(f, S) = BytesOf(f, S \ {x}) + f[x].bytes
<1>1. (\A y \in S : f[y].num \in Nat) /\ (\A y \in S : f[y].bytes \in Nat)
  OBVIOUS
<1>2. \A y \in S : NumOf(f, S) = NumOf(f, S \ {y}) + f[y].num
  BY <1>1, NumsAddUp
<1>3. \A y \in S : BytesOf(f, S) = BytesOf(f, S \ {y}) + f[y].bytes
  BY <1>1, BytesAddUp
<1> QED
  BY <1>2, <1>3

LEMMA OneAddsMore ==
    ASSUME NEW S, IsFiniteSet(S), NEW f, NEW g, NEW x \in S, NEW b \in Nat,
           \A y \in S : f[y].num \in Nat /\ f[y].bytes \in Nat,
           \A y \in S : y # x => g[y] = f[y],
           g[x].num = f[x].num + 1, g[x].bytes = f[x].bytes + b
    PROVE  NumOf(g, S) = NumOf(f, S) + 1 /\ BytesOf(g, S) = BytesOf(f, S) + b
<1> DEFINE R == S \ {x}
<1>1. IsFiniteSet(R) /\ R \subseteq S
  BY FS_Subset
<1>2. \A y \in S : g[y].num \in Nat /\ g[y].bytes \in Nat
  OBVIOUS
<1>3. /\ NumOf(f, S) = NumOf(f, R) + f[x].num /\ NumOf(g, S) = NumOf(g, R) + g[x].num
      /\ BytesOf(f, S) = BytesOf(f, R) + f[x].bytes /\ BytesOf(g, S) = BytesOf(g, R) + g[x].bytes
  <2>1. NumOf(f, S) = NumOf(f, R) + f[x].num /\ BytesOf(f, S) = BytesOf(f, R) + f[x].bytes
    BY OneApart
  <2>2. NumOf(g, S) = NumOf(g, R) + g[x].num /\ BytesOf(g, S) = BytesOf(g, R) + g[x].bytes
    BY <1>2, OneApart
  <2> QED
    BY <2>1, <2>2, Zenon
<1>4. NumOf(f, R) = NumOf(g, R) /\ NumOf(f, R) \in Nat
  <2>1. \A y \in R : f[y].num \in Nat /\ g[y].num = f[y].num
    OBVIOUS
  <2> HIDE DEF R
  <2> QED
    BY <1>1, <2>1, NumsAgree, NumsAddUp
<1>5. BytesOf(f, R) = BytesOf(g, R) /\ BytesOf(f, R) \in Nat
  <2>1. \A y \in R : f[y].bytes \in Nat /\ g[y].bytes = f[y].bytes
    OBVIOUS
  <2> HIDE DEF R
  <2> QED
    BY <1>1, <2>1, BytesAgree, BytesAddUp
<1> HIDE DEF R
<1> QED
  BY <1>3, <1>4, <1>5

----------------------------------------------------------------------------
(* Folds over a sequence.                                                  *)

\* A bounded set of naturals that is not empty has a greatest element.
LEMMA GreatestOf ==
    ASSUME NEW n \in Nat, NEW T \in SUBSET (1 .. n), T # {}
    PROVE  \E x \in T : \A y \in T : x >= y
<1> DEFINE S == {k \in Nat : \A y \in T : k >= y}
<1>1. n \in S
  OBVIOUS
<1>2. PICK k \in S : \A x \in S : k <= x
  BY <1>1, LeastOf
<1>3. k \in T
  <2> SUFFICES ASSUME k \notin T PROVE FALSE
    OBVIOUS
  <2>1. PICK y \in T : TRUE
    OBVIOUS
  <2>2. k - 1 \in Nat /\ k - 1 \in S
    BY <2>1
  <2> QED
    BY <1>2, <2>2
<1> QED
  BY <1>3

\* The greatest element of an interval.
LEMMA MaxOfInterval ==
    ASSUME NEW k \in Nat, NEW T \in SUBSET (1 .. k + 1), k + 1 \in T
    PROVE  Max(T) = k + 1
<1>1. \A x \in T : x \in Nat /\ x <= k + 1
  OBVIOUS
<1>2. \A x \in T : (\A y \in T : x >= y) => x = k + 1
  BY <1>1
<1>3. \E x \in T : \A y \in T : x >= y
  BY <1>1
<1> QED
  BY <1>2, <1>3, Zenon DEF Max

\* A fold that takes the positions of a sequence in turn, as a function on
\* the sets of positions.
Folds(g, step, base, n) ==
    /\ g[{}] = base
    /\ \A T \in SUBSET (1 .. n) : T # {} => g[T] = step[<<g[T \ {Max(T)}], Max(T)>>]

FoldUpTo(k, V, step, base) == \E g \in [SUBSET (1 .. k) -> V] : Folds(g, step, base, k)

LEMMA FoldExists ==
    ASSUME NEW n \in Nat, NEW V, NEW base \in V, NEW step \in [V \X (1 .. n) -> V]
    PROVE  \E g \in [SUBSET (1 .. n) -> V] : Folds(g, step, base, n)
<1> DEFINE P == {k \in Nat : k <= n => FoldUpTo(k, V, step, base)}
<1>1. 0 \in P
  <2> DEFINE g == [T \in SUBSET (1 .. 0) |-> base]
  <2>1. g \in [SUBSET (1 .. 0) -> V]
    OBVIOUS
  <2>2. 1 .. 0 = {}
    OBVIOUS
  <2>3. Folds(g, step, base, 0)
    BY <2>2 DEF Folds
  <2> HIDE DEF g
  <2>4. FoldUpTo(0, V, step, base)
    BY <2>1, <2>3, Zenon DEF FoldUpTo
  <2> QED
    BY <2>4
<1>2. ASSUME NEW k \in P PROVE k + 1 \in P
  <2> SUFFICES ASSUME k + 1 <= n PROVE FoldUpTo(k + 1, V, step, base)
    OBVIOUS
  <2>1. PICK g \in [SUBSET (1 .. k) -> V] : Folds(g, step, base, k)
    <3>1. k \in Nat /\ FoldUpTo(k, V, step, base)
      OBVIOUS
    <3> QED
      BY <3>1, Zenon DEF FoldUpTo
  <2> DEFINE h == [T \in SUBSET (1 .. k + 1) |->
                     IF k + 1 \in T THEN step[<<g[T \ {k + 1}], k + 1>>] ELSE g[T]]
  <2>2. ASSUME NEW T \in SUBSET (1 .. k + 1)
        PROVE  /\ T \ {k + 1} \in SUBSET (1 .. k)
               /\ k + 1 \notin T => T \in SUBSET (1 .. k)
    OBVIOUS
  <2>3. h \in [SUBSET (1 .. k + 1) -> V]
    <3>1. ASSUME NEW T \in SUBSET (1 .. k + 1) PROVE h[T] \in V
      <4>1. g[T \ {k + 1}] \in V /\ k + 1 \in 1 .. n
        BY <2>2
      <4>2. step[<<g[T \ {k + 1}], k + 1>>] \in V
        BY <4>1
      <4>3. k + 1 \notin T => g[T] \in V
        BY <2>2
      <4> QED
        BY <4>2, <4>3
    <3> QED
      BY <3>1
  <2>4. h[{}] = base
    BY <2>1 DEF Folds
  <2>5. ASSUME NEW T \in SUBSET (1 .. k + 1), T # {}
        PROVE  h[T] = step[<<h[T \ {Max(T)}], Max(T)>>]
    <3>1. CASE k + 1 \in T
      <4>1. Max(T) = k + 1
        BY <3>1, MaxOfInterval
      <4>2. h[T \ {k + 1}] = g[T \ {k + 1}]
        OBVIOUS
      <4> QED
        BY <3>1, <4>1, <4>2
    <3>2. CASE k + 1 \notin T
      <4>1. T \in SUBSET (1 .. k)
        BY <2>2, <3>2
      <4>2. g[T] = step[<<g[T \ {Max(T)}], Max(T)>>]
        BY <2>1, <2>5, <4>1 DEF Folds
      <4>3. T \ {Max(T)} \in SUBSET (1 .. k + 1) /\ k + 1 \notin T \ {Max(T)}
        BY <3>2
      <4>4. h[T \ {Max(T)}] = g[T \ {Max(T)}]
        BY <4>3
      <4> QED
        BY <3>2, <4>2, <4>4
    <3> QED
      BY <3>1, <3>2
  <2> HIDE DEF h
  <2> QED
    BY <2>3, <2>4, <2>5 DEF Folds, FoldUpTo
<1> HIDE DEF P
<1>3. P = Nat
  <2>1. P \in SUBSET Nat
    BY DEF P
  <2> QED
    BY <1>1, <1>2, <2>1, InductionOnNat
<1>4. FoldUpTo(n, V, step, base)
  BY <1>3 DEF P
<1> QED
  BY <1>4 DEF FoldUpTo

----------------------------------------------------------------------------
(* Arrangements: the sequences that hold every element of a set once.      *)

LEMMA Arrangement ==
    ASSUME NEW S, IsFiniteSet(S), NEW s \in SetToSeqs(S)
    PROVE  /\ s \in Seq(S) /\ Len(s) = Cardinality(S) /\ DOMAIN s = 1 .. Cardinality(S)
           /\ \A i, j \in DOMAIN s : s[i] = s[j] => i = j
           /\ \A x \in S : \E i \in DOMAIN s : s[i] = x
           /\ Range(s) = S
<1> DEFINE n == Cardinality(S)
<1>1. n \in Nat
  BY FS_CardinalityType
<1>2. s \in [1 .. n -> S] /\ \A i, j \in 1 .. n : i # j => s[i] # s[j]
  BY DEF SetToSeqs
<1> HIDE DEF n
<1>3. s \in Seq(S) /\ Len(s) = n /\ DOMAIN s = 1 .. n
  BY <1>1, <1>2
<1>4. Cardinality(1 .. n) = n
  <2>1. 1 \in Int /\ n \in Int
    BY <1>1
  <2> QED
    BY <1>1, <2>1, FS_Interval
<1>5. s \in Injection(1 .. n, S)
  BY <1>2 DEF Injection, IsInjective
<1>6. s \in Surjection(1 .. n, S)
  BY <1>4, <1>5, FS_Injection DEF n
<1>7. \A x \in S : \E i \in 1 .. n : s[i] = x
  BY <1>6 DEF Surjection
<1> QED
  BY <1>2, <1>3, <1>7 DEF Range, n

LEMMA ArrangementIf ==
    ASSUME NEW S, NEW n \in Nat, NEW s \in [1 .. n -> S],
           \A i, j \in 1 .. n : s[i] = s[j] => i = j,
           \A x \in S : \E i \in 1 .. n : s[i] = x
    PROVE  IsFiniteSet(S) /\ Cardinality(S) = n /\ s \in SetToSeqs(S)
<1>1. s \in Bijection(1 .. n, S)
  BY DEF Bijection, Injection, Surjection, IsInjective
<1>2. IsFiniteSet(S) /\ Cardinality(S) = n
  BY <1>1, FS_NatBijection, FS_CountingElements DEF ExistsBijection
<1> QED
  BY <1>2 DEF SetToSeqs

\* A sequence without repetitions has as many elements as positions.
FirstOf(s, n) == {s[i] : i \in 1 .. n}

LEMMA HowMany ==
    ASSUME NEW n \in Nat, NEW s, \A i, j \in 1 .. n : s[i] = s[j] => i = j
    PROVE  IsFiniteSet(FirstOf(s, n)) /\ Cardinality(FirstOf(s, n)) = n
<1> DEFINE S == {s[i] : i \in 1 .. n}
           t == [i \in 1 .. n |-> s[i]]
<1>1. t \in [1 .. n -> S] /\ \A i, j \in 1 .. n : t[i] = t[j] => i = j
  OBVIOUS
<1>2. \A x \in S : \E i \in 1 .. n : t[i] = x
  OBVIOUS
<1> HIDE DEF S, t
<1>3. IsFiniteSet(S) /\ Cardinality(S) = n
  BY <1>1, <1>2, ArrangementIf
<1> QED
  BY <1>3 DEF S, FirstOf

LEMMA SetToSeqArranges ==
    ASSUME NEW S, IsFiniteSet(S)
    PROVE  SetToSeq(S) \in SetToSeqs(S)
<1>1. PICK f \in Bijection(1 .. Cardinality(S), S) : TRUE
  BY FS_CardinalityType DEF ExistsBijection
<1>2. f \in [1 .. Cardinality(S) -> S] /\ IsInjective(f)
  BY <1>1 DEF Bijection, Injection
<1>3. SetToSeq(S) \in [1 .. Cardinality(S) -> S] /\ IsInjective(SetToSeq(S))
  BY <1>2, Zenon DEF SetToSeq
<1> QED
  BY <1>3 DEF SetToSeqs, IsInjective

\* A finite set can be sorted by any order that ranks its elements.
LEMMA SortedExists ==
    ASSUME NEW S, IsFiniteSet(S), NEW R,
           \A x, y \in S : <<x, y>> \in R \/ <<y, x>> \in R,
           \A x, y, z \in S : <<x, y>> \in R /\ <<y, z>> \in R => <<x, z>> \in R
    PROVE  \E s \in SetToSeqs(S) : \A i, j \in DOMAIN s : i < j => <<s[i], s[j]>> \in R
<1> DEFINE Sorts(s) == \A i, j \in DOMAIN s : i < j => <<s[i], s[j]>> \in R
           P == {T \in SUBSET S : \E s \in SetToSeqs(T) : Sorts(s)}
<1>1. {} \in P
  <2>1. <<>> \in [1 .. 0 -> {}] /\ DOMAIN <<>> = {}
    OBVIOUS
  <2>2. <<>> \in SetToSeqs({})
    BY <2>1, FS_EmptySet DEF SetToSeqs
  <2> QED
    BY <2>1, <2>2
<1>2. ASSUME NEW T \in P, NEW x \in S, x \notin T PROVE T \cup {x} \in P
  <2>1. PICK s \in SetToSeqs(T) : Sorts(s)
    OBVIOUS
  <2>2. IsFiniteSet(T)
    BY FS_Subset
  <2>3. PICK n \in Nat : n = Cardinality(T)
    BY <2>2, FS_CardinalityType
  <2>4. /\ s \in [1 .. n -> T] /\ \A i, j \in 1 .. n : s[i] = s[j] => i = j
        /\ \A y \in T : \E i \in 1 .. n : s[i] = y
    <3>1. s \in [1 .. Cardinality(T) -> T]
      BY <2>1, Zenon DEF SetToSeqs
    <3>2. /\ DOMAIN s = 1 .. Cardinality(T)
          /\ \A i, j \in DOMAIN s : s[i] = s[j] => i = j
          /\ \A y \in T : \E i \in DOMAIN s : s[i] = y
      BY <2>2, Arrangement, Zenon
    <3> QED
      BY <2>3, <3>1, <3>2, Zenon
  <2>5. \A i, j \in 1 .. n : i < j => <<s[i], s[j]>> \in R
    BY <2>1, <2>4
  <2> HIDE DEF P, Sorts
  <2>6. T \in SUBSET S
    BY DEF P
  \* x goes before the first element that need not be before it.
  <2> DEFINE K == {i \in 1 .. n + 1 : i \in 1 .. n => <<s[i], x>> \notin R}
  <2>7. PICK k \in K : \A i \in K : k <= i
    <3>1. K \in SUBSET Nat /\ n + 1 \in K
      OBVIOUS
    <3> QED
      BY <3>1, LeastOf
  <2>8. k \in 1 .. n + 1
    OBVIOUS
  <2>9. \A i \in 1 .. n : i < k => <<s[i], x>> \in R
    <3>1. \A i \in 1 .. n : i < k => i \notin K
      BY <2>7
    <3> QED
      BY <3>1
  <2>10. \A i \in 1 .. n : i >= k => <<x, s[i]>> \in R
    <3> SUFFICES ASSUME NEW i \in 1 .. n, i >= k PROVE <<x, s[i]>> \in R
      OBVIOUS
    <3>1. k \in 1 .. n /\ <<s[k], x>> \notin R
      BY <2>7, <2>8
    <3>2. s[k] \in S /\ s[i] \in S
      BY <2>4, <2>6, <3>1
    <3>3. <<x, s[k]>> \in R
      BY <3>1, <3>2
    <3>4. CASE i = k
      BY <3>3, <3>4
    <3>5. CASE i # k
      <4>1. <<s[k], s[i]>> \in R
        BY <2>5, <2>8, <3>1, <3>5
      <4> QED
        BY <3>2, <3>3, <4>1
    <3> QED
      BY <3>4, <3>5
  <2> HIDE DEF K
  <2> DEFINE t == [j \in 1 .. n + 1 |-> IF j < k THEN s[j] ELSE IF j = k THEN x ELSE s[j - 1]]
  <2>11. ASSUME NEW j \in 1 .. n + 1
         PROVE  /\ j < k => j \in 1 .. n /\ t[j] = s[j]
                /\ j = k => t[j] = x
                /\ j > k => j - 1 \in 1 .. n /\ t[j] = s[j - 1]
    BY <2>8
  <2>12. DOMAIN t = 1 .. n + 1
    OBVIOUS
  <2> HIDE DEF t
  <2>13. t \in [1 .. n + 1 -> T \cup {x}]
    <3>1. \A j \in 1 .. n + 1 : t[j] \in T \cup {x}
      BY <2>4, <2>8, <2>11
    <3>2. t = [j \in 1 .. n + 1 |-> t[j]]
      BY DEF t
    <3> QED
      BY <3>1, <3>2
  <2>14. ASSUME NEW i \in 1 .. n + 1, NEW j \in 1 .. n + 1, t[i] = t[j] PROVE i = j
    <3>1. \A m \in 1 .. n : s[m] # x
      BY <1>2, <2>4
    <3>2. CASE i = k \/ j = k
      BY <2>8, <2>11, <2>14, <3>1, <3>2
    <3>3. CASE i # k /\ j # k
      <4>1. PICK a \in 1 .. n : ((i < k /\ a = i) \/ (i > k /\ a = i - 1)) /\ t[i] = s[a]
        BY <2>8, <2>11, <3>3
      <4>2. PICK b \in 1 .. n : ((j < k /\ b = j) \/ (j > k /\ b = j - 1)) /\ t[j] = s[b]
        BY <2>8, <2>11, <3>3
      <4>3. a = b
        BY <2>4, <2>14, <4>1, <4>2
      <4> QED
        BY <2>8, <4>1, <4>2, <4>3
    <3> QED
      BY <3>2, <3>3
  <2>15. ASSUME NEW y \in T \cup {x} PROVE \E j \in 1 .. n + 1 : t[j] = y
    <3>1. CASE y = x
      BY <2>8, <2>11, <3>1
    <3>2. CASE y \in T
      <4>1. PICK i \in 1 .. n : s[i] = y
        BY <2>4, <3>2
      <4>2. CASE i < k
        BY <2>11, <4>1, <4>2
      <4>3. CASE i >= k
        <5>1. i + 1 \in 1 .. n + 1 /\ i + 1 > k /\ (i + 1) - 1 = i
          BY <2>8, <4>3
        <5> QED
          BY <2>11, <4>1, <5>1
      <4> QED
        BY <2>8, <4>2, <4>3
    <3> QED
      BY <3>1, <3>2
  <2>16. t \in SetToSeqs(T \cup {x})
    <3>1. n + 1 \in Nat
      OBVIOUS
    <3> QED
      BY <2>13, <2>14, <2>15, <3>1, ArrangementIf
  <2>17. ASSUME NEW i \in 1 .. n + 1, NEW j \in 1 .. n + 1, i < j PROVE <<t[i], t[j]>> \in R
    <3>1. CASE j < k
      <4>1. t[i] = s[i] /\ t[j] = s[j] /\ i \in 1 .. n /\ j \in 1 .. n
        BY <2>8, <2>11, <2>17, <3>1
      <4> QED
        BY <2>5, <2>17, <4>1
    <3>2. CASE j = k
      <4>1. t[i] = s[i] /\ t[j] = x /\ i \in 1 .. n
        BY <2>8, <2>11, <2>17, <3>2
      <4> QED
        BY <2>9, <2>17, <3>2, <4>1
    <3>3. CASE j > k /\ i = k
      <4>1. t[i] = x /\ t[j] = s[j - 1] /\ j - 1 \in 1 .. n /\ j - 1 >= k
        BY <2>8, <2>11, <3>3
      <4> QED
        BY <2>10, <4>1
    <3>4. CASE j > k /\ i < k
      <4>1. t[i] = s[i] /\ t[j] = s[j - 1] /\ i \in 1 .. n /\ j - 1 \in 1 .. n /\ i < j - 1
        BY <2>8, <2>11, <3>4
      <4> QED
        BY <2>5, <4>1
    <3>5. CASE j > k /\ i > k
      <4>1. t[i] = s[i - 1] /\ t[j] = s[j - 1] /\ i - 1 \in 1 .. n /\ j - 1 \in 1 .. n /\ i - 1 < j - 1
        BY <2>8, <2>11, <2>17, <3>5
      <4> QED
        BY <2>5, <4>1
    <3> QED
      BY <2>8, <3>1, <3>2, <3>3, <3>4, <3>5
  <2>18. Sorts(t)
    BY <2>12, <2>17 DEF Sorts
  <2>19. T \cup {x} \in SUBSET S
    BY <2>6
  <2> QED
    BY <2>16, <2>18, <2>19 DEF P
<1> HIDE DEF P
<1>3. P = SUBSET S
  <2>1. P \in SUBSET SUBSET S
    BY DEF P
  <2> QED
    BY <1>1, <1>2, <2>1, InductionOnSubsets
<1>4. PICK s \in SetToSeqs(S) : Sorts(s)
  <2>1. S \in P
    BY <1>3
  <2> QED
    BY <2>1 DEF P
<1> QED
  BY <1>4

\* A short sequence cannot hold all the elements of a longer one.
Distinct(a, n) == \A i, j \in 1 .. n : a[i] = a[j] => i = j

Among(a, n, b, m) == \A i \in 1 .. n : \E j \in 1 .. m : b[j] = a[i]

LEMMA Pigeons ==
    ASSUME NEW n \in Nat, NEW m \in Nat, NEW a, NEW b, Distinct(a, n), Among(a, n, b, m)
    PROVE  n <= m
<1> USE DEF Distinct, Among
<1> SUFFICES ASSUME m < n PROVE FALSE
  OBVIOUS
<1> DEFINE f == [i \in 1 .. n |-> CHOOSE j \in 1 .. m : b[j] = a[i]]
<1>1. ASSUME NEW i \in 1 .. n PROVE f[i] \in 1 .. m /\ b[f[i]] = a[i]
  <2>1. f[i] = CHOOSE j \in 1 .. m : b[j] = a[i]
    OBVIOUS
  <2>2. \E j \in 1 .. m : b[j] = a[i]
    OBVIOUS
  <2> QED
    BY <2>1, <2>2, Zenon
<1>2. f = [i \in 1 .. n |-> f[i]]
  OBVIOUS
<1> HIDE DEF f
<1>3. f \in [1 .. n -> 1 .. m]
  BY <1>1, <1>2
<1>4. /\ IsFiniteSet(1 .. n) /\ Cardinality(1 .. n) = n
      /\ IsFiniteSet(1 .. m) /\ Cardinality(1 .. m) = m
  <2>1. 1 \in Int /\ n \in Int /\ m \in Int
    OBVIOUS
  <2> QED
    BY <2>1, FS_Interval
<1> DEFINE I == 1 .. n
           J == 1 .. m
<1>5. IsFiniteSet(I) /\ IsFiniteSet(J) /\ Cardinality(J) < Cardinality(I) /\ f \in [I -> J]
  BY <1>3, <1>4
<1> HIDE DEF I, J
<1>6. \E i, j \in I : i # j /\ f[i] = f[j]
  BY <1>5, FS_PigeonHole
<1>7. PICK i, j \in 1 .. n : i # j /\ f[i] = f[j]
  BY <1>6 DEF I
<1> QED
  BY <1>1, <1>7
=============================================================================

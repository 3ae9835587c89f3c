----------------------------- MODULE KeysProofs -----------------------------
(***************************************************************************)
(* What TLAPS proves about Keys, for keys of any length over any alphabet, *)
(* and for any hash.                                                       *)
(***************************************************************************)
EXTENDS Keys, FoldFacts, SequenceTheorems

KeyOK == key \in Seq(Alphabet)

LEMMA KeysAreSequences == Spec => []KeyOK
<1>1. Init => KeyOK
  BY DEF Init, KeyOK
<1>2. KeyOK /\ [Next]_key => KeyOK'
  BY DEF KeyOK, Next, Longest, Extend
<1> QED
  BY <1>1, <1>2, PTL DEF Spec

\* The bytes are numbers.
LEMMA KeyIs ==
    ASSUME KeyOK
    PROVE  key \in Seq(Nat) /\ Len(key) \in Nat
<1>1. \A b \in Alphabet : b \in Nat
  BY KeysAssumptions
<1>2. Len(key) \in Nat /\ key \in [1 .. Len(key) -> Alphabet]
  BY DEF KeyOK
<1>3. key \in [1 .. Len(key) -> Nat]
  BY <1>1, <1>2
<1> QED
  BY <1>2, <1>3

----------------------------------------------------------------------------
(* Masked keys.  FlattenSeq is the end of a recursive function; g is that  *)
(* function, and g[i] the mask of the first i bytes.                       *)

Flattens(g, s, n) == \A i \in 1 .. n : g[i] = IF i = 1 THEN s[i] ELSE g[i - 1] \o s[i]

FlattenUpTo(k, s, S) == \E g \in [1 .. k -> Seq(S)] : Flattens(g, s, k)

LEMMA FlattenExists ==
    ASSUME NEW n \in Nat, NEW S, NEW s, \A i \in 1 .. n : s[i] \in Seq(S)
    PROVE  \E g \in [1 .. n -> Seq(S)] : Flattens(g, s, n)
<1> DEFINE P == {k \in Nat : k <= n => FlattenUpTo(k, s, S)}
<1>1. 0 \in P
  <2> DEFINE g == [i \in 1 .. 0 |-> <<>>]
  <2>1. g \in [1 .. 0 -> Seq(S)] /\ Flattens(g, s, 0)
    BY DEF Flattens
  <2> HIDE DEF g
  <2>2. FlattenUpTo(0, s, S)
    BY <2>1, Zenon DEF FlattenUpTo
  <2> QED
    BY <2>2
<1>2. ASSUME NEW k \in P PROVE k + 1 \in P
  <2> SUFFICES ASSUME k + 1 <= n PROVE FlattenUpTo(k + 1, s, S)
    OBVIOUS
  <2>0. k \in Nat /\ k + 1 \in 1 .. n /\ s[k + 1] \in Seq(S)
    OBVIOUS
  <2>1. PICK g \in [1 .. k -> Seq(S)] : Flattens(g, s, k)
    <3>1. FlattenUpTo(k, s, S)
      BY <2>0
    <3> QED
      BY <3>1, Zenon DEF FlattenUpTo
  <2> DEFINE h == [i \in 1 .. k + 1 |->
                     IF i <= k THEN g[i] ELSE IF i = 1 THEN s[i] ELSE g[i - 1] \o s[i]]
  <2>2. ASSUME NEW i \in 1 .. k + 1
        PROVE  h[i] = (IF i = 1 THEN s[i] ELSE h[i - 1] \o s[i]) /\ h[i] \in Seq(S)
    <3>1. CASE i <= k
      <4>1. i \in 1 .. k
        BY <2>0, <3>1
      <4>2. g[i] = (IF i = 1 THEN s[i] ELSE g[i - 1] \o s[i]) /\ g[i] \in Seq(S)
        BY <2>1, <4>1 DEF Flattens
      <4>3. i # 1 => h[i - 1] = g[i - 1]
        BY <2>0, <4>1
      <4>4. h[i] = g[i]
        BY <3>1
      <4> QED
        BY <4>2, <4>3, <4>4
    <3>2. CASE ~(i <= k)
      <4>1. i = k + 1
        BY <2>0, <3>2
      <4>2. h[i] = IF i = 1 THEN s[i] ELSE g[i - 1] \o s[i]
        BY <3>2
      <4>3. i # 1 => i - 1 \in 1 .. k /\ i - 1 \in 1 .. k + 1 /\ i - 1 <= k
        BY <2>0, <4>1
      <4>4. i # 1 => h[i - 1] = g[i - 1] /\ g[i - 1] \in Seq(S)
        BY <4>3
      <4>5. i # 1 => g[i - 1] \o s[i] \in Seq(S)
        BY <2>0, <4>1, <4>4
      <4> QED
        BY <2>0, <4>1, <4>2, <4>4, <4>5
    <3> QED
      BY <3>1, <3>2
  <2>3. h \in [1 .. k + 1 -> Seq(S)]
    BY <2>2
  <2>4. Flattens(h, s, k + 1)
    BY <2>2 DEF Flattens
  <2> HIDE DEF h
  <2> QED
    BY <2>3, <2>4, Zenon DEF FlattenUpTo
<1> HIDE DEF P
<1>3. P \in SUBSET Nat
  BY DEF P
<1>4. P = Nat
  BY <1>1, <1>2, <1>3, InductionOnNat
<1>5. FlattenUpTo(n, s, S)
  BY <1>4 DEF P
<1> QED
  BY <1>5, Zenon DEF FlattenUpTo

LEMMA FlattenIs ==
    ASSUME NEW S, NEW s, Len(s) \in Nat, Len(s) # 0, \A i \in 1 .. Len(s) : s[i] \in Seq(S)
    PROVE  \E g \in [1 .. Len(s) -> Seq(S)] :
               Flattens(g, s, Len(s)) /\ FlattenSeq(s) = g[Len(s)]
<1> DEFINE n == Len(s)
           F(g) == [i \in 1 .. Len(s) |-> IF i = 1 THEN s[i] ELSE g[i - 1] \o s[i]]
           flatten == CHOOSE g : g = F(g)
<1>1. FlattenSeq(s) = flatten[Len(s)]
  BY Zenon DEF FlattenSeq
<1>2. PICK h \in [1 .. n -> Seq(S)] : Flattens(h, s, n)
  BY FlattenExists
<1>3. h = F(h)
  BY <1>2 DEF Flattens
<1> HIDE DEF F
<1>4. flatten = F(flatten)
  BY <1>3, Zenon
<1> HIDE DEF flatten
<1>5. flatten = [i \in 1 .. n |-> IF i = 1 THEN s[i] ELSE flatten[i - 1] \o s[i]]
  BY <1>4 DEF F
<1>6. Flattens(flatten, s, n)
  BY <1>5 DEF Flattens
<1>7. flatten \in [1 .. n -> Seq(S)]
  <2> DEFINE P == {k \in Nat : k \in 1 .. n => flatten[k] \in Seq(S)}
  <2>1. 0 \in P
    OBVIOUS
  <2>2. ASSUME NEW k \in P PROVE k + 1 \in P
    <3> SUFFICES ASSUME k + 1 \in 1 .. n PROVE flatten[k + 1] \in Seq(S)
      OBVIOUS
    <3>1. k \in Nat /\ s[k + 1] \in Seq(S) /\ (k + 1) - 1 = k
      OBVIOUS
    <3>2. flatten[k + 1] = IF k + 1 = 1 THEN s[k + 1] ELSE flatten[k] \o s[k + 1]
      BY <1>6, <3>1 DEF Flattens
    <3>3. CASE k = 0
      BY <3>1, <3>2, <3>3
    <3>4. CASE k # 0
      <4>1. k \in 1 .. n
        BY <3>1, <3>4
      <4>2. flatten[k] \in Seq(S)
        BY <4>1
      <4>3. flatten[k] \o s[k + 1] \in Seq(S)
        BY <3>1, <4>2
      <4> QED
        BY <3>1, <3>2, <3>4, <4>3
    <3> QED
      BY <3>3, <3>4
  <2>3. P \in SUBSET Nat
    OBVIOUS
  <2> HIDE DEF P
  <2>4. P = Nat
    BY <2>1, <2>2, <2>3, InductionOnNat
  <2>5. \A k \in 1 .. n : flatten[k] \in Seq(S)
    BY <2>4 DEF P
  <2> QED
    BY <1>5, <2>5
<1> QED
  BY <1>1, <1>6, <1>7

\* g[i] is the mask of the first i bytes of k.
MasksOf(k, g) ==
    /\ g \in [0 .. Len(k) -> Seq(Nat)]
    /\ g[0] = <<>> /\ g[Len(k)] = Mask(k)
    /\ \A i \in 1 .. Len(k) : g[i] = g[i - 1] \o MaskByte(k, i)

LEMMA MaskByteIs ==
    ASSUME NEW k \in Seq(Nat), NEW i \in 1 .. Len(k)
    PROVE  MaskByte(k, i) \in Seq(Nat)
<1>1. <<42>> \in Seq(Nat) /\ <<k[i]>> \in Seq(Nat)
  OBVIOUS
<1>2. <<239, 191, 189>> \in Seq(Nat)
  OBVIOUS
<1> QED
  BY <1>1, <1>2 DEF MaskByte, Star, Replacement

LEMMA MaskIs ==
    ASSUME NEW k \in Seq(Nat)
    PROVE  \E g : MasksOf(k, g)
<1> DEFINE s == [i \in 1 .. Len(k) |-> MaskByte(k, i)]
           n == Len(k)
<1>1. n \in Nat /\ Len(s) = n /\ \A i \in 1 .. n : s[i] = MaskByte(k, i) /\ s[i] \in Seq(Nat)
  <2>1. n \in Nat
    OBVIOUS
  <2>2. \A i \in 1 .. n : s[i] = MaskByte(k, i) /\ s[i] \in Seq(Nat)
    BY MaskByteIs
  <2>3. s \in [1 .. n -> Seq(Nat)]
    BY <2>2
  <2> QED
    BY <2>1, <2>2, <2>3
<1>2. Mask(k) = FlattenSeq(s)
  BY Zenon DEF Mask
<1>3. CASE n = 0
  <2> DEFINE g == [i \in 0 .. n |-> <<>>]
  <2>1. s = <<>>
    BY <1>3
  <2>2. Mask(k) = <<>>
    BY <1>1, <1>2, <1>3, <2>1 DEF FlattenSeq
  <2>3. MasksOf(k, g)
    BY <1>3, <2>2 DEF MasksOf
  <2> QED
    BY <2>3
<1>4. CASE n # 0
  <2> HIDE DEF s
  <2>1. PICK h \in [1 .. n -> Seq(Nat)] : Flattens(h, s, n) /\ FlattenSeq(s) = h[n]
    BY <1>1, <1>4, FlattenIs
  <2> DEFINE g == [i \in 0 .. n |-> IF i = 0 THEN <<>> ELSE h[i]]
  <2>2. g \in [0 .. n -> Seq(Nat)] /\ g[0] = <<>> /\ g[n] = Mask(k)
    BY <1>1, <1>2, <1>4, <2>1
  <2>3. ASSUME NEW i \in 1 .. n PROVE g[i] = g[i - 1] \o MaskByte(k, i)
    <3>1. h[i] = (IF i = 1 THEN s[i] ELSE h[i - 1] \o s[i]) /\ s[i] = MaskByte(k, i)
      BY <1>1, <2>1 DEF Flattens
    <3>2. i \in 0 .. n /\ i - 1 \in 0 .. n /\ g[i] = h[i]
      BY <1>1
    <3>3. CASE i = 1
      <4>1. g[i - 1] = <<>>
        BY <3>3
      <4>2. <<>> \o s[i] = s[i]
        BY <1>1
      <4> QED
        BY <3>1, <3>2, <3>3, <4>1, <4>2
    <3>4. CASE i # 1
      BY <3>1, <3>2, <3>4
    <3> QED
      BY <3>3, <3>4
  <2> HIDE DEF g
  <2>4. MasksOf(k, g)
    BY <2>2, <2>3 DEF MasksOf
  <2> QED
    BY <2>4
<1> QED
  BY <1>3, <1>4

LEMMA MaskIsSequence ==
    ASSUME NEW k \in Seq(Nat)
    PROVE  Mask(k) \in Seq(Nat)
<1>1. PICK g : MasksOf(k, g)
  BY MaskIs
<1>2. Len(k) \in 0 .. Len(k)
  OBVIOUS
<1> QED
  BY <1>1, <1>2 DEF MasksOf

----------------------------------------------------------------------------
(* Text.  A string is text if each byte is part of a character.  A byte    *)
(* that begins a character continues none, so characters do not overlap    *)
(* and text ends wherever the next byte continues none.                    *)

Text(s) == \A i \in 1 .. Len(s) : InRune(s, i)

LEMMA WidthIs ==
    ASSUME NEW b \in Nat
    PROVE  /\ Width(b) \in 0 .. 4
           /\ Width(b) = 1 <=> b < 128
           /\ b \in 128 .. 191 => Width(b) = 0
BY DEF Width

LEMMA SecondIs ==
    ASSUME NEW b \in Nat
    PROVE  Second(b) \subseteq 128 .. 191
BY DEF Second

LEMMA Continuations ==
    ASSUME NEW s \in Seq(Nat), NEW i \in 1 .. Len(s), StartsRune(s, i),
           NEW n \in Nat, i < n, n < i + Width(s[i])
    PROVE  n \in 1 .. Len(s) /\ s[n] \in 128 .. 191
<1>1. Len(s) \in Nat /\ s[i] \in Nat /\ Width(s[i]) \in 0 .. 4
  BY WidthIs
<1> DEFINE d == n - i
<1>2. d \in 1 .. Width(s[i]) - 1 /\ i + d = n
  BY <1>1
<1>3. n \in 1 .. Len(s)
  BY <1>1 DEF StartsRune
<1>4. s[i + d] \in IF d = 1 THEN Second(s[i]) ELSE 128 .. 191
  BY <1>2 DEF StartsRune
<1> HIDE DEF d
<1>5. s[n] \in 128 .. 191
  BY <1>1, <1>2, <1>4, SecondIs
<1> QED
  BY <1>3, <1>5

\* A character is one wherever its bytes are.
LEMMA StartsAnywhere ==
    ASSUME NEW s \in Seq(Nat), NEW i \in 1 .. Len(s), StartsRune(s, i),
           NEW t \in Seq(Nat), NEW k \in 1 .. Len(t), k + Width(s[i]) - 1 <= Len(t),
           \A d \in 0 .. Width(s[i]) - 1 : t[k + d] = s[i + d]
    PROVE  StartsRune(t, k) /\ t[k] = s[i]
<1>1. Width(s[i]) \in 0 .. 4 /\ Width(s[i]) > 0 /\ i \in Nat /\ k \in Nat
  BY WidthIs DEF StartsRune
<1>2. t[k + 0] = s[i + 0]
  BY <1>1
<1>3. t[k] = s[i]
  BY <1>1, <1>2
<1>4. ASSUME NEW d \in 1 .. Width(s[i]) - 1
      PROVE  t[k + d] \in IF d = 1 THEN Second(s[i]) ELSE 128 .. 191
  <2>1. d \in 0 .. Width(s[i]) - 1
    BY <1>1
  <2>2. t[k + d] = s[i + d]
    BY <2>1
  <2>3. s[i + d] \in IF d = 1 THEN Second(s[i]) ELSE 128 .. 191
    BY DEF StartsRune
  <2> QED
    BY <2>2, <2>3
<1> QED
  BY <1>1, <1>3, <1>4 DEF StartsRune

LEMMA TextConcat ==
    ASSUME NEW s \in Seq(Nat), NEW t \in Seq(Nat), Text(s), Text(t)
    PROVE  Text(s \o t)
<1> DEFINE u == s \o t
<1>1. /\ u \in Seq(Nat) /\ Len(u) = Len(s) + Len(t) /\ Len(s) \in Nat /\ Len(t) \in Nat
      /\ \A i \in 1 .. Len(s) : u[i] = s[i]
      /\ \A i \in 1 .. Len(t) : u[Len(s) + i] = t[i]
  OBVIOUS
<1>0. Len(s) \in Nat /\ Len(t) \in Nat
  OBVIOUS
<1> HIDE DEF u
<1>2. ASSUME NEW i \in 1 .. Len(s) PROVE InRune(u, i)
  <2>1. PICK j \in 1 .. i : StartsRune(s, j) /\ i < j + Width(s[j])
    BY DEF Text, InRune
  <2>2. j \in 1 .. Len(s) /\ s[j] \in Nat /\ Width(s[j]) \in 0 .. 4
    <3>1. j \in 1 .. Len(s)
      BY <1>0
    <3>2. s[j] \in Nat
      BY <3>1
    <3> QED
      BY <3>1, <3>2, WidthIs
  <2>3. j + Width(s[j]) - 1 <= Len(s)
    BY <2>1 DEF StartsRune
  <2>4. ASSUME NEW d \in 0 .. Width(s[j]) - 1 PROVE u[j + d] = s[j + d]
    <3>1. j + d \in 1 .. Len(s)
      BY <1>0, <2>2, <2>3
    <3> QED
      BY <1>1, <3>1
  <2>5. StartsRune(u, j) /\ u[j] = s[j]
    <3>0. Len(u) = Len(s) + Len(t)
      BY <1>1
    <3>1. j \in 1 .. Len(u) /\ j + Width(s[j]) - 1 <= Len(u)
      BY <1>0, <2>2, <2>3, <3>0
    <3> QED
      BY <1>1, <2>1, <2>2, <2>4, <3>1, StartsAnywhere
  <2> QED
    BY <2>1, <2>5 DEF InRune
<1>3. ASSUME NEW i \in 1 .. Len(t) PROVE InRune(u, Len(s) + i)
  <2>1. PICK j \in 1 .. i : StartsRune(t, j) /\ i < j + Width(t[j])
    BY DEF Text, InRune
  <2>2. j \in 1 .. Len(t) /\ t[j] \in Nat /\ Width(t[j]) \in 0 .. 4
    <3>1. j \in 1 .. Len(t)
      BY <1>0
    <3>2. t[j] \in Nat
      BY <3>1
    <3> QED
      BY <3>1, <3>2, WidthIs
  <2>3. j + Width(t[j]) - 1 <= Len(t)
    BY <2>1 DEF StartsRune
  <2> DEFINE k == Len(s) + j
  <2>4. ASSUME NEW d \in 0 .. Width(t[j]) - 1 PROVE u[k + d] = t[j + d]
    <3>1. j + d \in 1 .. Len(t) /\ k + d = Len(s) + (j + d)
      BY <1>0, <2>2, <2>3
    <3> QED
      BY <1>1, <3>1
  <2>5. k \in 1 .. Len(u) /\ k + Width(t[j]) - 1 <= Len(u) /\ k \in 1 .. Len(s) + i
    <3>1. Len(u) = Len(s) + Len(t)
      BY <1>1
    <3> QED
      BY <1>0, <2>2, <2>3, <3>1
  <2>6. Len(s) + i < k + Width(t[j])
    BY <1>0, <2>1, <2>2
  <2> HIDE DEF k
  <2>7. StartsRune(u, k) /\ u[k] = t[j]
    BY <1>1, <2>1, <2>2, <2>4, <2>5, StartsAnywhere
  <2> QED
    BY <2>5, <2>6, <2>7 DEF InRune
<1>4. ASSUME NEW i \in 1 .. Len(u) PROVE InRune(u, i)
  <2>1. CASE i <= Len(s)
    BY <1>1, <1>2, <2>1
  <2>2. CASE ~(i <= Len(s))
    <3>1. i - Len(s) \in 1 .. Len(t) /\ i = Len(s) + (i - Len(s))
      BY <1>1, <2>2
    <3> QED
      BY <1>3, <3>1
  <2> QED
    BY <2>1, <2>2
<1> QED
  BY <1>4 DEF Text, u

\* A part of a string that begins and ends with characters of it.
LEMMA TextPrefix ==
    ASSUME NEW s \in Seq(Nat), Text(s), NEW e \in 1 .. Len(s),
           e < Len(s) => s[e + 1] \notin 128 .. 191
    PROVE  Text(SubSeq(s, 1, e))
<1> DEFINE u == SubSeq(s, 1, e)
<1>1. u \in Seq(Nat) /\ Len(u) = e /\ Len(s) \in Nat /\ \A i \in 1 .. e : u[i] = s[i]
  OBVIOUS
<1> HIDE DEF u
<1>2. ASSUME NEW i \in 1 .. e PROVE InRune(u, i)
  <2>0. i \in 1 .. Len(s)
    OBVIOUS
  <2>1. PICK j \in 1 .. i : StartsRune(s, j) /\ i < j + Width(s[j])
    BY <2>0 DEF Text, InRune
  <2>2. j \in 1 .. Len(s) /\ j \in 1 .. e /\ s[j] \in Nat /\ Width(s[j]) \in 0 .. 4
    <3>1. j \in 1 .. Len(s) /\ j \in 1 .. e
      BY <2>0
    <3>2. s[j] \in Nat
      BY <3>1
    <3> QED
      BY <3>1, <3>2, WidthIs
  <2>3. j + Width(s[j]) - 1 <= e
    <3> SUFFICES ASSUME j + Width(s[j]) - 1 > e PROVE FALSE
      BY <2>2
    <3>1. e + 1 \in Nat /\ j < e + 1 /\ e + 1 < j + Width(s[j])
      BY <2>2
    <3>2. e + 1 \in 1 .. Len(s) /\ s[e + 1] \in 128 .. 191
      BY <2>1, <2>2, <3>1, Continuations
    <3> QED
      BY <1>1, <3>2
  <2>4. ASSUME NEW d \in 0 .. Width(s[j]) - 1 PROVE u[j + d] = s[j + d]
    <3>1. j + d \in 1 .. e
      BY <1>1, <2>2, <2>3
    <3> QED
      BY <1>1, <3>1
  <2>5. StartsRune(u, j) /\ u[j] = s[j]
    BY <1>1, <2>1, <2>2, <2>3, <2>4, StartsAnywhere
  <2> QED
    BY <2>1, <2>5 DEF InRune
<1> QED
  BY <1>1, <1>2 DEF Text, u

LEMMA RuneIsText ==
    ASSUME NEW s \in Seq(Nat), NEW i \in 1 .. Len(s), StartsRune(s, i)
    PROVE  Text(SubSeq(s, i, i + Width(s[i]) - 1))
<1> DEFINE w == Width(s[i])
           u == SubSeq(s, i, i + w - 1)
<1>1. w \in 1 .. 4 /\ Len(s) \in Nat /\ i + w - 1 <= Len(s) /\ i \in Nat
  BY WidthIs DEF StartsRune
<1>2. u \in Seq(Nat) /\ Len(u) = w /\ \A d \in 1 .. w : u[d] = s[i + d - 1]
  <2> HIDE DEF w
  <2> QED
    BY <1>1
<1> HIDE DEF u
<1>3. ASSUME NEW d \in 0 .. w - 1 PROVE u[1 + d] = s[i + d]
  <2>1. 1 + d \in 1 .. w /\ i + (1 + d) - 1 = i + d
    BY <1>1
  <2> QED
    BY <1>2, <2>1
<1>4. StartsRune(u, 1) /\ u[1] = s[i]
  <2>1. 1 \in 1 .. Len(u) /\ 1 + Width(s[i]) - 1 <= Len(u)
    BY <1>1, <1>2
  <2> QED
    BY <1>2, <1>3, <2>1, StartsAnywhere
<1>5. ASSUME NEW n \in 1 .. w PROVE InRune(u, n)
  <2>1. 1 \in 1 .. n /\ n < 1 + Width(u[1])
    BY <1>1, <1>4
  <2> QED
    BY <1>4, <2>1 DEF InRune
<1> QED
  BY <1>2, <1>5 DEF Text, u

LEMMA ByteIsText ==
    ASSUME NEW b \in Nat, b < 128
    PROVE  Text(<<b>>)
<1> DEFINE u == <<b>>
<1>1. u \in Seq(Nat) /\ Len(u) = 1 /\ u[1] = b
  OBVIOUS
<1> HIDE DEF u
<1>2. Width(u[1]) = 1
  BY <1>1, WidthIs
<1>3. StartsRune(u, 1)
  BY <1>1, <1>2 DEF StartsRune
<1>4. ASSUME NEW i \in 1 .. Len(u) PROVE InRune(u, i)
  <2>1. i = 1
    BY <1>1
  <2> QED
    BY <1>2, <1>3, <2>1 DEF InRune
<1> QED
  BY <1>4 DEF Text, u

LEMMA ReplacementIsText == Text(Replacement)
<1> DEFINE u == Replacement
<1>1. u \in Seq(Nat) /\ Len(u) = 3 /\ u[1] = 239 /\ u[2] = 191 /\ u[3] = 189
  BY DEF Replacement
<1> HIDE DEF u
<1>2. Width(239) = 3 /\ Second(239) = 128 .. 191
  BY DEF Width, Second
<1>3. ASSUME NEW d \in 1 .. 2 PROVE u[1 + d] \in 128 .. 191
  <2>1. d = 1 \/ d = 2
    OBVIOUS
  <2>2. u[1 + 1] = 191 /\ u[1 + 2] = 189
    BY <1>1
  <2>3. CASE d = 1
    BY <2>2, <2>3
  <2>4. CASE d = 2
    BY <2>2, <2>4
  <2> QED
    BY <2>1, <2>3, <2>4
<1>4. StartsRune(u, 1)
  <2>1. Width(u[1]) = 3 /\ Second(u[1]) = 128 .. 191 /\ Len(u) = 3
    BY <1>1, <1>2
  <2>2. ASSUME NEW d \in 1 .. Width(u[1]) - 1
        PROVE  u[1 + d] \in IF d = 1 THEN Second(u[1]) ELSE 128 .. 191
    <3>1. d \in 1 .. 2
      BY <2>1
    <3> QED
      BY <1>3, <2>1, <3>1
  <2> QED
    BY <2>1, <2>2 DEF StartsRune
<1>5. ASSUME NEW i \in 1 .. Len(u) PROVE InRune(u, i)
  <2>1. 1 \in 1 .. i /\ i < 1 + Width(u[1])
    BY <1>1, <1>2
  <2> QED
    BY <1>4, <2>1 DEF InRune
<1> QED
  BY <1>5 DEF Text, u

LEMMA Associates ==
    ASSUME NEW h \in Seq(Nat), NEW a \in Seq(Nat), NEW b \in Seq(Nat)
    PROVE  (h \o a) \o b = h \o (a \o b)
OBVIOUS

LEMMA OneMore ==
    ASSUME NEW k \in Seq(Nat), NEW h \in Seq(Nat), NEW j \in 1 .. Len(k),
           NEW n \in Nat, j <= n + 1, n + 1 <= Len(k)
    PROVE  (h \o SubSeq(k, j, n)) \o <<k[n + 1]>> = h \o SubSeq(k, j, n + 1)
<1>1. n + 1 \in 1 .. Len(k) /\ n + 1 \in j .. Len(k) /\ (n + 1) - 1 = n
  OBVIOUS
<1>2. SubSeq(k, j, n + 1) = SubSeq(k, j, n) \o <<k[n + 1]>>
  BY <1>1, SubSeqRecursiveSecond
<1>3. SubSeq(k, j, n) \in Seq(Nat) /\ <<k[n + 1]>> \in Seq(Nat)
  <2>1. k[n + 1] \in Nat
    BY <1>1
  <2>2. \A i \in j .. n : k[i] \in Nat
    <3>1. j \in Nat /\ Len(k) \in Nat
      OBVIOUS
    <3>2. \A i \in j .. n : i \in 1 .. Len(k)
      BY <3>1
    <3> QED
      BY <3>2
  <2>3. j \in Int /\ n \in Int
    OBVIOUS
  <2> QED
    BY <2>1, <2>2, <2>3, SubSeqProperties
<1> QED
  <2> DEFINE a == SubSeq(k, j, n)
             b == <<k[n + 1]>>
  <2>1. a \in Seq(Nat) /\ b \in Seq(Nat) /\ SubSeq(k, j, n + 1) = a \o b
    BY <1>2, <1>3, Zenon
  <2> HIDE DEF a, b
  <2>2. (h \o a) \o b = h \o (a \o b)
    BY <2>1, Associates
  <2> QED
    BY <2>1, <2>2, Zenon DEF a, b

LEMMA NoDigit ==
    ASSUME NEW b \in 128 .. 191
    PROVE  b \notin Digits
BY DEF Digits

\* The mask of a character that is no digit is the character itself.
LEMMA MaskRune ==
    ASSUME NEW k \in Seq(Nat), NEW g, MasksOf(k, g),
           NEW j \in 1 .. Len(k), StartsRune(k, j), k[j] \notin Digits
    PROVE  g[j + Width(k[j]) - 1] = g[j - 1] \o SubSeq(k, j, j + Width(k[j]) - 1)
<1> DEFINE w == Width(k[j])
<1>1. w \in 1 .. 4 /\ Len(k) \in Nat /\ j \in Nat /\ k[j] \in Nat /\ j + w - 1 <= Len(k)
  BY WidthIs DEF StartsRune
<1>2. ASSUME NEW d \in Nat, d < w
      PROVE  j + d \in 1 .. Len(k) /\ MaskByte(k, j + d) = <<k[j + d]>>
  <2>1. j + d \in 1 .. Len(k) /\ j \in 1 .. j + d /\ j + d < j + w
    BY <1>1, <1>2
  <2>2. InRune(k, j + d)
    BY <2>1 DEF InRune
  <2>3. k[j + d] \notin Digits
    <3>1. CASE d = 0
      BY <1>1, <3>1
    <3>2. CASE d # 0
      <4>1. j < j + d /\ j + d \in Nat
        BY <1>1, <3>2
      <4>2. k[j + d] \in 128 .. 191
        BY <2>1, <4>1, Continuations
      <4> QED
        BY <4>2, NoDigit
    <3> QED
      BY <3>1, <3>2
  <2> QED
    BY <2>1, <2>2, <2>3 DEF MaskByte
<1> HIDE DEF w
<1>3. j - 1 \in 0 .. Len(k) /\ g[j - 1] \in Seq(Nat)
  <2>1. j - 1 \in 0 .. Len(k)
    BY <1>1
  <2> QED
    BY <2>1 DEF MasksOf
<1> DEFINE Kept(d) == g[j + d - 1] = g[j - 1] \o SubSeq(k, j, j + d - 1)
           P == {d \in Nat : d <= w => Kept(d)}
<1>4. 0 \in P
  <2>1. SubSeq(k, j, j - 1) = <<>> /\ j + 0 - 1 = j - 1
    BY <1>1
  <2>2. g[j - 1] \o <<>> = g[j - 1]
    BY <1>3
  <2> QED
    BY <2>1, <2>2 DEF P
<1> HIDE DEF P, Kept
<1>5. ASSUME NEW d \in P PROVE d + 1 \in P
  <2>0. d \in Nat /\ (d <= w => Kept(d))
    BY <1>5 DEF P
  <2> SUFFICES ASSUME d + 1 <= w PROVE Kept(d + 1)
    BY <2>0 DEF P
  <2>1. d \in Nat /\ d < w /\ Kept(d) /\ j + (d + 1) - 1 = j + d
    <3>1. d < w /\ d <= w /\ j + (d + 1) - 1 = j + d
      BY <1>1, <2>0
    <3> QED
      BY <2>0, <3>1
  <2> DEFINE n == j + d - 1
  <2>2. n \in Nat /\ j <= n + 1 /\ n + 1 = j + d /\ n + 1 <= Len(k)
    BY <1>1, <1>2, <2>1
  <2>3. n + 1 \in 1 .. Len(k) /\ MaskByte(k, n + 1) = <<k[n + 1]>>
    BY <1>2, <2>1, <2>2
  <2>4. g[n] = g[j - 1] \o SubSeq(k, j, n)
    BY <2>1 DEF Kept
  <2> HIDE DEF n
  <2>5. g[n + 1] = g[n] \o MaskByte(k, n + 1)
    <3>1. (n + 1) - 1 = n
      BY <2>2
    <3> QED
      BY <2>3, <3>1 DEF MasksOf
  <2>6. g[n + 1] = g[j - 1] \o SubSeq(k, j, n + 1)
    BY <1>3, <2>2, <2>3, <2>4, <2>5, OneMore
  <2> QED
    BY <2>1, <2>2, <2>6 DEF Kept
<1>6. P \in SUBSET Nat
  BY DEF P
<1>7. P = Nat
  BY <1>4, <1>5, <1>6, InductionOnNat
<1>8. Kept(w)
  <2>1. w \in P /\ w <= w
    BY <1>1, <1>7
  <2> QED
    BY <2>1 DEF P
<1> QED
  BY <1>8 DEF w, Kept

\* No character of k goes on after position n.
Boundary(k, n) == \A j \in 1 .. n : StartsRune(k, j) => j + Width(k[j]) - 1 <= n

LEMMA BoundaryBefore ==
    ASSUME NEW k \in Seq(Nat), NEW n \in 1 .. Len(k), StartsRune(k, n) \/ ~ InRune(k, n)
    PROVE  n - 1 \in Nat /\ Boundary(k, n - 1)
<1>1. Len(k) \in Nat /\ n \in Nat /\ n - 1 \in Nat
  OBVIOUS
<1>2. ASSUME NEW j \in 1 .. n - 1, StartsRune(k, j), ~(j + Width(k[j]) - 1 <= n - 1)
      PROVE  FALSE
  <2>1. j \in 1 .. Len(k) /\ j \in 1 .. n /\ j < n
    BY <1>1
  <2>2. k[j] \in Nat
    BY <2>1
  <2>3. Width(k[j]) \in 0 .. 4
    BY <2>2, WidthIs
  <2>4. n < j + Width(k[j])
    BY <1>1, <1>2, <2>1, <2>3
  <2>5. InRune(k, n)
    BY <1>2, <2>1, <2>4 DEF InRune
  <2>6. k[n] \in 128 .. 191
    BY <1>1, <1>2, <2>1, <2>4, Continuations
  <2>7. Width(k[n]) = 0
    <3>1. k[n] \in Nat
      BY <2>6
    <3> QED
      BY <2>6, <3>1, WidthIs
  <2> QED
    BY <2>5, <2>7 DEF StartsRune
<1> QED
  BY <1>1, <1>2 DEF Boundary

\* The mask is text up to each boundary.
LEMMA MaskIsText ==
    ASSUME NEW k \in Seq(Nat)
    PROVE  Text(Mask(k))
<1>1. PICK g : MasksOf(k, g)
  BY MaskIs
<1>2. Len(k) \in Nat
  OBVIOUS
<1> DEFINE Good(n) == n <= Len(k) /\ Boundary(k, n) => Text(g[n])
           P == {i \in Nat : \A n \in 0 .. i : Good(n)}
<1>3. 0 \in P
  <2>1. g[0] = <<>>
    BY <1>1 DEF MasksOf
  <2>2. Text(<<>>)
    BY DEF Text
  <2>3. \A n \in 0 .. 0 : n = 0
    OBVIOUS
  <2> QED
    BY <2>1, <2>2, <2>3
<1>4. ASSUME NEW i \in P PROVE i + 1 \in P
  <2>1. i \in Nat /\ \A n \in 0 .. i : Good(n)
    OBVIOUS
  <2> DEFINE n == i + 1
  <2>2. n \in Nat /\ n - 1 = i /\ \A x \in 0 .. n : x \in 0 .. i \/ x = n
    BY <2>1
  <2>3. ASSUME n <= Len(k), Boundary(k, n) PROVE Text(g[n])
    <3>1. n \in 1 .. Len(k) /\ n - 1 \in 0 .. Len(k) /\ i \in 0 .. i
      BY <1>2, <2>1, <2>3
    <3>2. k[n] \in Nat
      BY <3>1
    <3>3. g[n] = g[n - 1] \o MaskByte(k, n) /\ g[n - 1] \in Seq(Nat)
      BY <1>1, <3>1 DEF MasksOf
    <3>4. ASSUME StartsRune(k, n) \/ ~ InRune(k, n), Text(MaskByte(k, n)) PROVE Text(g[n])
      <4>1. Boundary(k, n - 1)
        BY <3>1, <3>4, BoundaryBefore
      <4>2. Text(g[n - 1])
        BY <1>2, <2>1, <2>2, <3>1, <4>1
      <4>3. MaskByte(k, n) \in Seq(Nat)
        BY <3>1, MaskByteIs
      <4> QED
        BY <3>3, <3>4, <4>2, <4>3, TextConcat
    <3>5. CASE k[n] \in Digits
      <4>1. Width(k[n]) = 1
        BY <3>2, <3>5, WidthIs DEF Digits
      <4>2. StartsRune(k, n)
        BY <3>1, <4>1 DEF StartsRune
      <4>3. MaskByte(k, n) = <<42>>
        BY <3>5 DEF MaskByte, Star
      <4>4. Text(<<42>>)
        BY ByteIsText
      <4> QED
        BY <3>4, <4>2, <4>3, <4>4
    <3>6. CASE k[n] \notin Digits /\ ~ InRune(k, n)
      <4>1. MaskByte(k, n) = Replacement
        BY <3>6 DEF MaskByte
      <4> QED
        BY <3>4, <3>6, <4>1, ReplacementIsText
    <3>7. CASE k[n] \notin Digits /\ InRune(k, n)
      <4>1. PICK j \in 1 .. n : StartsRune(k, j) /\ n < j + Width(k[j])
        BY <3>7 DEF InRune
      <4>2. j \in 1 .. Len(k) /\ j \in Nat /\ j - 1 \in 0 .. i /\ j - 1 <= Len(k)
        BY <1>2, <2>1, <3>1
      <4>3. k[j] \in Nat
        BY <4>2
      <4>4. Width(k[j]) \in 0 .. 4
        BY <4>3, WidthIs
      <4>5. j + Width(k[j]) - 1 <= n
        BY <2>3, <4>1 DEF Boundary
      <4>6. n = j + Width(k[j]) - 1
        BY <2>2, <4>1, <4>2, <4>4, <4>5
      <4>7. k[j] \notin Digits
        <5>1. CASE j = n
          BY <3>7, <5>1
        <5>2. CASE j # n
          <6>1. Width(k[j]) # 1
            BY <2>2, <4>2, <4>4, <4>6, <5>2
          <6> QED
            BY <4>3, <6>1, WidthIs DEF Digits
        <5> QED
          BY <5>1, <5>2
      <4>8. g[n] = g[j - 1] \o SubSeq(k, j, n)
        BY <1>1, <4>1, <4>2, <4>6, <4>7, MaskRune
      <4>9. Text(SubSeq(k, j, n))
        BY <4>1, <4>2, <4>6, RuneIsText
      <4>10. SubSeq(k, j, n) \in Seq(Nat) /\ g[j - 1] \in Seq(Nat)
        <5>1. j - 1 \in 0 .. Len(k)
          BY <1>2, <4>2
        <5>2. g[j - 1] \in Seq(Nat)
          BY <1>1, <5>1 DEF MasksOf
        <5>3. SubSeq(k, j, n) \in Seq(Nat)
          BY <3>1, <4>2
        <5> QED
          BY <5>2, <5>3
      <4>11. Text(g[j - 1])
        <5>1. Boundary(k, j - 1)
          BY <4>1, <4>2, BoundaryBefore
        <5> QED
          BY <2>1, <4>2, <5>1
      <4> QED
        BY <4>8, <4>9, <4>10, <4>11, TextConcat
    <3> QED
      BY <3>5, <3>6, <3>7
  <2>4. \A x \in 0 .. n : Good(x)
    BY <2>1, <2>2, <2>3
  <2> QED
    BY <2>2, <2>4
<1>5. P \in SUBSET Nat
  OBVIOUS
<1> HIDE DEF P
<1>6. P = Nat
  BY <1>3, <1>4, <1>5, InductionOnNat
<1>7. Len(k) \in 0 .. Len(k) /\ Good(Len(k))
  BY <1>2, <1>6 DEF P
<1>8. Boundary(k, Len(k))
  BY DEF Boundary, StartsRune
<1>9. g[Len(k)] = Mask(k)
  BY <1>1 DEF MasksOf
<1> QED
  BY <1>2, <1>7, <1>8, <1>9

----------------------------------------------------------------------------
(* Prefixes.                                                               *)

\* The last of some positions, or 0.
LEMMA LastPosition ==
    ASSUME NEW n \in Nat, NEW S \in SUBSET (1 .. n)
    PROVE  LET x == Max({0} \cup S) IN
           /\ x \in {0} \cup S
           /\ \A y \in S : y <= x
<1> DEFINE T == {0} \cup S
<1>1. \E x \in T : \A y \in T : x >= y
  <2>1. CASE S = {}
    BY <2>1
  <2>2. CASE S # {}
    <3>1. PICK x \in S : \A y \in S : x >= y
      BY <2>2, GreatestOf
    <3>2. x \in T /\ \A y \in T : x >= y
      BY <3>1
    <3> QED
      BY <3>2
  <2> QED
    BY <2>1, <2>2
<1> HIDE DEF T
<1>2. Max(T) \in T /\ \A y \in T : Max(T) >= y
  BY <1>1, Zenon DEF Max
<1>3. \A y \in T : y \in Nat
  BY DEF T
<1>4. \A y \in S : y \in T /\ y <= Max(T)
  BY <1>2, <1>3 DEF T
<1> QED
  BY <1>2, <1>4 DEF T

\* Where the i-th byte is a separator, the prefix ends at the last byte before
\* it that is none.
LEMMA TrimIs ==
    ASSUME NEW m \in Seq(Nat), NEW i \in 1 .. Len(m), m[i] \in separators
    PROVE  LET S == {j \in 1 .. i : m[j] \notin separators}
               e == Max({0} \cup S)
           IN  /\ Trim(SubSeq(m, 1, i)) = SubSeq(m, 1, e)
               /\ e \in {0} \cup S /\ \A j \in S : j <= e
               /\ e \in Nat /\ e < i
<1> DEFINE S == {j \in 1 .. i : m[j] \notin separators}
           e == Max({0} \cup S)
           s == SubSeq(m, 1, i)
<1>1. Len(m) \in Nat /\ i \in Nat /\ i \in 1 .. i
  OBVIOUS
<1>2. s \in Seq(Nat) /\ Len(s) = i /\ \A j \in 1 .. i : s[j] = m[j]
  BY <1>1
<1> HIDE DEF s
<1>3. {j \in 1 .. Len(s) : s[j] \notin separators} = S
  BY <1>2
<1>4. Trim(s) = SubSeq(s, 1, e)
  BY <1>3, Zenon DEF Trim
<1>5. S \in SUBSET (1 .. i) /\ i \notin S
  OBVIOUS
<1> HIDE DEF S
<1>6. e \in {0} \cup S /\ \A j \in S : j <= e
  BY <1>1, <1>5, LastPosition
<1> HIDE DEF e
<1>7. e \in Nat /\ e < i
  BY <1>1, <1>5, <1>6
<1>8. SubSeq(s, 1, e) = SubSeq(m, 1, e)
  <2> DEFINE a == SubSeq(s, 1, e)
             b == SubSeq(m, 1, e)
  <2>1. a \in Seq(Nat) /\ Len(a) = e /\ \A j \in 1 .. e : a[j] = s[j]
    BY <1>2, <1>7
  <2>2. b \in Seq(Nat) /\ Len(b) = e /\ \A j \in 1 .. e : b[j] = m[j]
    BY <1>1, <1>7
  <2>3. \A j \in 1 .. e : s[j] = m[j]
    BY <1>1, <1>2, <1>7
  <2> HIDE DEF a, b
  <2>4. a = b
    BY <2>1, <2>2, <2>3, SeqEqual
  <2> QED
    BY <2>4 DEF a, b
<1> QED
  BY <1>4, <1>6, <1>7, <1>8 DEF S, e, s

(* The prefixes of every key are the cuts of its masked form, before each  *)
(* run of separators: the loop over the key and the trimming of what it    *)
(* cuts lose none, and add neither an empty one nor one that ends in a     *)
(* separator.                                                              *)
THEOREM NamesAreCuts == Spec => []NamesAreTheCuts
<1>1. KeyOK => NamesAreTheCuts
  <2> SUFFICES ASSUME KeyOK PROVE NamesAreTheCuts
    OBVIOUS
  <2> DEFINE m == Mask(key)
             n == Len(m)
             Ends == {i \in 1 .. n - 1 : m[i] \notin separators /\ m[i + 1] \in separators}
             Trimmed == {Trim(SubSeq(m, 1, i)) : i \in Cuts(m)}
  <2>1. m \in Seq(Nat) /\ n \in Nat
    <3>1. m \in Seq(Nat)
      BY KeyIs, MaskIsSequence
    <3> HIDE DEF m
    <3> QED
      BY <3>1
  <2>2. Names(key) = (IF Cuts(m) = {} THEN {m} ELSE Trimmed) \ {<<>>}
    BY Zenon DEF Names, getPrefixes
  <2>3. Cuts(m) = {} <=> \A i \in 1 .. n : m[i] \notin separators
    BY DEF Cuts
  <2> HIDE DEF m
  <2>4. ASSUME NEW i \in Cuts(m), Trim(SubSeq(m, 1, i)) # <<>>
        PROVE  \E e \in Ends : Trim(SubSeq(m, 1, i)) = SubSeq(m, 1, e)
    <3>1. i \in 1 .. n /\ m[i] \in separators
      BY DEF Cuts
    <3> DEFINE S == {j \in 1 .. i : m[j] \notin separators}
    <3>2. PICK e : /\ Trim(SubSeq(m, 1, i)) = SubSeq(m, 1, e)
                   /\ e \in {0} \cup S /\ \A j \in S : j <= e
                   /\ e \in Nat /\ e < i
      BY <2>1, <3>1, TrimIs
    <3>3. e # 0
      BY <2>1, <2>4, <3>2
    <3>4. e \in S /\ e + 1 \in 1 .. i /\ e + 1 \notin S
      BY <2>1, <3>1, <3>2, <3>3
    <3>5. m[e] \notin separators /\ m[e + 1] \in separators /\ e \in 1 .. n - 1
      BY <2>1, <3>1, <3>2, <3>4
    <3> QED
      BY <3>2, <3>5
  <2>5. ASSUME NEW e \in Ends
        PROVE  /\ SubSeq(m, 1, e) # <<>>
               /\ \E i \in Cuts(m) : Trim(SubSeq(m, 1, i)) = SubSeq(m, 1, e)
    <3>1. /\ e \in Nat /\ e \in 1 .. n /\ e + 1 \in 1 .. n
          /\ m[e] \notin separators /\ m[e + 1] \in separators
      BY <2>1
    <3> DEFINE S == {j \in 1 .. e + 1 : m[j] \notin separators}
    <3>2. PICK x : /\ Trim(SubSeq(m, 1, e + 1)) = SubSeq(m, 1, x)
                   /\ x \in {0} \cup S /\ \A j \in S : j <= x
                   /\ x \in Nat /\ x < e + 1
      BY <2>1, <3>1, TrimIs
    <3>3. e \in S
      BY <3>1
    <3>4. x = e
      BY <3>1, <3>2, <3>3
    <3>5. e + 1 \in Cuts(m)
      BY <3>1 DEF Cuts
    <3>6. Len(SubSeq(m, 1, e)) = e /\ e # 0
      BY <2>1, <3>1
    <3>7. SubSeq(m, 1, e) # <<>>
      BY <3>6
    <3> QED
      BY <3>2, <3>4, <3>5, <3>7
  <2>6. Trimmed \ {<<>>} = {SubSeq(m, 1, i) : i \in Ends}
    <3> HIDE DEF Ends
    <3>1. \A x \in Trimmed \ {<<>>} : x \in {SubSeq(m, 1, i) : i \in Ends}
      BY <2>4
    <3>2. \A x \in {SubSeq(m, 1, i) : i \in Ends} : x \in Trimmed \ {<<>>}
      BY <2>5
    <3> QED
      BY <3>1, <3>2
  <2> QED
    BY <2>2, <2>3, <2>6 DEF NamesAreTheCuts, m
<1> QED
  BY <1>1, KeysAreSequences, PTL

(* Whatever bytes a key has, its prefixes are text: masking replaces what  *)
(* is no character, and no cut separates the bytes of one.                 *)
THEOREM PrefixesAreText == Spec => []NamesAreText
<1>1. KeyOK /\ NamesAreTheCuts => NamesAreText
  <2> SUFFICES ASSUME KeyOK, NamesAreTheCuts, NEW p \in Names(key) PROVE Text(p)
    BY DEF NamesAreText, Text
  <2> DEFINE m == Mask(key)
             n == Len(m)
             Ends == {i \in 1 .. n - 1 : m[i] \notin separators /\ m[i + 1] \in separators}
  <2>1. m \in Seq(Nat) /\ Text(m)
    BY KeyIs, MaskIsSequence, MaskIsText
  <2>2. p \in IF \A i \in 1 .. n : m[i] \notin separators
              THEN {m} \ {<<>>} ELSE {SubSeq(m, 1, i) : i \in Ends}
    BY DEF NamesAreTheCuts
  <2> HIDE DEF m
  <2>3. CASE p = m
    BY <2>1, <2>3
  <2>4. ASSUME NEW e \in Ends PROVE Text(SubSeq(m, 1, e))
    <3>1. n \in Nat
      BY <2>1
    <3>2. e \in 1 .. n /\ m[e + 1] \in separators
      BY <3>1
    <3>3. m[e + 1] \notin 128 .. 191
      <4>1. \A b \in separators : b \notin 128 .. 191
        BY DEF separators
      <4> QED
        BY <3>2, <4>1
    <3> QED
      BY <2>1, <3>2, <3>3, TextPrefix
  <2> QED
    BY <2>2, <2>3, <2>4
<1> QED
  BY <1>1, KeysAreSequences, NamesAreCuts, PTL

----------------------------------------------------------------------------
(* Slots.                                                                  *)

\* The first position from i on at which b is, or 0.
LEMMA IndexFromIs ==
    ASSUME NEW k \in Seq(Nat), NEW b, NEW i \in Nat \ {0}
    PROVE  LET x == IndexFrom(k, b, i) IN
           \/ x = 0 /\ \A n \in i .. Len(k) : k[n] # b
           \/ x \in i .. Len(k) /\ k[x] = b /\ \A n \in i .. x - 1 : k[n] # b
<1> DEFINE at == {n \in i .. Len(k) : k[n] = b}
           x == IndexFrom(k, b, i)
<1>1. x = IF at = {} THEN 0 ELSE Min(at)
  BY DEF IndexFrom
<1>2. CASE at = {}
  BY <1>1, <1>2
<1>3. CASE at # {}
  <2>1. at \in SUBSET Nat
    OBVIOUS
  <2>2. \E y \in at : \A z \in at : y <= z
    BY <1>3, <2>1, LeastOf
  <2> HIDE DEF at
  <2>3. Min(at) \in at /\ \A z \in at : Min(at) <= z
    BY <2>2, Zenon DEF Min
  <2>4. x \in at /\ \A z \in at : x <= z
    BY <1>1, <1>3, <2>3
  <2> HIDE DEF x
  <2>5. x \in i .. Len(k) /\ k[x] = b /\ Len(k) \in Nat
    BY <2>4 DEF at
  <2>6. ASSUME NEW n \in i .. x - 1 PROVE k[n] # b
    <3>1. n \in i .. Len(k) /\ n < x
      BY <2>5
    <3>2. ~(x <= n)
      BY <2>5, <3>1
    <3> QED
      BY <2>4, <3>1, <3>2 DEF at
  <2> QED
    BY <2>5, <2>6 DEF x
<1> QED
  BY <1>2, <1>3

\* What is hashed is the tag, or the key if there is none.
LEMMA HashedIs ==
    ASSUME NEW k \in Seq(Nat)
    PROVE  /\ \A i, j : IsTag(k, i, j) => Hashed(k) = SubSeq(k, i + 1, j - 1)
           /\ (~ \E i, j : IsTag(k, i, j)) => Hashed(k) = k
<1> DEFINE start == IndexFrom(k, Open, 1)
           end == IndexFrom(k, Close, start + 1)
<1>1. Hashed(k) = IF start = 0 \/ end = 0 THEN k ELSE SubSeq(k, start + 1, end - 1)
  BY DEF Hashed
<1>2. Len(k) \in Nat /\ 1 \in Nat \ {0}
  OBVIOUS
<1>3. \/ start = 0 /\ \A n \in 1 .. Len(k) : k[n] # Open
      \/ start \in 1 .. Len(k) /\ k[start] = Open /\ \A n \in 1 .. start - 1 : k[n] # Open
  BY <1>2, IndexFromIs
<1>4. start + 1 \in Nat \ {0}
  BY <1>2, <1>3
<1> HIDE DEF start
<1>5. \/ end = 0 /\ \A n \in start + 1 .. Len(k) : k[n] # Close
      \/ /\ end \in start + 1 .. Len(k) /\ k[end] = Close
         /\ \A n \in start + 1 .. end - 1 : k[n] # Close
  BY <1>4, IndexFromIs
<1> HIDE DEF end
<1>6. ASSUME NEW i, NEW j, IsTag(k, i, j)
      PROVE  Hashed(k) = SubSeq(k, i + 1, j - 1)
  <2>1. /\ i \in 1 .. Len(k) /\ j \in 1 .. Len(k)
        /\ i < j /\ k[i] = Open /\ k[j] = Close
        /\ \A n \in 1 .. i - 1 : k[n] # Open
        /\ \A n \in i + 1 .. j - 1 : k[n] # Close
    BY <1>6 DEF IsTag
  <2>2. start # 0
    BY <1>3, <2>1
  <2>3. ~(start < i) /\ ~(i < start)
    BY <1>2, <1>3, <2>1, <2>2
  <2>4. start = i
    BY <1>2, <1>3, <2>1, <2>2, <2>3
  <2>5. end # 0
    BY <1>2, <1>5, <2>1, <2>4
  <2>6. ~(end < j) /\ ~(j < end)
    BY <1>2, <1>5, <2>1, <2>4, <2>5
  <2>7. end = j
    BY <1>2, <1>5, <2>1, <2>4, <2>5, <2>6
  <2> QED
    BY <1>1, <2>2, <2>4, <2>5, <2>7
<1>7. ASSUME start # 0, end # 0
      PROVE  IsTag(k, start, end)
  BY <1>2, <1>3, <1>5, <1>7 DEF IsTag
<1>8. (~ \E i, j : IsTag(k, i, j)) => Hashed(k) = k
  BY <1>1, <1>7
<1> QED
  BY <1>6, <1>8

(* A key with a tag that is not empty is in the slot of its tag and a key  *)
(* without a tag is hashed whole, for every key and whatever the hash.     *)
THEOREM TagsDecideSlots == Spec => []TagDecidesSlot
<1>1. KeyOK => TagDecidesSlot
  <2> SUFFICES ASSUME KeyOK PROVE TagDecidesSlot
    OBVIOUS
  <2>1. key \in Seq(Nat)
    BY KeyIs
  <2>2. /\ \A i, j : IsTag(key, i, j) => Hashed(key) = SubSeq(key, i + 1, j - 1)
        /\ (~ \E i, j : IsTag(key, i, j)) => Hashed(key) = key
    BY <2>1, HashedIs
  <2>3. ASSUME NEW i \in DOMAIN key, NEW j \in DOMAIN key, IsTag(key, i, j)
        PROVE  Slot(key) = crc16(SubSeq(key, i + 1, j - 1)) % 16384
    <3>1. Hashed(key) = SubSeq(key, i + 1, j - 1)
      BY <2>2, <2>3
    <3> QED
      BY <3>1 DEF Slot
  <2>4. ASSUME ~ \E i, j \in DOMAIN key : IsTag(key, i, j)
        PROVE  Slot(key) = crc16(key) % 16384
    <3>1. \A i, j : IsTag(key, i, j) => i \in DOMAIN key /\ j \in DOMAIN key
      BY DEF IsTag
    <3>2. Hashed(key) = key
      BY <2>2, <2>4, <3>1
    <3> QED
      BY <3>2 DEF Slot
  <2> QED
    BY <2>3, <2>4 DEF TagDecidesSlot
<1> QED
  BY <1>1, KeysAreSequences, PTL
=============================================================================

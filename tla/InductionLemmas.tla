--------------------------- MODULE InductionLemmas ---------------------------
(***************************************************************************)
(* Induction over the natural numbers and recursive definitions over them, *)
(* stated for sets and functions, which every proof here can instantiate.  *)
(***************************************************************************)
EXTENDS Integers, SequencesExt, SequenceTheorems, WellFoundedInduction, TLAPS

LEMMA LeastNatural ==
    ASSUME NEW T \in SUBSET Nat, T # {}
    PROVE  \E n \in T : \A m \in T : n <= m
<1> DEFINE R == {ss \in Nat \X Nat : ss[1] < ss[2]}
<1>1. IsWellFoundedOn(R, Nat)
  BY NatLessThanWellFounded DEF OpToRel
<1> HIDE DEF R
<1>2. PICK n \in T : \A m \in T : ~(<<m, n>> \in R)
  BY <1>1, WFMin
<1>3. \A m \in T : ~(m < n)
  BY <1>2 DEF R
<1> QED
  BY <1>3

LEMMA Induction ==
    ASSUME NEW T, 0 \in T, \A n \in Nat : n \in T => n + 1 \in T
    PROVE  Nat \subseteq T
<1>1. SUFFICES ASSUME Nat \ T # {} PROVE FALSE
  OBVIOUS
<1>2. PICK n \in Nat \ T : \A m \in Nat \ T : n <= m
  BY <1>1, LeastNatural
<1>3. n # 0 /\ n - 1 \in Nat
  BY <1>2
<1>4. n - 1 \in T
  BY <1>2, <1>3
<1>5. (n - 1) + 1 = n
  BY <1>3
<1> QED
  BY <1>2, <1>3, <1>4, <1>5

\* f is what a recursive definition over the numbers up to n asks for.
Solves(f, n, base, G, S) ==
    f \in [0 .. n -> S] /\ f[0] = base /\ \A i \in 1 .. n : f[i] = G[<<i, f[i - 1]>>]

\* A recursive definition over the numbers up to n has a solution.
LEMMA Recursion ==
    ASSUME NEW S, NEW base \in S, NEW G \in [Nat \X S -> S], NEW n \in Nat
    PROVE  \E f : Solves(f, n, base, G, S)
<1> DEFINE T == {k \in Nat : \E f : Solves(f, k, base, G, S)}
<1>1. 0 \in T
  <2>1. [i \in 0 .. 0 |-> base] \in [0 .. 0 -> S] /\ [i \in 0 .. 0 |-> base][0] = base
    OBVIOUS
  <2>2. Solves([i \in 0 .. 0 |-> base], 0, base, G, S)
    BY <2>1 DEF Solves
  <2> QED
    BY <2>2
<1>2. ASSUME NEW k \in Nat, k \in T PROVE k + 1 \in T
  <2>1. PICK f : Solves(f, k, base, G, S)
    BY <1>2
  <2> DEFINE g == [i \in 0 .. k + 1 |-> IF i = k + 1 THEN G[<<k + 1, f[k]>>] ELSE f[i]]
  <2>2. f[k] \in S /\ G[<<k + 1, f[k]>>] \in S
    BY <2>1 DEF Solves
  <2>3. \A i \in 0 .. k : i \in 0 .. k + 1 /\ i # k + 1 /\ g[i] = f[i] /\ f[i] \in S
    BY <2>1 DEF Solves
  <2>4. g \in [0 .. k + 1 -> S]
    <3>1. \A i \in 0 .. k + 1 : i \in 0 .. k \/ i = k + 1
      OBVIOUS
    <3>2. \A i \in 0 .. k + 1 : (IF i = k + 1 THEN G[<<k + 1, f[k]>>] ELSE f[i]) \in S
      BY <2>2, <2>3, <3>1
    <3> QED
      BY <3>2
  <2>5. g[0] = base
    BY <2>1, <2>3 DEF Solves
  <2>6. ASSUME NEW i \in 1 .. k + 1 PROVE g[i] = G[<<i, g[i - 1]>>]
    <3>1. i - 1 \in 0 .. k /\ g[i - 1] = f[i - 1]
      BY <2>3
    <3>2. CASE i = k + 1
      <4>1. i - 1 = k /\ g[i] = G[<<k + 1, f[k]>>]
        BY <3>2
      <4> QED
        BY <3>1, <3>2, <4>1
    <3>3. CASE i # k + 1
      <4>1. i \in 1 .. k /\ i \in 0 .. k
        BY <3>3
      <4> QED
        BY <2>1, <2>3, <3>1, <4>1 DEF Solves
    <3> QED
      BY <3>2, <3>3
  <2> HIDE DEF g
  <2>7. Solves(g, k + 1, base, G, S)
    BY <2>4, <2>5, <2>6 DEF Solves
  <2> QED
    BY <2>7
<1> HIDE DEF T
<1>3. n \in T
  BY <1>1, <1>2, Induction
<1> QED
  BY <1>3 DEF T


-----------------------------------------------------------------------------
(* Sequences of sequences put together *)

\* g puts s together, one of its sequences after the other.
Flattens(g, s, S) ==
    /\ g \in [0 .. Len(s) -> Seq(S)] /\ g[0] = <<>>
    /\ \A i \in 1 .. Len(s) : g[i] = g[i - 1] \o s[i]

FlattenOf(s) ==
    CHOOSE f : f = [i \in 1 .. Len(s) |-> IF i = 1 THEN s[i] ELSE f[i - 1] \o s[i]]

LEMMA FlattenSeqIs == \A s : FlattenSeq(s) = IF Len(s) = 0 THEN s ELSE FlattenOf(s)[Len(s)]
BY DEF FlattenSeq, FlattenOf

LEMMA FlattenSolves ==
    ASSUME NEW S, NEW s \in Seq(Seq(S))
    PROVE  \E g : Flattens(g, s, S)
<1>1. PICK n \in Nat : n = Len(s) /\ DOMAIN s = 1 .. n
  OBVIOUS
<1> DEFINE T == Seq(S)
           Longer(i, q) == IF i \in 1 .. n THEN q \o s[i] ELSE q
           G == [p \in Nat \X T |-> Longer(p[1], p[2])]
<1>2. ASSUME NEW i \in Nat, NEW q \in T PROVE Longer(i, q) \in T
  <2>1. CASE i \in 1 .. n
    <3>1. s[i] \in T
      BY <1>1, <2>1, ElementOfSeq
    <3> QED
      BY <2>1, <3>1, ConcatProperties
  <2>2. CASE i \notin 1 .. n
    BY <2>2
  <2> QED
    BY <2>1, <2>2
<1>3. G \in [Nat \X T -> T] /\ \A i \in Nat, q \in T : G[<<i, q>>] = Longer(i, q)
  <2> HIDE DEF Longer, T
  <2> QED
    BY <1>2
<1>4. <<>> \in T
  OBVIOUS
<1>5. PICK g : Solves(g, n, <<>>, G, T)
  <2> HIDE DEF G, T
  <2> QED
    BY <1>3, <1>4, Recursion
<1>6. g \in [0 .. n -> T] /\ g[0] = <<>> /\ \A i \in 1 .. n : g[i] = G[<<i, g[i - 1]>>]
  BY <1>5 DEF Solves
<1>7. ASSUME NEW i \in 1 .. n PROVE g[i] = g[i - 1] \o s[i]
  <2>1. i - 1 \in 0 .. n /\ i \in Nat
    OBVIOUS
  <2>2. PICK q \in T : q = g[i - 1]
    BY <1>6, <2>1
  <2>3. g[i] = Longer(i, q)
    <3> HIDE DEF Longer, T, G
    <3> QED
      BY <1>3, <1>6, <2>1, <2>2
  <2> QED
    BY <2>2, <2>3
<1>8. Flattens(g, s, S)
  BY <1>1, <1>6, <1>7 DEF Flattens
<1> QED
  BY <1>8

LEMMA FlattenIs ==
    ASSUME NEW S, NEW s \in Seq(Seq(S)), NEW g, Flattens(g, s, S)
    PROVE  FlattenSeq(s) = g[Len(s)]
<1>1. PICK n \in Nat : n = Len(s) /\ DOMAIN s = 1 .. n
  OBVIOUS
<1>2. g \in [0 .. n -> Seq(S)] /\ g[0] = <<>> /\ \A i \in 1 .. n : g[i] = g[i - 1] \o s[i]
  BY <1>1 DEF Flattens
<1>3. CASE n = 0
  <2>1. FlattenSeq(s) = s /\ s = <<>>
    BY <1>1, <1>3, FlattenSeqIs, EmptySeq
  <2> QED
    BY <1>1, <1>2, <1>3, <2>1
<1>4. CASE n # 0
  <2> DEFINE F(f) == [i \in 1 .. Len(s) |-> IF i = 1 THEN s[i] ELSE f[i - 1] \o s[i]]
             h == [i \in 1 .. n |-> g[i]]
             flatten == CHOOSE f : f = F(f)
  <2>1. g[1] = s[1]
    <3>1. g[1] = g[0] \o s[1] /\ s[1] \in Seq(S)
      <4>1. 1 \in 1 .. n /\ 1 - 1 = 0
        BY <1>4
      <4>2. s[1] \in Seq(S)
        BY <1>1, <4>1, ElementOfSeq
      <4> QED
        BY <1>2, <4>1, <4>2
    <3> QED
      BY <1>2, <3>1, ConcatEmptySeq
  <2>2. ASSUME NEW i \in 1 .. n PROVE h[i] = IF i = 1 THEN s[i] ELSE h[i - 1] \o s[i]
    <3>1. CASE i = 1
      BY <2>1, <3>1
    <3>2. CASE i # 1
      <4>1. i - 1 \in 1 .. n
        BY <3>2
      <4> QED
        BY <1>2, <3>2, <4>1
    <3> QED
      BY <3>1, <3>2
  <2>3. h = F(h)
    <3>1. h = [i \in 1 .. n |-> h[i]]
      OBVIOUS
    <3> HIDE DEF h
    <3> QED
      BY <1>1, <2>2, <3>1
  <2>4. flatten = F(flatten)
    <3> HIDE DEF h
    <3> QED
      BY <2>3
  <2>5. FlattenOf(s) = flatten
    BY DEF FlattenOf
  <2> HIDE DEF flatten
  <2>6. \A i \in 1 .. n : flatten[i] = IF i = 1 THEN s[i] ELSE flatten[i - 1] \o s[i]
    BY <1>1, <2>4
  <2> DEFINE T == {k \in Nat : k \in 1 .. n => flatten[k] = g[k]}
  <2>7. 0 \in T
    OBVIOUS
  <2>8. ASSUME NEW k \in Nat, k \in T PROVE k + 1 \in T
    <3>1. SUFFICES ASSUME k + 1 \in 1 .. n PROVE flatten[k + 1] = g[k + 1]
      OBVIOUS
    <3>2. CASE k = 0
      BY <2>1, <2>6, <3>1, <3>2
    <3>3. CASE k # 0
      <4>1. k \in 1 .. n /\ k + 1 # 1 /\ (k + 1) - 1 = k
        BY <3>1, <3>3
      <4>2. flatten[k] = g[k]
        BY <2>8, <4>1
      <4>3. flatten[k + 1] = flatten[k] \o s[k + 1] /\ g[k + 1] = g[k] \o s[k + 1]
        BY <1>2, <2>6, <3>1, <4>1
      <4> QED
        BY <4>2, <4>3
    <3> QED
      BY <3>2, <3>3
  <2> HIDE DEF T
  <2>9. n \in T
    BY <2>7, <2>8, Induction
  <2>10. flatten[n] = g[n]
    BY <1>4, <2>9 DEF T
  <2> QED
    BY <1>1, <1>4, <2>5, <2>10, FlattenSeqIs
<1> QED
  BY <1>3, <1>4
=============================================================================

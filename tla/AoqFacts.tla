------------------------------ MODULE AoqFacts ------------------------------
(***************************************************************************)
(* Facts the proofs of several components need: induction over a set of    *)
(* numbers, the fold that adds up the values of a function, and sequences  *)
(* that are cut and joined.                                                *)
(*                                                                         *)
(* The fold of Functions.tla is a recursive function over the subsets of   *)
(* the domain that takes away one chosen element at a time.  For numbers   *)
(* the order does not matter, which is what the last lemmas say.           *)
(***************************************************************************)
EXTENDS Integers, FiniteSets, Sequences, SequencesExt, FiniteSetTheorems,
        SequenceTheorems, WellFoundedInduction, TLAPS

(* A set of numbers that is not empty has a least one.                     *)
LEMMA Least ==
  ASSUME NEW T, T \subseteq Nat, T # {}
  PROVE  \E x \in T : \A y \in T : x <= y
  <1>1. PICK x \in T : \A y \in T : ~ (<<y, x>> \in OpToRel(<, Nat))
    BY NatLessThanWellFounded, WFMin
  <1>2. ASSUME NEW y \in T PROVE x <= y
    <2>1. ~ (<<y, x>> \in OpToRel(<, Nat))
      BY <1>1
    <2>2. <<y, x>> \in Nat \X Nat
      OBVIOUS
    <2>3. ~ (y < x)
      BY <2>1, <2>2 DEF OpToRel
    <2> QED
      BY <2>3
  <1> QED
    BY <1>2

(* A set that has 0 and with any number the next has all of them.          *)
LEMMA Induction ==
  ASSUME NEW S, 0 \in S, \A n \in Nat : n \in S => n + 1 \in S
  PROVE  Nat \subseteq S
  <1> DEFINE T == Nat \ S
  <1> SUFFICES ASSUME T # {} PROVE FALSE
    OBVIOUS
  <1>1. PICK x \in T : \A y \in T : x <= y
    <2> HIDE DEF T
    <2>1. T \subseteq Nat
      BY DEF T
    <2> QED
      BY <2>1, Least
  <1>2. x - 1 \in Nat /\ x - 1 \notin T
    BY <1>1
  <1> QED
    BY <1>2

-----------------------------------------------------------------------------
(* The recursive function behind the fold.                                 *)
Total(f) == FoldFunction(+, 0, f)

First(s) == CHOOSE x \in s : TRUE
AddBody(f, sum, s) == IF s = {} THEN 0 ELSE f[First(s)] + sum[s \ {First(s)}]
Adder(f, S) == CHOOSE sum : sum = [s \in SUBSET S |-> AddBody(f, sum, s)]

(* The fold applies it to the whole domain.                                *)
LEMMA TotalIsAdder ==
  ASSUME NEW f
  PROVE  Total(f) = Adder(f, DOMAIN f)[DOMAIN f]
  BY Zenon DEF Total, FoldFunction, FoldFunctionOnSet, MapThenFoldSet, Adder, AddBody, First

(* It exists on the subsets of a finite set: the subsets of one more       *)
(* element follow from the others.                                         *)
LEMMA AdderEquation ==
  ASSUME NEW f, NEW S, IsFiniteSet(S)
  PROVE  Adder(f, S) = [s \in SUBSET S |-> AddBody(f, Adder(f, S), s)]
  <1> DEFINE Small(n) == {s \in SUBSET S : Cardinality(s) <= n}
             T == {n \in Nat : \E g : g = [s \in Small(n) |-> AddBody(f, g, s)]}
  <1>1. ASSUME NEW s \in SUBSET S
        PROVE  /\ IsFiniteSet(s) /\ Cardinality(s) \in Nat /\ Cardinality(s) <= Cardinality(S)
               /\ s # {} => /\ First(s) \in s /\ s \ {First(s)} \in SUBSET S
                            /\ Cardinality(s \ {First(s)}) = Cardinality(s) - 1
               /\ Cardinality(s) = 0 <=> s = {}
    <2>1. IsFiniteSet(s) /\ Cardinality(s) \in Nat /\ Cardinality(s) <= Cardinality(S)
      BY FS_Subset, FS_CardinalityType
    <2>2. s # {} => First(s) \in s
      BY DEF First
    <2> QED
      BY <2>1, <2>2, FS_RemoveElement, FS_EmptySet
  <1>2. 0 \in T
    <2> DEFINE g == [s \in Small(0) |-> 0]
    <2>1. ASSUME NEW s \in Small(0) PROVE s = {}
      <3>1. s \in SUBSET S /\ Cardinality(s) <= 0
        OBVIOUS
      <3>2. Cardinality(s) \in Nat /\ (Cardinality(s) = 0 <=> s = {})
        BY <1>1, <3>1
      <3> QED
        BY <3>1, <3>2
    <2>2. ASSUME NEW s \in Small(0) PROVE AddBody(f, g, s) = 0
      BY <2>1 DEF AddBody
    <2>3. g = [s \in Small(0) |-> AddBody(f, g, s)]
      <3> HIDE DEF Small
      <3> QED
        BY <2>2
    <2> QED
      BY <2>3
  <1>3. ASSUME NEW n \in Nat, n \in T PROVE n + 1 \in T
    <2>1. PICK g : g = [s \in Small(n) |-> AddBody(f, g, s)]
      BY <1>3
    <2> DEFINE h == [s \in Small(n + 1) |-> AddBody(f, g, s)]
    <2>2. ASSUME NEW s \in Small(n + 1) PROVE h[s] = AddBody(f, h, s)
      <3>1. CASE s = {}
        BY <3>1 DEF AddBody
      <3>2. CASE s # {}
        <4> DEFINE r == s \ {First(s)}
        <4>1. r \in Small(n) /\ r \in Small(n + 1)
          BY <1>1, <3>2
        <4>2. g[r] = AddBody(f, g, r)
          BY <2>1, <4>1
        <4>3. h[r] = AddBody(f, g, r) /\ h[s] = AddBody(f, g, s)
          BY <4>1
        <4> HIDE DEF h, Small
        <4> QED
          BY <3>2, <4>2, <4>3 DEF AddBody
      <3> QED
        BY <3>1, <3>2
    <2>3. h = [s \in Small(n + 1) |-> AddBody(f, h, s)]
      <3>1. h = [s \in Small(n + 1) |-> h[s]]
        OBVIOUS
      <3> HIDE DEF h, Small
      <3> QED
        BY <2>2, <3>1
    <2>4. n + 1 \in Nat
      OBVIOUS
    <2> HIDE DEF h, Small
    <2> QED
      BY <2>3, <2>4
  <1>4. Cardinality(S) \in T
    <2>1. Cardinality(S) \in Nat
      BY FS_CardinalityType
    <2> HIDE DEF T
    <2> QED
      BY <1>2, <1>3, <2>1, Induction
  <1>5. Small(Cardinality(S)) = SUBSET S
    BY <1>1
  <1>6. \E g : g = [s \in SUBSET S |-> AddBody(f, g, s)]
    <2>1. PICK g : g = [s \in Small(Cardinality(S)) |-> AddBody(f, g, s)]
      BY <1>4
    <2> HIDE DEF Small
    <2> QED
      BY <1>5, <2>1
  <1> QED
    BY <1>6, Zenon DEF Adder

(* What it is on the empty set, and on the others.                         *)
LEMMA AdderOf ==
  ASSUME NEW f, NEW S, IsFiniteSet(S), NEW s \in SUBSET S
  PROVE  Adder(f, S)[s] =
           IF s = {} THEN 0 ELSE f[First(s)] + Adder(f, S)[s \ {First(s)}]
  <1>1. Adder(f, S) = [r \in SUBSET S |-> AddBody(f, Adder(f, S), r)]
    BY AdderEquation
  <1>2. Adder(f, S)[s] = AddBody(f, Adder(f, S), s)
    <2> DEFINE sum == Adder(f, S)
    <2>1. sum = [r \in SUBSET S |-> AddBody(f, sum, r)]
      BY <1>1
    <2> HIDE DEF sum
    <2>2. sum[s] = AddBody(f, sum, s)
      BY <2>1
    <2> QED
      BY <2>2 DEF sum
  <1> QED
    BY <1>2, Zenon DEF AddBody

(* Some numbers are added up: one for every element of S.                  *)
Numbers(f, S) == IsFiniteSet(S) /\ f \in [S -> Nat]

(* The sum over a subset is a number, and any element of it may be taken   *)
(* away first.                                                             *)
LEMMA AdderSplits ==
  ASSUME NEW S, NEW f, Numbers(f, S)
  PROVE  \A s \in SUBSET S :
           /\ Adder(f, S)[s] \in Nat
           /\ \A x \in s : Adder(f, S)[s] = f[x] + Adder(f, S)[s \ {x}]
  <1> DEFINE sum == Adder(f, S)
             Good(s) == /\ sum[s] \in Nat
                        /\ \A x \in s : sum[s] = f[x] + sum[s \ {x}]
             T == {n \in Nat : \A s \in SUBSET S : Cardinality(s) <= n => Good(s)}
  <1>1. \A s \in SUBSET S :
          sum[s] = IF s = {} THEN 0 ELSE f[First(s)] + sum[s \ {First(s)}]
    BY AdderOf DEF Numbers
  <1>2. ASSUME NEW s \in SUBSET S
        PROVE  /\ IsFiniteSet(s) /\ Cardinality(s) \in Nat
               /\ \A x \in s : /\ s \ {x} \in SUBSET S /\ f[x] \in Nat
                                /\ Cardinality(s \ {x}) = Cardinality(s) - 1
               /\ s # {} => First(s) \in s
               /\ Cardinality(s) = 0 <=> s = {}
    <2>1. IsFiniteSet(s) /\ Cardinality(s) \in Nat
      BY FS_Subset, FS_CardinalityType DEF Numbers
    <2>2. s # {} => First(s) \in s
      BY DEF First
    <2>3. \A x \in s : Cardinality(s \ {x}) = Cardinality(s) - 1
      BY <2>1, FS_RemoveElement
    <2> QED
      BY <2>1, <2>2, <2>3, FS_EmptySet DEF Numbers
  <1> HIDE DEF sum
  <1>3. Good({})
    <2>1. {} \in SUBSET S /\ sum[{}] = 0
      BY <1>1
    <2> QED
      BY <2>1
  <1>4. 0 \in T
    BY <1>2, <1>3
  <1>5. ASSUME NEW n \in Nat, n \in T PROVE n + 1 \in T
    <2>1. ASSUME NEW s \in SUBSET S, Cardinality(s) <= n + 1, s # {} PROVE Good(s)
      <3> DEFINE c == First(s)
                 r == s \ {c}
      <3>1. c \in s /\ r \in SUBSET S /\ f[c] \in Nat /\ Cardinality(r) <= n
        BY <1>2, <2>1
      <3>2. sum[s] = f[c] + sum[r]
        BY <1>1, <2>1
      <3>3. Good(r)
        BY <1>5, <3>1
      <3>4. ASSUME NEW x \in s, x # c PROVE sum[s] = f[x] + sum[s \ {x}]
        <4> DEFINE u == s \ {x}
                   v == r \ {x}
        <4>1. u \in SUBSET S /\ v \in SUBSET S /\ Cardinality(u) <= n /\ Cardinality(v) <= n
          <5>1. x \in r /\ Cardinality(u) = Cardinality(s) - 1
            BY <1>2, <3>4
          <5>2. Cardinality(v) = Cardinality(r) - 1 /\ Cardinality(r) \in Nat
            BY <1>2, <3>1, <5>1
          <5>3. Cardinality(s) \in Nat
            BY <1>2
          <5> HIDE DEF v, u, r
          <5> QED
            BY <2>1, <3>1, <5>1, <5>2, <5>3 DEF u, v, r
        <4>2. sum[r] = f[x] + sum[v]
          BY <3>3, <3>4
        <4>3. Good(u) /\ Good(v)
          BY <1>5, <4>1
        <4>4. sum[u] = f[c] + sum[v]
          <5>1. c \in u /\ u \ {c} = v
            BY <3>1, <3>4
          <5> QED
            BY <4>3, <5>1
        <4>5. f[x] \in Nat /\ sum[v] \in Nat
          BY <1>2, <4>3
        <4> HIDE DEF c, r, u, v
        <4> QED
          BY <3>1, <3>2, <4>2, <4>4, <4>5 DEF u
      <3>5. sum[s] \in Nat
        <4>1. sum[r] \in Nat
          BY <3>3
        <4> HIDE DEF c, r
        <4> QED
          BY <3>1, <3>2, <4>1
      <3> QED
        BY <3>2, <3>4, <3>5
    <2> HIDE DEF Good
    <2>2. \A s \in SUBSET S : Cardinality(s) <= n + 1 => Good(s)
      BY <1>3, <2>1
    <2> QED
      BY <2>2
  <1> HIDE DEF Good
  <1>6. ASSUME NEW s \in SUBSET S PROVE Good(s)
    <2>1. Cardinality(s) \in T /\ Cardinality(s) \in Nat
      <3>1. Cardinality(s) \in Nat
        BY <1>2
      <3> HIDE DEF T
      <3> QED
        BY <1>4, <1>5, <3>1, Induction
    <2> QED
      BY <2>1
  <1> QED
    BY <1>6 DEF Good, sum

(* Functions that agree on a set have the same sum over it.                *)
LEMMA AddersAgree ==
  ASSUME NEW S, NEW f, Numbers(f, S), NEW U, NEW g, Numbers(g, U)
  PROVE  \A s \in (SUBSET S) \cap (SUBSET U) :
           (\A x \in s : f[x] = g[x]) => Adder(f, S)[s] = Adder(g, U)[s]
  <1> DEFINE P(s) == (\A x \in s : f[x] = g[x]) => Adder(f, S)[s] = Adder(g, U)[s]
             T == {n \in Nat : \A s \in (SUBSET S) \cap (SUBSET U) : Cardinality(s) <= n => P(s)}
  <1>1. Adder(f, S)[{}] = 0 /\ Adder(g, U)[{}] = 0
    BY AdderOf DEF Numbers
  <1>2. ASSUME NEW s \in (SUBSET S) \cap (SUBSET U)
        PROVE  /\ Cardinality(s) \in Nat /\ (Cardinality(s) = 0 <=> s = {})
               /\ \A x \in s : Cardinality(s \ {x}) = Cardinality(s) - 1
    <2>1. IsFiniteSet(s) /\ Cardinality(s) \in Nat
      BY FS_Subset, FS_CardinalityType DEF Numbers
    <2> QED
      BY <2>1, FS_RemoveElement, FS_EmptySet
  <1>3. 0 \in T
    BY <1>1, <1>2
  <1>4. ASSUME NEW n \in Nat, n \in T PROVE n + 1 \in T
    <2>1. ASSUME NEW s \in (SUBSET S) \cap (SUBSET U), Cardinality(s) <= n + 1, NEW x \in s PROVE P(s)
      <3>1. P(s \ {x})
        <4>1. s \ {x} \in (SUBSET S) \cap (SUBSET U) /\ Cardinality(s \ {x}) <= n
          BY <1>2, <2>1
        <4> QED
          BY <1>4, <4>1
      <3>2. /\ Adder(f, S)[s] = f[x] + Adder(f, S)[s \ {x}]
            /\ Adder(g, U)[s] = g[x] + Adder(g, U)[s \ {x}]
        BY AdderSplits
      <3> QED
        BY <3>1, <3>2
    <2>2. P({})
      BY <1>1
    <2> HIDE DEF P
    <2>3. \A s \in (SUBSET S) \cap (SUBSET U) : Cardinality(s) <= n + 1 => P(s)
      BY <2>1, <2>2
    <2> QED
      BY <2>3
  <1> HIDE DEF P
  <1>5. ASSUME NEW s \in (SUBSET S) \cap (SUBSET U) PROVE P(s)
    <2>1. Cardinality(s) \in T /\ Cardinality(s) \in Nat
      <3>1. Cardinality(s) \in Nat
        BY <1>2
      <3> HIDE DEF T
      <3> QED
        BY <1>3, <1>4, <3>1, Induction
    <2> QED
      BY <2>1
  <1> QED
    BY <1>5 DEF P

-----------------------------------------------------------------------------
(* What the components use of it.                                          *)

(* Nothing adds up to nothing.                                             *)
LEMMA TotalOfNone ==
  ASSUME NEW f, Numbers(f, {})
  PROVE  Total(f) = 0
  <1>1. DOMAIN f = {} /\ Adder(f, {})[{}] = 0
    BY AdderOf DEF Numbers
  <1> QED
    BY <1>1, TotalIsAdder

(* A total is a number.                                                    *)
LEMMA TotalType ==
  ASSUME NEW S, NEW f, Numbers(f, S)
  PROVE  Total(f) \in Nat
  <1>1. DOMAIN f = S
    BY DEF Numbers
  <1> QED
    BY <1>1, TotalIsAdder, AdderSplits

(* One element apart, the totals of two functions differ by its number.    *)
LEMMA TotalSplits ==
  ASSUME NEW S, NEW f, Numbers(f, S), NEW x \in S, NEW R, R = S \ {x},
         NEW g, Numbers(g, R), \A y \in R : g[y] = f[y]
  PROVE  Total(f) = f[x] + Total(g)
  <1>1. DOMAIN f = S /\ DOMAIN g = R
    BY DEF Numbers
  <1>2. Adder(f, S)[S] = f[x] + Adder(f, S)[R]
    BY AdderSplits
  <1>3. Adder(f, S)[R] = Adder(g, R)[R]
    BY AddersAgree
  <1> QED
    BY <1>1, <1>2, <1>3, TotalIsAdder

-----------------------------------------------------------------------------
(* Sequences.                                                              *)

(* Appending to the last of three sequences appends to their concatenation. *)
LEMMA AppendToLast ==
  ASSUME NEW S, NEW f \in Seq(S), NEW s \in Seq(S), NEW t \in Seq(S), NEW x \in S
  PROVE  f \o s \o Append(t, x) = Append(f \o s \o t, x)
<1>1. f \o s \in Seq(S) /\ f \o s \o t \in Seq(S) /\ <<x>> \in Seq(S)
  BY ConcatProperties
<1>2. f \o s \o Append(t, x) = f \o s \o (t \o <<x>>)  BY AppendIsConcat
<1>3. @ = (f \o s \o t) \o <<x>>  BY <1>1, ConcatAssociative
<1>4. @ = Append(f \o s \o t, x)  BY <1>1, AppendIsConcat
<1> QED  BY <1>2, <1>3, <1>4

(* Cutting a sequence in two loses nothing.                                *)
LEMMA CutInTwo ==
  ASSUME NEW S, NEW s \in Seq(S), NEW n \in 0..Len(s)
  PROVE  /\ SubSeq(s, 1, n) \in Seq(S)
         /\ SubSeq(s, n + 1, Len(s)) \in Seq(S)
         /\ SubSeq(s, 1, n) \o SubSeq(s, n + 1, Len(s)) = s
<1>1. Len(s) \in Nat /\ \A i \in 1..Len(s) : s[i] \in S
  BY LenProperties, ElementOfSeq
<1>2. SubSeq(s, 1, n) \in Seq(S)
  <2>1. \A i \in 1..n : s[i] \in S  BY <1>1
  <2> QED  BY <1>1, <2>1, SubSeqProperties
<1>3. SubSeq(s, n + 1, Len(s)) \in Seq(S)
  <2>1. \A i \in n + 1..Len(s) : s[i] \in S  BY <1>1
  <2> QED  BY <1>1, <2>1, SubSeqProperties
<1>4. SubSeq(s, 1, n) \o SubSeq(s, n + 1, Len(s)) = SubSeq(s, 1, Len(s))
  <2>1. 1 \in 1..Len(s) + 1 /\ n \in 1 - 1..Len(s) /\ Len(s) \in n..Len(s)  BY <1>1
  <2> QED  BY <2>1, ConcatAdjacentSubSeq
<1> QED  BY <1>2, <1>3, <1>4, SubSeqFull

(* The first elements of a sequence.                                       *)
LEMMA FirstOnes ==
  ASSUME NEW S, NEW s \in Seq(S), NEW n \in 0..Len(s)
  PROVE  /\ SubSeq(s, 1, n) \in Seq(S) /\ Len(SubSeq(s, 1, n)) = n
         /\ \A i \in 1..n : SubSeq(s, 1, n)[i] = s[i]
<1>1. n \in Nat /\ \A i \in 1..n : s[i] \in S  BY LenProperties, ElementOfSeq
<1>2. Len(SubSeq(s, 1, n)) = IF 1 <= n THEN n - 1 + 1 ELSE 0  BY <1>1, SubSeqProperties
<1>3. \A i \in 1..n - 1 + 1 : SubSeq(s, 1, n)[i] = s[1 + i - 1]  BY <1>1, SubSeqProperties
<1>4. \A i \in 1..n : SubSeq(s, 1, n)[i] = s[i]
  <2>1. ASSUME NEW i \in 1..n PROVE SubSeq(s, 1, n)[i] = s[i]
    <3>1. i \in 1..n - 1 + 1 /\ 1 + i - 1 = i  BY <1>1
    <3>2. SubSeq(s, 1, n)[i] = s[1 + i - 1]  BY <1>3, <3>1
    <3> QED  BY <3>1, <3>2
  <2> QED  BY <2>1
<1> QED  BY <1>1, <1>2, <1>4, CutInTwo

(* What holds of a sequence, and goes on to hold with each element of      *)
(* another one appended, holds of the two joined.  G[n] is the set of what *)
(* may be there after n of them.                                           *)
LEMMA GrowthKeeps ==
  ASSUME NEW S, NEW f \in Seq(S), NEW x \in Seq(S), NEW G, f \in G[0],
         \A n \in 0..Len(x) - 1 : \A g \in Seq(S) : g \in G[n] => Append(g, x[n + 1]) \in G[n + 1]
  PROVE  f \o x \in G[Len(x)]
<1> DEFINE first(n) == SubSeq(x, 1, n)
           T == {n \in Nat : n <= Len(x) => f \o first(n) \in G[n]}
<1>1. Len(x) \in Nat /\ \A i \in 1..Len(x) : x[i] \in S  BY LenProperties, ElementOfSeq
<1>2. \A n \in 0..Len(x) : first(n) \in Seq(S)  BY <1>1, CutInTwo
<1>3. 0 \in T
  <2>1. first(0) = <<>>  BY <1>1, SubSeqEmpty
  <2>2. f \o first(0) = f  BY <2>1, ConcatEmptySeq
  <2> QED  BY <2>2
<1>4. ASSUME NEW n \in Nat, n \in T PROVE n + 1 \in T
  <2>1. CASE n + 1 <= Len(x)
    <3>1. first(n) \in Seq(S) /\ x[n + 1] \in S  BY <1>1, <1>2, <2>1
    <3>2. first(n + 1) = Append(first(n), x[n + 1])
      <4> n \in 0..Len(x) /\ n + 1 \in 0..Len(x)  BY <1>1, <2>1
      <4>1. /\ first(n + 1) \in Seq(S) /\ Len(first(n + 1)) = n + 1
            /\ \A i \in 1..(n + 1) : first(n + 1)[i] = x[i]
        BY FirstOnes
      <4>2. Len(first(n)) = n /\ \A i \in 1..n : first(n)[i] = x[i]
        BY FirstOnes
      <4>3. /\ Append(first(n), x[n + 1]) \in Seq(S)
            /\ Len(Append(first(n), x[n + 1])) = n + 1
            /\ \A i \in 1..n : Append(first(n), x[n + 1])[i] = x[i]
            /\ Append(first(n), x[n + 1])[n + 1] = x[n + 1]
        BY <3>1, <4>2, AppendProperties
      <4>4. \A i \in 1..(n + 1) : first(n + 1)[i] = Append(first(n), x[n + 1])[i]
        BY <4>1, <4>3
      <4> HIDE DEF first
      <4> QED  BY <4>1, <4>3, <4>4, SeqEqual
    <3>3. f \o Append(first(n), x[n + 1]) = Append(f \o first(n), x[n + 1])
      <4>1. <<>> \in Seq(S) /\ f \o <<>> = f  BY EmptySeq, ConcatEmptySeq
      <4> HIDE DEF first
      <4>2. f \o <<>> \o Append(first(n), x[n + 1]) = Append(f \o <<>> \o first(n), x[n + 1])
        BY <3>1, <4>1, AppendToLast
      <4> QED  BY <4>1, <4>2
    <3>4. f \o first(n) \in Seq(S)  BY <3>1, ConcatProperties
    <3>5. f \o first(n) \in G[n] /\ n \in 0..Len(x) - 1  BY <1>1, <1>4, <2>1
    <3> HIDE DEF first
    <3>6. Append(f \o first(n), x[n + 1]) \in G[n + 1]  BY <3>4, <3>5
    <3>7. f \o first(n + 1) \in G[n + 1]  BY <3>2, <3>3, <3>6
    <3>8. n + 1 \in Nat  OBVIOUS
    <3> QED  BY <3>7, <3>8
  <2>2. CASE ~(n + 1 <= Len(x))  BY <2>2
  <2> QED  BY <2>1, <2>2
<1>5. Len(x) \in T
  <2> HIDE DEF T
  <2> QED  BY <1>1, <1>3, <1>4, Induction
<1>6. first(Len(x)) = x  BY SubSeqFull
<1>7. f \o first(Len(x)) \in G[Len(x)]  BY <1>1, <1>5
<1> QED  BY <1>6, <1>7

(* A prefix has the first elements.                                        *)
LEMMA PrefixMeans ==
  ASSUME NEW S, NEW s \in Seq(S), NEW t \in Seq(S)
  PROVE  IsPrefix(s, t) <=> Len(s) <= Len(t) /\ \A i \in 1..Len(s) : s[i] = t[i]
<1>1. Len(s) \in Nat /\ Len(t) \in Nat  BY LenProperties
<1>2. CASE Len(s) <= Len(t)
  <2> DEFINE u == SubSeq(t, 1, Len(s))
  <2>1. SubSeq(s, 1, Len(s)) = s  BY SubSeqFull
  <2>2. u \in Seq(S) /\ Len(u) = Len(s) /\ \A i \in 1..Len(s) : u[i] = t[i]
    <3>1. Len(s) \in 0..Len(t)  BY <1>1, <1>2
    <3> QED  BY <3>1, FirstOnes
  <2>3. IsPrefix(s, t) <=> u = s  BY <1>2, <2>1 DEF IsPrefix
  <2> HIDE DEF u
  <2>4. u = s <=> \A i \in 1..Len(s) : s[i] = t[i]
    <3>1. u = s => \A i \in 1..Len(s) : s[i] = t[i]  BY <2>2
    <3>2. ASSUME \A i \in 1..Len(s) : s[i] = t[i] PROVE u = s
      <4>1. \A i \in 1..Len(u) : u[i] = s[i]  BY <2>2, <3>2
      <4> QED  BY <2>2, <4>1, SeqEqual
    <3> QED  BY <3>1, <3>2
  <2> QED  BY <1>2, <2>3, <2>4
<1>3. CASE ~(Len(s) <= Len(t))  BY <1>3 DEF IsPrefix
<1> QED  BY <1>2, <1>3

(* Being a prefix is transitive.                                           *)
LEMMA PrefixOfPrefix ==
  ASSUME NEW S, NEW s \in Seq(S), NEW t \in Seq(S), NEW u \in Seq(S),
         IsPrefix(s, t), IsPrefix(t, u)
  PROVE  IsPrefix(s, u)
<1>1. Len(s) \in Nat /\ Len(t) \in Nat /\ Len(u) \in Nat  BY LenProperties
<1>2. /\ Len(s) <= Len(t) /\ \A i \in 1..Len(s) : s[i] = t[i]
      /\ Len(t) <= Len(u) /\ \A i \in 1..Len(t) : t[i] = u[i]
  BY PrefixMeans
<1>3. Len(s) <= Len(u) /\ \A i \in 1..Len(s) : s[i] = u[i]  BY <1>1, <1>2
<1> QED  BY <1>3, PrefixMeans

(* What grows at the end keeps its prefixes.                               *)
LEMMA PrefixOfLonger ==
  ASSUME NEW S, NEW s \in Seq(S), NEW u \in Seq(S)
  PROVE  IsPrefix(s, s) /\ IsPrefix(s, s \o u)
<1>1. /\ s \o u \in Seq(S) /\ Len(s \o u) = Len(s) + Len(u)
      /\ \A i \in 1..Len(s) : (s \o u)[i] = s[i]
  <2>1. /\ s \o u \in Seq(S) /\ Len(s \o u) = Len(s) + Len(u)
        /\ \A i \in 1..Len(s) + Len(u) : (s \o u)[i] = IF i <= Len(s) THEN s[i] ELSE u[i - Len(s)]
    BY ConcatProperties
  <2>2. Len(s) \in Nat /\ Len(u) \in Nat  BY LenProperties
  <2>3. \A i \in 1..Len(s) : i \in 1..Len(s) + Len(u) /\ i <= Len(s)  BY <2>2
  <2> QED  BY <2>1, <2>3
<1>2. Len(s) \in Nat /\ Len(u) \in Nat  BY LenProperties
<1>3. Len(s) <= Len(s) /\ Len(s) <= Len(s \o u)  BY <1>1, <1>2
<1> QED  BY <1>1, <1>3, PrefixMeans

(* A cut behind a sequence cuts what comes after it.                       *)
LEMMA CutBehind ==
  ASSUME NEW S, NEW f \in Seq(S), NEW z \in Seq(S), NEW n \in 0..Len(z)
  PROVE  /\ SubSeq(f \o z, 1, Len(f) + n) = f \o SubSeq(z, 1, n)
         /\ SubSeq(f \o z, Len(f) + n + 1, Len(f \o z)) = SubSeq(z, n + 1, Len(z))
<1> DEFINE h == f \o z
           cut == Len(f) + n
           x == SubSeq(z, 1, n)
           y == SubSeq(z, n + 1, Len(z))
<1>1. /\ Len(f) \in Nat /\ Len(z) \in Nat
      /\ h \in Seq(S) /\ Len(h) = Len(f) + Len(z)
      /\ \A i \in 1..Len(f) + Len(z) : h[i] = IF i <= Len(f) THEN f[i] ELSE z[i - Len(f)]
  BY ConcatProperties, LenProperties
<1>2. n \in 0..Len(z) /\ cut = Len(f) + n /\ cut \in 0..Len(h)  BY <1>1
<1>3. x \in Seq(S) /\ y \in Seq(S) /\ x \o y = z  BY <1>2, CutInTwo
<1>4. Len(x) = n /\ \A i \in 1..n : x[i] = z[i]  BY <1>2, FirstOnes
<1> DEFINE a == SubSeq(h, 1, cut)
           b == SubSeq(h, cut + 1, Len(h))
<1> HIDE DEF x, y, h, cut
<1>5. a \in Seq(S) /\ b \in Seq(S) /\ a \o b = h  BY <1>1, <1>2, CutInTwo
<1>6. Len(a) = cut /\ \A i \in 1..cut : a[i] = h[i]  BY <1>1, <1>2, FirstOnes
<1> HIDE DEF a, b
<1>7. a = f \o x
  <2>1. /\ f \o x \in Seq(S) /\ Len(f \o x) = Len(f) + Len(x)
        /\ \A i \in 1..Len(f) + Len(x) : (f \o x)[i] = IF i <= Len(f) THEN f[i] ELSE x[i - Len(f)]
    BY <1>3, ConcatProperties
  <2>2. Len(f \o x) = cut  BY <1>2, <1>4, <2>1
  <2>3. ASSUME NEW i \in 1..cut PROVE a[i] = (f \o x)[i]
    <3>1. i \in 1..Len(f) + Len(x) /\ i \in 1..Len(f) + Len(z)  BY <1>1, <1>2, <1>4
    <3>2. i > Len(f) => i - Len(f) \in 1..n  BY <1>1, <1>2
    <3>3. CASE i <= Len(f)
      <4>1. a[i] = f[i]  BY <1>1, <1>6, <3>1, <3>3
      <4>2. (f \o x)[i] = f[i]  BY <2>1, <3>1, <3>3
      <4> QED  BY <4>1, <4>2
    <3>4. CASE i > Len(f)
      <4>1. ~(i <= Len(f))  BY <1>1, <3>4
      <4>2. a[i] = z[i - Len(f)]  BY <1>1, <1>6, <3>1, <4>1
      <4>3. (f \o x)[i] = x[i - Len(f)]  BY <2>1, <3>1, <4>1
      <4> QED  BY <1>4, <3>2, <3>4, <4>2, <4>3
    <3>5. i <= Len(f) \/ i > Len(f)  BY <1>1, <1>2
    <3> QED  BY <3>3, <3>4, <3>5
  <2> QED  BY <1>5, <1>6, <2>1, <2>2, <2>3, SeqEqual
<1>8. b = y
  <2>1. f \o (x \o y) = (f \o x) \o y
    <3>1. x \in Seq(S) /\ y \in Seq(S)  BY <1>3
    <3> QED  BY <3>1, ConcatAssociative, SMTT(30)
  <2>2. a \o b = a \o y  BY <1>3, <1>5, <1>7, <2>1 DEF h
  <2> QED  BY <1>3, <1>5, <2>2, ConcatSimplifications
<1> QED  BY <1>2, <1>7, <1>8 DEF a, b, x, y, h, cut

(* A sequence appended brings its first element first.                     *)
LEMMA FirstApart ==
  ASSUME NEW S, NEW f \in Seq(S), NEW x \in Seq(S), x # <<>>
  PROVE  SubSeq(x, 2, Len(x)) \in Seq(S) /\ f \o x = Append(f, x[1]) \o SubSeq(x, 2, Len(x))
<1> DEFINE u == SubSeq(x, 1, 1)
           v == <<x[1]>>
           b == SubSeq(x, 2, Len(x))
<1>1. 1 \in 0..Len(x) /\ 1 \in 1..Len(x)
  <2>1. Len(x) # 0 /\ Len(x) \in Nat  BY EmptySeq, LenProperties
  <2> QED  BY <2>1
<1>2. x[1] \in S  BY <1>1, ElementOfSeq
<1>3. u \in Seq(S) /\ Len(u) = 1 /\ \A i \in 1..1 : u[i] = x[i]  BY <1>1, FirstOnes
<1>4. v \in Seq(S) /\ Len(v) = 1 /\ v[1] = x[1]  BY <1>2
<1>5. u = v
  <2> HIDE DEF u, v
  <2>1. \A i \in 1..Len(u) : u[i] = v[i]  BY <1>3, <1>4
  <2> QED  BY <1>3, <1>4, <2>1, SeqEqual
<1>6. b \in Seq(S) /\ u \o b = x
  <2>1. /\ SubSeq(x, 1 + 1, Len(x)) \in Seq(S)
        /\ SubSeq(x, 1, 1) \o SubSeq(x, 1 + 1, Len(x)) = x
    BY <1>1, CutInTwo
  <2> QED  BY <2>1
<1> HIDE DEF u, v, b
<1>7. v \in Seq(S) /\ b \in Seq(S)  BY <1>4, <1>6
<1>8. f \o (v \o b) = (f \o v) \o b  BY <1>7, ConcatAssociative, SMTT(30)
<1>9. f \o v = Append(f, x[1])  BY <1>2, AppendIsConcat DEF v
<1> QED  BY <1>5, <1>6, <1>8, <1>9 DEF b

-----------------------------------------------------------------------------
(* The sequences of a sequence, joined: a recursive function over how many *)
(* of them are joined.                                                     *)
FlatBody(parts, flat, i) == IF i = 1 THEN parts[i] ELSE flat[i - 1] \o parts[i]
Flat(parts) == CHOOSE flat : flat = [i \in 1..Len(parts) |-> FlatBody(parts, flat, i)]

(* Joining all is joining up to the last.                                  *)
LEMMA FlattenIsFlat ==
  ASSUME NEW parts, Len(parts) # 0
  PROVE  FlattenSeq(parts) = Flat(parts)[Len(parts)]
BY Zenon DEF FlattenSeq, Flat, FlatBody

(* The recursive function satisfies its equation.                          *)
LEMMA FlatEquation ==
  ASSUME NEW parts, Len(parts) \in Nat
  PROVE  \A i \in 1..Len(parts) : Flat(parts)[i] = FlatBody(parts, Flat(parts), i)
<1> DEFINE Eq(h, m) == h = [i \in 1..m |-> FlatBody(parts, h, i)]
           T == {m \in Nat : \E h : Eq(h, m)}
<1>1. 0 \in T
  <2> DEFINE h == [i \in 1..0 |-> parts[i]]
  <2>1. \A i \in 1..0 : h[i] = FlatBody(parts, h, i)  OBVIOUS
  <2>2. Eq(h, 0)  BY <2>1
  <2> QED  BY <2>2
<1>2. ASSUME NEW m \in Nat, m \in T PROVE m + 1 \in T
  <2>1. PICK h : Eq(h, m)  BY <1>2
  <2> DEFINE g == [i \in 1..(m + 1) |-> FlatBody(parts, h, i)]
  <2>2. \A i \in 1..m : g[i] = h[i]  BY <2>1
  <2>3. ASSUME NEW i \in 1..(m + 1) PROVE FlatBody(parts, g, i) = FlatBody(parts, h, i)
    <3>1. CASE i = 1  BY <3>1 DEF FlatBody
    <3>2. CASE i # 1
      <4> HIDE DEF g
      <4>1. i - 1 \in 1..m  BY <3>2
      <4>2. g[i - 1] = h[i - 1]  BY <4>1, <2>2
      <4> QED  BY <4>2 DEF FlatBody
    <3> QED  BY <3>1, <3>2
  <2>4. Eq(g, m + 1)  BY <2>3
  <2>5. m + 1 \in Nat  OBVIOUS
  <2> HIDE DEF Eq, g
  <2> QED  BY <2>4, <2>5, Zenon
<1>3. Len(parts) \in T
  <2> HIDE DEF T
  <2> QED  BY <1>1, <1>2, Induction
<1>4. \E h : Eq(h, Len(parts))  BY <1>3
<1>5. Flat(parts) = CHOOSE h : Eq(h, Len(parts))  BY Zenon DEF Flat
<1>6. Eq(Flat(parts), Len(parts))
  <2> HIDE DEF Eq
  <2> QED  BY <1>4, <1>5, Zenon
<1> QED  BY <1>6

(* What the joined sequences are, a set for each number of them, follows   *)
(* from one to the next.                                                   *)
LEMMA FlattenKeeps ==
  ASSUME NEW parts, Len(parts) \in Nat \ {0}, NEW G, parts[1] \in G[1],
         \A i \in 1..Len(parts) - 1 : \A s \in G[i] : s \o parts[i + 1] \in G[i + 1]
  PROVE  FlattenSeq(parts) \in G[Len(parts)]
<1> DEFINE T == {n \in Nat : n + 1 <= Len(parts) => Flat(parts)[n + 1] \in G[n + 1]}
<1>1. \A i \in 1..Len(parts) : Flat(parts)[i] = FlatBody(parts, Flat(parts), i)
  BY FlatEquation
<1>2. 0 \in T
  <2>1. Flat(parts)[1] = parts[1]  BY <1>1 DEF FlatBody
  <2> QED  BY <2>1
<1>3. ASSUME NEW n \in Nat, n \in T PROVE n + 1 \in T
  <2>1. CASE n + 2 <= Len(parts)
    <3>1. n + 1 \in 1..Len(parts) - 1 /\ n + 2 \in 1..Len(parts) /\ (n + 1) + 1 = n + 2  BY <2>1
    <3>2. Flat(parts)[n + 1] \in G[n + 1]  BY <1>3, <2>1
    <3>3. n + 2 # 1 /\ (n + 2) - 1 = n + 1  OBVIOUS
    <3>4. Flat(parts)[n + 2] = Flat(parts)[n + 1] \o parts[n + 2]
      BY <1>1, <3>1, <3>3 DEF FlatBody
    <3>5. Flat(parts)[n + 1] \o parts[n + 2] \in G[n + 2]  BY <3>1, <3>2
    <3>6. Flat(parts)[(n + 1) + 1] \in G[(n + 1) + 1]  BY <3>1, <3>4, <3>5
    <3> QED  BY <3>6
  <2>2. CASE ~(n + 2 <= Len(parts))  BY <2>2
  <2> QED  BY <2>1, <2>2
<1>4. Len(parts) - 1 \in T
  <2>1. Len(parts) - 1 \in Nat  OBVIOUS
  <2> HIDE DEF T
  <2> QED  BY <1>2, <1>3, <2>1, Induction
<1>5. Flat(parts)[Len(parts)] \in G[Len(parts)]  BY <1>4
<1> QED  BY <1>5, FlattenIsFlat

(* Sequences over a set join to one over it.                               *)
LEMMA FlattenType ==
  ASSUME NEW S, NEW parts \in Seq(Seq(S))
  PROVE  FlattenSeq(parts) \in Seq(S)
<1>1. Len(parts) \in Nat /\ \A i \in 1..Len(parts) : parts[i] \in Seq(S)
  BY LenProperties, ElementOfSeq
<1>2. CASE Len(parts) = 0
  <2>1. parts = <<>>  BY <1>2, EmptySeq
  <2>2. FlattenSeq(parts) = parts  BY <1>2 DEF FlattenSeq
  <2> QED  BY <2>1, <2>2, EmptySeq
<1>3. CASE Len(parts) # 0
  <2> DEFINE G == [i \in Nat |-> Seq(S)]
  <2>1. parts[1] \in G[1]  BY <1>1, <1>3
  <2>2. ASSUME NEW i \in 1..Len(parts) - 1, NEW s \in G[i]
        PROVE  s \o parts[i + 1] \in G[i + 1]
    <3>1. i \in Nat /\ i + 1 \in Nat /\ i + 1 \in 1..Len(parts)  BY <1>1
    <3>2. s \in Seq(S) /\ parts[i + 1] \in Seq(S) /\ G[i + 1] = Seq(S)  BY <1>1, <3>1
    <3> HIDE DEF G
    <3> QED  BY <3>2, ConcatProperties
  <2>3. G[Len(parts)] = Seq(S)  BY <1>1
  <2> HIDE DEF G
  <2>4. FlattenSeq(parts) \in G[Len(parts)]  BY <1>1, <1>3, <2>1, <2>2, FlattenKeeps
  <2> QED  BY <2>3, <2>4
<1> QED  BY <1>2, <1>3

(* None, one or two of them.                                               *)
LEMMA FlattenFew ==
  ASSUME NEW parts, Len(parts) \in Nat
  PROVE  /\ Len(parts) = 0 => FlattenSeq(parts) = parts
         /\ Len(parts) = 1 => FlattenSeq(parts) = parts[1]
         /\ Len(parts) = 2 => FlattenSeq(parts) = parts[1] \o parts[2]
<1>1. \A i \in 1..Len(parts) : Flat(parts)[i] = FlatBody(parts, Flat(parts), i)
  BY FlatEquation
<1>2. Len(parts) = 0 => FlattenSeq(parts) = parts  BY DEF FlattenSeq
<1>3. Len(parts) # 0 => Flat(parts)[1] = parts[1]  BY <1>1 DEF FlatBody
<1>4. Len(parts) = 2 => Flat(parts)[2] = Flat(parts)[1] \o parts[2]
  <2> HAVE Len(parts) = 2
  <2>1. 2 \in 1..Len(parts) /\ 2 # 1 /\ 2 - 1 = 1  OBVIOUS
  <2> QED  BY <1>1, <2>1 DEF FlatBody
<1>5. Len(parts) # 0 => FlattenSeq(parts) = Flat(parts)[Len(parts)]  BY FlattenIsFlat
<1>6. Len(parts) = 1 => FlattenSeq(parts) = parts[1]
  <2> HAVE Len(parts) = 1
  <2>1. FlattenSeq(parts) = Flat(parts)[1]  BY <1>5
  <2> QED  BY <1>3, <2>1
<1>7. Len(parts) = 2 => FlattenSeq(parts) = parts[1] \o parts[2]
  <2> HAVE Len(parts) = 2
  <2>1. FlattenSeq(parts) = Flat(parts)[2]  BY <1>5
  <2>2. Flat(parts)[1] = parts[1] /\ Flat(parts)[2] = Flat(parts)[1] \o parts[2]
    BY <1>3, <1>4
  <2> QED  BY <2>1, <2>2, Zenon
<1> QED  BY <1>2, <1>6, <1>7

(* The pieces between cuts of a sequence join to what lies between the     *)
(* first cut and the last.                                                 *)
LEMMA FlattenOfCuts ==
  ASSUME NEW S, NEW b \in Seq(S), NEW parts, Len(parts) \in Nat \ {0},
         NEW c \in [1..Len(parts) + 1 -> 0..Len(b)],
         \A i \in 1..Len(parts) : c[i] <= c[i + 1] /\ parts[i] = SubSeq(b, c[i] + 1, c[i + 1])
  PROVE  FlattenSeq(parts) = SubSeq(b, c[1] + 1, c[Len(parts) + 1])
<1>1. Len(b) \in Nat  BY LenProperties
<1>2. 1 \in 1..Len(parts) /\ 1 \in 1..Len(parts) + 1  OBVIOUS
<1>3. ASSUME NEW i \in 1..Len(parts) - 1, c[1] <= c[i + 1]
      PROVE  /\ SubSeq(b, c[1] + 1, c[i + 1]) \o parts[i + 1] = SubSeq(b, c[1] + 1, c[i + 2])
             /\ c[1] <= c[i + 2]
  <2> DEFINE p == c[1]  q == c[i + 1]  r == c[i + 2]
  <2>1. i + 1 \in 1..Len(parts) /\ (i + 1) + 1 = i + 2
    OBVIOUS
  <2>2. i + 1 \in 1..Len(parts) + 1 /\ i + 2 \in 1..Len(parts) + 1  BY <2>1
  <2>3. p \in 0..Len(b) /\ q \in 0..Len(b) /\ r \in 0..Len(b)  BY <1>2, <2>2
  <2>4. c[i + 1] <= c[(i + 1) + 1] /\ parts[i + 1] = SubSeq(b, c[i + 1] + 1, c[(i + 1) + 1])
    BY <2>1
  <2>5. p <= q /\ q <= r /\ parts[i + 1] = SubSeq(b, q + 1, r)  BY <1>3, <2>1, <2>4
  <2> HIDE DEF p, q, r
  <2>6. p + 1 \in 1..Len(b) + 1 /\ q \in (p + 1) - 1..Len(b) /\ r \in q..Len(b) /\ p <= r
    BY <1>1, <2>3, <2>5
  <2>7. SubSeq(b, p + 1, q) \o SubSeq(b, q + 1, r) = SubSeq(b, p + 1, r)
    BY <2>6, ConcatAdjacentSubSeq
  <2> QED  BY <2>5, <2>6, <2>7 DEF p, q, r
<1> DEFINE G == [i \in 1..Len(parts) |-> {s \in {SubSeq(b, c[1] + 1, c[i + 1])} : c[1] <= c[i + 1]}]
<1>4. parts[1] \in G[1]  BY <1>2
<1>5. ASSUME NEW i \in 1..Len(parts) - 1, NEW s \in G[i]
      PROVE  s \o parts[i + 1] \in G[i + 1]
  <2>1. i \in 1..Len(parts) /\ i + 1 \in 1..Len(parts) /\ (i + 1) + 1 = i + 2
    OBVIOUS
  <2>2. s = SubSeq(b, c[1] + 1, c[i + 1]) /\ c[1] <= c[i + 1]  BY <2>1
  <2>3. G[i + 1] = {t \in {SubSeq(b, c[1] + 1, c[i + 2])} : c[1] <= c[i + 2]}  BY <2>1
  <2> HIDE DEF G
  <2> QED  BY <1>3, <2>2, <2>3
<1>6. Len(parts) \in 1..Len(parts)  OBVIOUS
<1>7. \A s \in G[Len(parts)] : s = SubSeq(b, c[1] + 1, c[Len(parts) + 1])  BY <1>6
<1> HIDE DEF G
<1>8. FlattenSeq(parts) \in G[Len(parts)]  BY <1>4, <1>5, FlattenKeeps
<1> QED  BY <1>7, <1>8

=============================================================================

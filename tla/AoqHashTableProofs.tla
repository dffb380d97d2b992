------------------------- MODULE AoqHashTableProofs -------------------------
(***************************************************************************)
(* Proofs about AoqHashTable: for every set of names, every hash and every *)
(* size of the table, also after growth, and whatever chains run through   *)
(* each other, its five invariants hold.                                   *)
(***************************************************************************)
EXTENDS AoqHashTable, AoqFacts

-----------------------------------------------------------------------------
(* The inductive invariant.                                                *)

TableType ==
  [size : 1..MaxSize, total : Nat,
   key : [Bucket -> Key \cup {NULL, CUT, JUNK}],
   value : [Bucket -> Queue \cup {NULL, JUNK}],
   next : [Bucket -> Bucket \cup {NULL, JUNK, STALE}]]

Slots(t) == 0..(t.size - 1)
InUse(t) == {b \in Bucket : t.value[b] \notin {NULL, JUNK}}

(* BucketsOwnQueues and TotalCountsBuckets, of a table alone.              *)
Owning(t) ==
  /\ \A b, c \in InUse(t) : t.value[b] = t.value[c] => b = c
  /\ \A b \in Bucket : t.key[b] \in Key \cup {CUT} <=> b \in InUse(t)

Counted(t) ==
  /\ t.total = Cardinality(InUse(t))
  /\ t.total <= t.size
  /\ InUse(t) \subseteq Slots(t)

(* Nothing is kept beyond the size of the array, or pointed to.            *)
Bounded(t) ==
  /\ \A b \in Bucket : b >= t.size => t.key[b] = NULL /\ t.value[b] = NULL
  /\ \A b \in Bucket : t.next[b] \in Slots(t) \cup {NULL, JUNK, STALE}

(* Pointers never lead round: from some bucket of any set they lead out.   *)
Acyclic(t) ==
  \A C \in SUBSET Bucket : C # {} => \E c \in C : t.next[c] \notin C

(* A bucket whose pointer leads nowhere is the first of its chain, and     *)
(* there is one only after growth.                                         *)
BrokenFirst(t) ==
  \A b \in Bucket : t.next[b] \in {JUNK, STALE} =>
    t.size >= 2 /\ \A p \in Bucket : t.next[p] # b

Sound(t) ==
  /\ t \in TableType
  /\ Owning(t)
  /\ Counted(t)
  /\ Bounded(t)
  /\ Acyclic(t)
  /\ BrokenFirst(t)

(* b is on the chain that starts at a: it is in every set that has a and,  *)
(* with a bucket, the one after it.                                        *)
Closed(t, D) == \A d \in D : t.next[d] \in Bucket => t.next[d] \in D

Reaches(t, a, b) ==
  \A D \in SUBSET Bucket : a \in D /\ Closed(t, D) => b \in D

(* While the table is intact: pointers lead from buckets in use to buckets *)
(* in use, every bucket with a name is on that name's chain and holds the  *)
(* queue the name was given, and every name that was given one has it.     *)
Linked == \A b \in Bucket : ht.next[b] # NULL => b \in Held /\ ht.next[b] \in Held

Named ==
  \A b \in Held : ht.key[b] \in Key =>
    /\ ht.key[b] \notin LongKey
    /\ map[ht.key[b]] = ht.value[b]
    /\ Reaches(ht, Home(ht, ht.key[b]), b)

Kept == \A k \in Key \ LongKey : map[k] # NULL => \E b \in Held : ht.key[b] = k

Whole ==
  /\ \A b \in Bucket : ht.value[b] # JUNK
  /\ Linked
  /\ Named
  /\ Kept

HtInv ==
  /\ TypeOK
  /\ Sound(ht)
  /\ queues = {ht.value[b] : b \in Held}
  /\ intact => Whole

-----------------------------------------------------------------------------
(* The recursive functions of the model satisfy their equations.           *)

(* The functions that Seek, Walk and Chain define.                         *)
LookBody(t, k, f, n) ==
  [p \in Ptr |->
     IF p = NULL THEN Miss
     ELSE IF n = 0 \/ ~Readable(t, p) THEN Wild
     ELSE IF t.key[p] = k THEN [how |-> "hit", at |-> p]
     ELSE f[n - 1][t.next[p]]]
Look(t, k) ==
  CHOOSE look : look = [n \in 0..t.size |-> LookBody(t, k, look, n)]

WalkBody(t, k, f, n) ==
  [p \in Ptr |->
     IF n = 0 \/ p \notin Bucket THEN Wild
     ELSE IF t.next[p] = NULL THEN [how |-> "last", at |-> p]
     ELSE IF ~Readable(t, p) THEN Wild
     ELSE IF t.key[p] = k THEN [how |-> "same", at |-> p]
     ELSE f[n - 1][t.next[p]]]
WalkFrom(t, k) ==
  CHOOSE walk : walk = [n \in 0..t.size |-> WalkBody(t, k, walk, n)]

PathBody(t, b, f, n) == IF n = 0 THEN b ELSE Follow(t)[f[n - 1]]
Path(t, b) == CHOOSE at : at = [n \in 0..t.size |-> PathBody(t, b, at, n)]

(* Seek and Walk start at the home bucket, with the whole array to go.     *)
LEMMA SeekIsLook ==
  ASSUME NEW t, NEW k
  PROVE  Seek(t, k) = IF t.value[Home(t, k)] = NULL THEN Miss
                      ELSE Look(t, k)[t.size][Home(t, k)]
  BY Zenon DEF Seek, Look, LookBody

(* The same of Walk.                                                       *)
LEMMA WalkIsWalkFrom ==
  ASSUME NEW t, NEW k
  PROVE  Walk(t, k) = WalkFrom(t, k)[t.size][Home(t, k)]
  BY Zenon DEF Walk, WalkFrom, WalkBody

(* A chain is the path of pointers from its first bucket, up to the first  *)
(* that is NULL.                                                           *)
LEMMA ChainIsPath ==
  ASSUME NEW t, NEW b
  PROVE  Chain(t, b) =
           [i \in 1..Cardinality({n \in 0..t.size : Path(t, b)[n] # NULL}) |->
              Path(t, b)[i - 1]]
  BY Zenon DEF Chain, Path, PathBody

(* The search with n buckets to go.                                        *)
LEMMA LookEquation ==
  ASSUME NEW t, NEW k, t.size \in Nat
  PROVE  Look(t, k) = [n \in 0..t.size |-> LookBody(t, k, Look(t, k), n)]
  <1> DEFINE Eq(f, m) == f = [n \in 0..m |-> LookBody(t, k, f, n)]
             S == {m \in Nat : \E f : Eq(f, m)}
  <1>1. 0 \in S
    <2> DEFINE f == [n \in 0..0 |-> LookBody(t, k, <<>>, n)]
    <2>1. LookBody(t, k, f, 0) = LookBody(t, k, <<>>, 0)
      BY DEF LookBody
    <2>2. Eq(f, 0)
      BY <2>1
    <2> QED
      BY <2>2
  <1>2. ASSUME NEW m \in Nat, m \in S PROVE m + 1 \in S
    <2>1. PICK f : Eq(f, m)
      BY <1>2
    <2> DEFINE g == [n \in 0..(m + 1) |-> LookBody(t, k, f, n)]
    <2>2. \A n \in 0..m : g[n] = f[n]
      BY <2>1
    <2>3. ASSUME NEW n \in 0..(m + 1) PROVE LookBody(t, k, g, n) = LookBody(t, k, f, n)
      <3>1. CASE n = 0
        BY <3>1 DEF LookBody
      <3>2. CASE n # 0
        <4> HIDE DEF g
        <4>1. n - 1 \in 0..m
          BY <3>2
        <4>2. g[n - 1] = f[n - 1]
          BY <4>1, <2>2
        <4> QED
          BY <4>2 DEF LookBody
      <3> QED
        BY <3>1, <3>2
    <2>4. Eq(g, m + 1)
      BY <2>3
    <2>5. m + 1 \in Nat
      OBVIOUS
    <2> HIDE DEF Eq, g
    <2> QED
      BY <2>4, <2>5, Zenon
  <1>3. t.size \in S
    <2> HIDE DEF S
    <2> QED
      BY <1>1, <1>2, Induction
  <1>4. \E f : Eq(f, t.size)
    BY <1>3
  <1>5. Look(t, k) = CHOOSE f : Eq(f, t.size)
    BY Zenon DEF Look
  <1>6. Eq(Look(t, k), t.size)
    <2> HIDE DEF Eq
    <2> QED
      BY <1>4, <1>5, Zenon
  <1> QED
    BY <1>6, Zenon

(* The walk with n buckets to go.                                          *)
LEMMA WalkEquation ==
  ASSUME NEW t, NEW k, t.size \in Nat
  PROVE  WalkFrom(t, k) = [n \in 0..t.size |-> WalkBody(t, k, WalkFrom(t, k), n)]
  <1> DEFINE Eq(f, m) == f = [n \in 0..m |-> WalkBody(t, k, f, n)]
             S == {m \in Nat : \E f : Eq(f, m)}
  <1>1. 0 \in S
    <2> DEFINE f == [n \in 0..0 |-> WalkBody(t, k, <<>>, n)]
    <2>1. WalkBody(t, k, f, 0) = WalkBody(t, k, <<>>, 0)
      BY DEF WalkBody
    <2>2. Eq(f, 0)
      BY <2>1
    <2> QED
      BY <2>2
  <1>2. ASSUME NEW m \in Nat, m \in S PROVE m + 1 \in S
    <2>1. PICK f : Eq(f, m)
      BY <1>2
    <2> DEFINE g == [n \in 0..(m + 1) |-> WalkBody(t, k, f, n)]
    <2>2. \A n \in 0..m : g[n] = f[n]
      BY <2>1
    <2>3. ASSUME NEW n \in 0..(m + 1) PROVE WalkBody(t, k, g, n) = WalkBody(t, k, f, n)
      <3>1. CASE n = 0
        BY <3>1 DEF WalkBody
      <3>2. CASE n # 0
        <4> HIDE DEF g
        <4>1. n - 1 \in 0..m
          BY <3>2
        <4>2. g[n - 1] = f[n - 1]
          BY <4>1, <2>2
        <4> QED
          BY <4>2 DEF WalkBody
      <3> QED
        BY <3>1, <3>2
    <2>4. Eq(g, m + 1)
      BY <2>3
    <2>5. m + 1 \in Nat
      OBVIOUS
    <2> HIDE DEF Eq, g
    <2> QED
      BY <2>4, <2>5, Zenon
  <1>3. t.size \in S
    <2> HIDE DEF S
    <2> QED
      BY <1>1, <1>2, Induction
  <1>4. \E f : Eq(f, t.size)
    BY <1>3
  <1>5. WalkFrom(t, k) = CHOOSE f : Eq(f, t.size)
    BY Zenon DEF WalkFrom
  <1>6. Eq(WalkFrom(t, k), t.size)
    <2> HIDE DEF Eq
    <2> QED
      BY <1>4, <1>5, Zenon
  <1> QED
    BY <1>6, Zenon

(* The path of n pointers.                                                 *)
LEMMA PathEquation ==
  ASSUME NEW t, NEW b, t.size \in Nat
  PROVE  Path(t, b) = [n \in 0..t.size |-> PathBody(t, b, Path(t, b), n)]
  <1> DEFINE Eq(f, m) == f = [n \in 0..m |-> PathBody(t, b, f, n)]
             S == {m \in Nat : \E f : Eq(f, m)}
  <1>1. 0 \in S
    <2> DEFINE f == [n \in 0..0 |-> PathBody(t, b, <<>>, n)]
    <2>1. PathBody(t, b, f, 0) = PathBody(t, b, <<>>, 0)
      BY DEF PathBody
    <2>2. Eq(f, 0)
      BY <2>1
    <2> QED
      BY <2>2
  <1>2. ASSUME NEW m \in Nat, m \in S PROVE m + 1 \in S
    <2>1. PICK f : Eq(f, m)
      BY <1>2
    <2> DEFINE g == [n \in 0..(m + 1) |-> PathBody(t, b, f, n)]
    <2>2. \A n \in 0..m : g[n] = f[n]
      BY <2>1
    <2>3. ASSUME NEW n \in 0..(m + 1) PROVE PathBody(t, b, g, n) = PathBody(t, b, f, n)
      <3>1. CASE n = 0
        BY <3>1 DEF PathBody
      <3>2. CASE n # 0
        <4> HIDE DEF g
        <4>1. n - 1 \in 0..m
          BY <3>2
        <4>2. g[n - 1] = f[n - 1]
          BY <4>1, <2>2
        <4> QED
          BY <4>2 DEF PathBody
      <3> QED
        BY <3>1, <3>2
    <2>4. Eq(g, m + 1)
      BY <2>3
    <2>5. m + 1 \in Nat
      OBVIOUS
    <2> HIDE DEF Eq, g
    <2> QED
      BY <2>4, <2>5, Zenon
  <1>3. t.size \in S
    <2> HIDE DEF S
    <2> QED
      BY <1>1, <1>2, Induction
  <1>4. \E f : Eq(f, t.size)
    BY <1>3
  <1>5. Path(t, b) = CHOOSE f : Eq(f, t.size)
    BY Zenon DEF Path
  <1>6. Eq(Path(t, b), t.size)
    <2> HIDE DEF Eq
    <2> QED
      BY <1>4, <1>5, Zenon
  <1> QED
    BY <1>6, Zenon

-----------------------------------------------------------------------------
(* What a search and a walk come to.                                       *)

(* The values that stand for no name, no queue and no bucket differ.       *)
LEMMA Distinct ==
  /\ NULL # CUT /\ NULL # JUNK /\ NULL # STALE
  /\ CUT # JUNK /\ CUT # STALE /\ JUNK # STALE
  /\ NULL \notin Bucket /\ JUNK \notin Bucket /\ STALE \notin Bucket
  /\ {NULL, CUT, JUNK} \cap (Key \cup Queue) = {}
  BY NullAssumption DEF Bucket

(* The home of a name is a bucket of the array.                            *)
LEMMA HomeInTable ==
  ASSUME NEW t, t.size \in 1..MaxSize, NEW k \in Key
  PROVE  Home(t, k) \in Slots(t) /\ Home(t, k) \in Bucket
  <1>1. HashOf[k] \in Nat
    BY KeyAssumption
  <1>2. MaxSize \in Nat
    BY SizeAssumption
  <1> QED
    BY <1>1, <1>2 DEF Home, Slots, Bucket

(* One step of the search, and one of the walk below.                      *)
LEMMA LookStep ==
  ASSUME NEW t, NEW k, t.size \in Nat, NEW n \in 0..t.size, NEW p \in Ptr
  PROVE  Look(t, k)[n][p] =
           IF p = NULL THEN Miss
           ELSE IF n = 0 \/ ~Readable(t, p) THEN Wild
           ELSE IF t.key[p] = k THEN [how |-> "hit", at |-> p]
           ELSE Look(t, k)[n - 1][t.next[p]]
  <1>1. Look(t, k)[n] = LookBody(t, k, Look(t, k), n)
    BY LookEquation
  <1> QED
    BY <1>1 DEF LookBody

(* A search that comes to nothing, or goes astray after a bucket that can  *)
(* be read, has passed it.                                                 *)
LEMMA LookPassed ==
  ASSUME NEW t, NEW k, t.size \in Nat, NEW n \in 0..t.size, NEW p \in Bucket,
         NEW o \in {Miss, Wild}, Look(t, k)[n][p] = o,
         o = Miss \/ (n # 0 /\ Readable(t, p))
  PROVE  n # 0 /\ Readable(t, p) /\ t.key[p] # k /\ Look(t, k)[n - 1][t.next[p]] = o
  <1>1. p \in Ptr /\ p # NULL
    BY Distinct DEF Ptr
  <1>2. Look(t, k)[n][p] =
          IF p = NULL THEN Miss
          ELSE IF n = 0 \/ ~Readable(t, p) THEN Wild
          ELSE IF t.key[p] = k THEN [how |-> "hit", at |-> p]
          ELSE Look(t, k)[n - 1][t.next[p]]
    <2>1. Look(t, k)[n] = LookBody(t, k, Look(t, k), n)
      BY LookEquation
    <2> QED
      BY <1>1, <2>1 DEF LookBody
  <1>3. Miss # Wild /\ Miss.how # "hit" /\ Wild.how # "hit"
    BY DEF Miss, Wild
  <1> QED
    BY <1>1, <1>2, <1>3

(* A search that comes to NULL has missed.                                 *)
LEMMA LookNull ==
  ASSUME NEW t, NEW k, t.size \in Nat, NEW n \in 0..t.size
  PROVE  Look(t, k)[n][NULL] = Miss
  <1>1. Look(t, k)[n] = LookBody(t, k, Look(t, k), n)
    BY LookEquation
  <1> QED
    BY <1>1 DEF LookBody, Ptr

(* The walk with n buckets to go, at p.                                    *)
LEMMA WalkStep ==
  ASSUME NEW t, NEW k, t.size \in Nat, NEW n \in 0..t.size, NEW p \in Ptr
  PROVE  WalkFrom(t, k)[n][p] =
           IF n = 0 \/ p \notin Bucket THEN Wild
           ELSE IF t.next[p] = NULL THEN [how |-> "last", at |-> p]
           ELSE IF ~Readable(t, p) THEN Wild
           ELSE IF t.key[p] = k THEN [how |-> "same", at |-> p]
           ELSE WalkFrom(t, k)[n - 1][t.next[p]]
  <1>1. WalkFrom(t, k)[n] = WalkBody(t, k, WalkFrom(t, k), n)
    BY WalkEquation
  <1> QED
    BY <1>1 DEF WalkBody

(* A search with no bucket to go, and a walk that has gone astray.         *)
LEMMA LookZero ==
  ASSUME NEW t, NEW k, t.size \in Nat, NEW p \in Ptr
  PROVE  Look(t, k)[0][p] = IF p = NULL THEN Miss ELSE Wild
  <1>1. 0 \in 0..t.size
    OBVIOUS
  <1>2. Look(t, k)[0] = LookBody(t, k, Look(t, k), 0)
    BY <1>1, LookEquation
  <1> QED
    BY <1>2 DEF LookBody

(* A walk with no bucket to go, or at no bucket, is astray.                *)
LEMMA WalkAstray ==
  ASSUME NEW t, NEW k, t.size \in Nat, NEW n \in 0..t.size, NEW p \in Ptr,
         n = 0 \/ p \notin Bucket
  PROVE  WalkFrom(t, k)[n][p] = Wild
  <1>1. WalkFrom(t, k)[n] = WalkBody(t, k, WalkFrom(t, k), n)
    BY WalkEquation
  <1> QED
    BY <1>1 DEF WalkBody

(* A search comes to a bucket with the name, or to nothing, or astray.     *)
Outcomes(t, k) ==
  {Miss, Wild} \cup {[how |-> "hit", at |-> b] : b \in {c \in Bucket : Readable(t, c) /\ t.key[c] = k}}

(* A search under way has one of these outcomes, with n buckets to go.     *)
LEMMA LookOutcome ==
  ASSUME NEW t \in TableType, NEW k,
         NEW n \in 0..t.size, NEW p \in Ptr
  PROVE  Look(t, k)[n][p] \in Outcomes(t, k)
  <1> DEFINE S == {m \in Nat : m <= t.size => \A r \in Ptr : Look(t, k)[m][r] \in Outcomes(t, k)}
  <1>1. t.size \in Nat /\ \A r \in Bucket : t.next[r] \in Ptr
    BY SizeAssumption DEF TableType, Ptr
  <1>2. 0 \in S
    <2>1. ASSUME NEW r \in Ptr PROVE Look(t, k)[0][r] \in {Miss, Wild}
      <3>1. Look(t, k)[0][r] = IF r = NULL THEN Miss ELSE Wild
        BY <1>1, LookZero
      <3> QED
        BY <3>1
    <2> QED
      BY <2>1 DEF Outcomes
  <1>3. ASSUME NEW m \in Nat, m \in S PROVE m + 1 \in S
    <2> SUFFICES ASSUME m + 1 <= t.size, NEW r \in Ptr
                 PROVE  Look(t, k)[m + 1][r] \in Outcomes(t, k)
      OBVIOUS
    <2>1. m + 1 \in 0..t.size /\ m + 1 # 0 /\ (m + 1) - 1 = m
      BY <1>1
    <2>2. Look(t, k)[m + 1][r] =
            IF r = NULL THEN Miss
            ELSE IF ~Readable(t, r) THEN Wild
            ELSE IF t.key[r] = k THEN [how |-> "hit", at |-> r]
            ELSE Look(t, k)[m][t.next[r]]
      BY <1>1, <2>1, LookStep
    <2>3. CASE r = NULL \/ ~Readable(t, r)
      BY <2>2, <2>3 DEF Outcomes
    <2>4. CASE r # NULL /\ Readable(t, r) /\ t.key[r] = k
      BY <2>2, <2>4 DEF Outcomes, Readable
    <2>5. CASE r # NULL /\ Readable(t, r) /\ t.key[r] # k
      <3>1. t.next[r] \in Ptr
        BY <1>1, <2>5 DEF Readable
      <3>2. Look(t, k)[m][t.next[r]] \in Outcomes(t, k)
        BY <1>1, <1>3, <3>1
      <3> QED
        BY <2>2, <2>5, <3>2
    <2> QED
      BY <2>3, <2>4, <2>5
  <1>4. n \in S
    <2> HIDE DEF S
    <2> QED
      BY <1>1, <1>2, <1>3, Induction
  <1> QED
    BY <1>4

(* So has a search from the home bucket.                                   *)
LEMMA SeekOutcome ==
  ASSUME NEW t \in TableType, NEW k \in Key
  PROVE  Seek(t, k) \in Outcomes(t, k)
  <1>1. t.size \in 1..MaxSize /\ t.size \in Nat
    BY SizeAssumption DEF TableType
  <1>2. Home(t, k) \in Ptr /\ t.size \in 0..t.size
    BY <1>1, HomeInTable DEF Ptr
  <1>3. Look(t, k)[t.size][Home(t, k)] \in Outcomes(t, k)
    BY <1>2, LookOutcome
  <1> QED
    BY <1>3, SeekIsLook DEF Outcomes

(* The three outcomes differ in how.                                       *)
LEMMA OutcomeCases ==
  ASSUME NEW t, NEW k, NEW o \in Outcomes(t, k)
  PROVE  \/ o = Miss /\ o.how = "miss"
         \/ o = Wild /\ o.how = "crash"
         \/ o.how = "hit" /\ o.at \in Bucket /\ Readable(t, o.at) /\ t.key[o.at] = k
  <1>1. CASE o = Miss
    BY <1>1 DEF Miss
  <1>2. CASE o = Wild
    BY <1>2 DEF Wild
  <1>3. CASE o \notin {Miss, Wild}
    <2>1. PICK b \in Bucket : Readable(t, b) /\ t.key[b] = k /\ o = [how |-> "hit", at |-> b]
      BY <1>3 DEF Outcomes
    <2>2. o.how = "hit" /\ o.at = b
      BY <2>1
    <2> QED
      BY <2>1, <2>2
  <1> QED
    BY <1>1, <1>2, <1>3

(* The walk of an insertion does not stop at a bucket with the name where  *)
(* the search in u has found none, if t is u or a table u has grown into.  *)
Extends(t, u) ==
  \A b \in Slots(u) : /\ t.key[b] = u.key[b]
                      /\ t.next[b] = u.next[b] \/ t.next[b] \in {JUNK, STALE}

(* Where the search misses, the walk meets no bucket with the name.        *)
LEMMA WalkAfterMiss ==
  ASSUME NEW t \in TableType, NEW u \in TableType, Bounded(u), Extends(t, u),
         NEW k, NEW m \in 0..t.size, NEW n \in 0..u.size, NEW p \in Slots(u),
         Look(u, k)[n][p] = Miss
  PROVE  WalkFrom(t, k)[m][p].how # "same"
  <1> DEFINE Same(i, r) == WalkFrom(t, k)[i][r].how = "same"
             S == {i \in Nat : i <= t.size =>
                     \A j \in 0..u.size, r \in Slots(u) : Look(u, k)[j][r] = Miss => ~Same(i, r)}
  <1>1. t.size \in Nat /\ u.size \in Nat /\ Slots(u) \subseteq Bucket
    BY SizeAssumption DEF TableType, Slots, Bucket
  <1>2. 0 \in S
    <2>1. ASSUME NEW r \in Slots(u) PROVE WalkFrom(t, k)[0][r] = Wild
      <3>1. 0 \in 0..t.size /\ r \in Ptr
        BY <1>1 DEF Ptr
      <3> QED
        BY <1>1, <3>1, WalkAstray
    <2>2. Wild.how # "same"
      BY DEF Wild
    <2> QED
      BY <2>1, <2>2
  <1>3. ASSUME NEW i \in Nat, i \in S PROVE i + 1 \in S
    <2> SUFFICES ASSUME i + 1 <= t.size, NEW j \in 0..u.size, NEW r \in Slots(u),
                        Look(u, k)[j][r] = Miss
                 PROVE  ~Same(i + 1, r)
      OBVIOUS
    <2>1. i + 1 \in 0..t.size /\ i + 1 # 0 /\ (i + 1) - 1 = i /\ r \in Ptr /\ r \in Bucket /\ r # NULL
      BY <1>1, Distinct DEF Ptr
    <2>2. WalkFrom(t, k)[i + 1][r] =
            IF t.next[r] = NULL THEN [how |-> "last", at |-> r]
            ELSE IF ~Readable(t, r) THEN Wild
            ELSE IF t.key[r] = k THEN [how |-> "same", at |-> r]
            ELSE WalkFrom(t, k)[i][t.next[r]]
      BY <1>1, <2>1, WalkStep
    <2>4. j # 0 /\ Readable(u, r) /\ u.key[r] # k /\ Look(u, k)[j - 1][u.next[r]] = Miss
      BY <1>1, <2>1, LookPassed
    <2>5. t.key[r] # k
      BY <2>4 DEF Extends
    <2>6. CASE t.next[r] = NULL \/ ~Readable(t, r)
      BY <2>2, <2>6 DEF Wild
    <2>7. CASE t.next[r] # NULL /\ Readable(t, r)
      <3>1. WalkFrom(t, k)[i + 1][r] = WalkFrom(t, k)[i][t.next[r]]
        BY <2>2, <2>5, <2>7
      <3>2. CASE t.next[r] \in {JUNK, STALE}
        <4>1. t.next[r] \in Ptr /\ t.next[r] \notin Bucket /\ i \in 0..t.size
          BY <1>1, <3>2, Distinct DEF Ptr
        <4>2. WalkFrom(t, k)[i][t.next[r]] = Wild
          BY <1>1, <4>1, WalkAstray
        <4> QED
          BY <3>1, <4>2 DEF Wild
      <3>3. CASE t.next[r] \notin {JUNK, STALE}
        <4>1. t.next[r] = u.next[r]
          BY <3>3 DEF Extends
        <4>2. t.next[r] \in Slots(u)
          BY <2>1, <2>7, <3>3, <4>1 DEF Bounded
        <4>3. j - 1 \in 0..u.size
          BY <1>1, <2>4
        <4>4. ~Same(i, t.next[r])
          BY <1>1, <1>3, <2>4, <4>1, <4>2, <4>3
        <4> QED
          BY <3>1, <4>4
      <3> QED
        BY <3>2, <3>3
    <2> QED
      BY <2>6, <2>7
  <1>4. m \in S
    <2> HIDE DEF S
    <2> QED
      BY <1>1, <1>2, <1>3, Induction
  <1> QED
    BY <1>4

(* A walk that comes to a last bucket has followed the chain to it.        *)
LEMMA WalkToLast ==
  ASSUME NEW t \in TableType, NEW k, NEW n \in 0..t.size, NEW p \in Bucket,
         WalkFrom(t, k)[n][p].how = "last"
  PROVE  LET l == WalkFrom(t, k)[n][p].at
         IN  l \in Bucket /\ t.next[l] = NULL /\ Reaches(t, p, l)
  <1> DEFINE W(i, r) == WalkFrom(t, k)[i][r]
             Good(i, r) == /\ W(i, r).at \in Bucket
                           /\ t.next[W(i, r).at] = NULL
                           /\ r \in Bucket
                           /\ Reaches(t, r, W(i, r).at)
             S == {i \in Nat : i <= t.size => \A r \in Ptr : W(i, r).how = "last" => Good(i, r)}
  <1>1. t.size \in Nat /\ (\A r \in Bucket : t.next[r] \in Ptr) /\ Bucket \subseteq Ptr
    BY SizeAssumption DEF TableType, Ptr
  <1>2. 0 \in S
    <2>1. ASSUME NEW r \in Ptr PROVE W(0, r) = Wild
      <3>1. 0 \in 0..t.size
        BY <1>1
      <3> QED
        BY <1>1, <3>1, WalkAstray
    <2>2. Wild.how # "last"
      BY DEF Wild
    <2> QED
      BY <2>1, <2>2
  <1>3. ASSUME NEW i \in Nat, i \in S PROVE i + 1 \in S
    <2> SUFFICES ASSUME i + 1 <= t.size, NEW r \in Ptr, W(i + 1, r).how = "last"
                 PROVE  Good(i + 1, r)
      OBVIOUS
    <2>1. i + 1 \in 0..t.size /\ i + 1 # 0 /\ (i + 1) - 1 = i
      BY <1>1
    <2>2. W(i + 1, r) =
            IF r \notin Bucket THEN Wild
            ELSE IF t.next[r] = NULL THEN [how |-> "last", at |-> r]
            ELSE IF ~Readable(t, r) THEN Wild
            ELSE IF t.key[r] = k THEN [how |-> "same", at |-> r]
            ELSE W(i, t.next[r])
      BY <1>1, <2>1, WalkStep
    <2> HIDE DEF W
    <2>3. r \in Bucket
      BY <2>2 DEF Wild
    <2>4. CASE t.next[r] = NULL
      <3>1. W(i + 1, r).at = r
        BY <2>2, <2>3, <2>4
      <3>2. Reaches(t, r, r)
        BY DEF Reaches
      <3> QED
        BY <2>3, <2>4, <3>1, <3>2
    <2>5. CASE t.next[r] # NULL
      <3>1. W(i + 1, r) = W(i, t.next[r])
        BY <2>2, <2>3, <2>5 DEF Wild
      <3>2. Good(i, t.next[r])
        BY <1>1, <1>3, <2>3, <3>1
      <3>3. Reaches(t, r, W(i, t.next[r]).at)
        BY <2>3, <3>2 DEF Reaches, Closed
      <3> QED
        BY <2>3, <3>1, <3>2, <3>3
    <2> QED
      BY <2>4, <2>5
  <1>4. n \in S
    <2> HIDE DEF S
    <2> QED
      BY <1>1, <1>2, <1>3, Induction
  <1> QED
    BY <1>1, <1>4

(* A search that comes to nothing has passed everything on the chain.      *)
LEMMA MissedAll ==
  ASSUME NEW t \in TableType, NEW k, NEW n \in 0..t.size, NEW p \in Bucket, NEW b \in Bucket,
         Look(t, k)[n][p] = Miss, Reaches(t, p, b)
  PROVE  t.key[b] # k
  <1> DEFINE Passed(d) == \E j \in 0..t.size : Look(t, k)[j][d] = Miss
             D == {d \in Bucket : Passed(d)}
  <1>1. t.size \in Nat /\ Bucket \subseteq Ptr
    BY SizeAssumption DEF TableType, Ptr
  <1>2. ASSUME NEW j \in 0..t.size, NEW d \in Bucket, Look(t, k)[j][d] = Miss
        PROVE  j # 0 /\ t.key[d] # k /\ Look(t, k)[j - 1][t.next[d]] = Miss
    BY <1>1, <1>2, LookPassed
  <1>3. p \in D
    OBVIOUS
  <1>4. Closed(t, D)
    <2> SUFFICES ASSUME NEW d \in D, t.next[d] \in Bucket
                 PROVE  Passed(t.next[d])
      BY DEF Closed
    <2>1. PICK j \in 0..t.size : Look(t, k)[j][d] = Miss
      OBVIOUS
    <2>2. j - 1 \in 0..t.size /\ Look(t, k)[j - 1][t.next[d]] = Miss
      BY <1>1, <1>2, <2>1
    <2> QED
      BY <2>2
  <1>5. b \in D
    <2>1. D \in SUBSET Bucket
      OBVIOUS
    <2> HIDE DEF D
    <2> QED
      BY <1>3, <1>4, <2>1 DEF Reaches
  <1> QED
    BY <1>2, <1>5

(* In a table of which nothing is lost a search that goes astray has met   *)
(* a bucket more than it had to go.                                        *)
IsPath(t, n, f) == \A i \in 0..(n - 1) : f[i + 1] = t.next[f[i]]

(* Such a search that goes astray has followed a path of n buckets.        *)
LEMMA AstrayIsLong ==
  ASSUME NEW t \in TableType, NEW k, NEW G \in SUBSET Bucket,
         \A g \in G : Readable(t, g) /\ t.next[g] \in G \cup {NULL},
         NEW n \in 0..t.size, NEW p \in G, Look(t, k)[n][p] = Wild
  PROVE  \E f \in [0..n -> G] : IsPath(t, n, f)
  <1> DEFINE Long(i, r) == \E f \in [0..i -> G] : f[0] = r /\ IsPath(t, i, f)
             S == {i \in Nat : i <= t.size => \A r \in G : Look(t, k)[i][r] = Wild => Long(i, r)}
  <1>1. t.size \in Nat /\ G \subseteq Ptr /\ NULL \notin G
    BY SizeAssumption, Distinct DEF TableType, Ptr
  <1>2. 0 \in S
    <2>1. ASSUME NEW r \in G PROVE Long(0, r)
      <3> DEFINE f == [i \in 0..0 |-> r]
      <3>1. f \in [0..0 -> G] /\ f[0] = r /\ IsPath(t, 0, f)
        BY DEF IsPath
      <3> QED
        BY <3>1
    <2> QED
      BY <2>1
  <1>3. ASSUME NEW i \in Nat, i \in S PROVE i + 1 \in S
    <2> SUFFICES ASSUME i + 1 <= t.size, NEW r \in G, Look(t, k)[i + 1][r] = Wild
                 PROVE  Long(i + 1, r)
      OBVIOUS
    <2>1. i + 1 \in 0..t.size /\ i + 1 # 0 /\ (i + 1) - 1 = i /\ i \in 0..t.size
      BY <1>1
    <2>2. Readable(t, r) /\ r \in Bucket
      OBVIOUS
    <2>3. Look(t, k)[i][t.next[r]] = Wild
      <3>1. Look(t, k)[(i + 1) - 1][t.next[r]] = Wild
        BY <1>1, <2>1, <2>2, LookPassed
      <3> QED
        BY <2>1, <3>1
    <2>4. t.next[r] # NULL
      <3>1. ASSUME t.next[r] = NULL PROVE FALSE
        <4>1. Look(t, k)[i][NULL] = Miss
          BY <1>1, <2>1, LookNull
        <4> QED
          BY <2>3, <3>1, <4>1 DEF Miss, Wild
      <3> QED
        BY <3>1
    <2>5. t.next[r] \in G
      BY <2>4
    <2>6. PICK f \in [0..i -> G] : f[0] = t.next[r] /\ IsPath(t, i, f)
      BY <1>3, <2>1, <2>3, <2>5
    <2> DEFINE g == [j \in 0..(i + 1) |-> IF j = 0 THEN r ELSE f[j - 1]]
    <2>7. g \in [0..(i + 1) -> G] /\ g[0] = r
      OBVIOUS
    <2>8. IsPath(t, i + 1, g)
      <3> SUFFICES ASSUME NEW j \in 0..i PROVE g[j + 1] = t.next[g[j]]
        <4>1. (i + 1) - 1 = i
          OBVIOUS
        <4> HIDE DEF g
        <4> QED
          BY <4>1 DEF IsPath
      <3>1. g[j + 1] = f[j]
        OBVIOUS
      <3>2. CASE j = 0
        BY <2>6, <3>1, <3>2
      <3>3. CASE j # 0
        <4>1. j - 1 \in 0..(i - 1) /\ (j - 1) + 1 = j /\ g[j] = f[j - 1]
          BY <3>3
        <4>2. f[(j - 1) + 1] = t.next[f[j - 1]]
          BY <2>6, <4>1 DEF IsPath
        <4> QED
          BY <3>1, <4>1, <4>2
      <3> QED
        BY <3>2, <3>3
    <2> HIDE DEF g
    <2> QED
      BY <2>7, <2>8
  <1>4. n \in S
    <2> HIDE DEF S
    <2> QED
      BY <1>1, <1>2, <1>3, Induction
  <1> QED
    BY <1>1, <1>4

(* No path is longer than the array: it would come back to a bucket, and   *)
(* the buckets from one visit to the next would be a set with no way out.  *)
LEMMA NoLongPath ==
  ASSUME NEW t \in TableType, Acyclic(t), NEW f \in [0..t.size -> Slots(t)],
         IsPath(t, t.size, f)
  PROVE  FALSE
  <1>1. t.size \in Nat /\ Slots(t) \subseteq Bucket
    BY SizeAssumption DEF TableType, Slots, Bucket
  <1>2. ASSUME NEW i \in 0..t.size, NEW j \in 0..t.size, i < j PROVE f[i] # f[j]
    <2> SUFFICES ASSUME f[i] = f[j] PROVE FALSE
      OBVIOUS
    <2> DEFINE C == {f[m] : m \in i..(j - 1)}
    <2>1. C \in SUBSET Bucket
      BY <1>1
    <2>2. f[i] \in C
      BY <1>1, <1>2
    <2>3. ASSUME NEW c \in C PROVE t.next[c] \in C
      <3>1. PICK m \in i..(j - 1) : c = f[m]
        OBVIOUS
      <3>2. m \in 0..(t.size - 1) /\ m + 1 \in (i + 1)..j
        BY <1>1
      <3>3. t.next[c] = f[m + 1]
        BY <3>1, <3>2 DEF IsPath
      <3>4. CASE m + 1 = j
        BY <2>2, <3>3, <3>4
      <3>5. CASE m + 1 # j
        BY <3>2, <3>3, <3>5
      <3> QED
        BY <3>4, <3>5
    <2> HIDE DEF C
    <2> QED
      BY <2>1, <2>2, <2>3 DEF Acyclic
  <1>3. \A i, j \in 0..t.size : f[i] = f[j] => i = j
    <2> SUFFICES ASSUME NEW i \in 0..t.size, NEW j \in 0..t.size, f[i] = f[j], i # j PROVE FALSE
      OBVIOUS
    <2>1. i < j \/ j < i
      BY <1>1
    <2> QED
      BY <1>2, <2>1
  <1>4. /\ IsFiniteSet(0..t.size) /\ Cardinality(0..t.size) = t.size + 1
        /\ IsFiniteSet(Slots(t)) /\ Cardinality(Slots(t)) = t.size
    <2>1. 0 \in Int /\ t.size \in Int /\ t.size - 1 \in Int
      BY <1>1
    <2>2. /\ IsFiniteSet(0..t.size) /\ Cardinality(0..t.size) = IF 0 > t.size THEN 0 ELSE t.size - 0 + 1
          /\ IsFiniteSet(0..(t.size - 1))
          /\ Cardinality(0..(t.size - 1)) = IF 0 > t.size - 1 THEN 0 ELSE (t.size - 1) - 0 + 1
      BY <2>1, FS_Interval
    <2> QED
      BY <1>1, <2>2 DEF Slots
  <1> QED
    BY <1>1, <1>3, <1>4, FS_PigeonHole

-----------------------------------------------------------------------------
(* Chains end.                                                             *)

(* In a sound table no chain has more buckets than the array.              *)
LEMMA SoundChains ==
  ASSUME Sound(ht)
  PROVE  ChainsEnd
  <1> SUFFICES ASSUME NEW b \in 0..(ht.size - 1) PROVE Len(Chain(ht, b)) <= ht.size
    BY DEF ChainsEnd
  <1> DEFINE N == ht.size
             at == Path(ht, b)
             On == {n \in 0..N : at[n] # NULL}
  <1>1. /\ N \in Nat \ {0} /\ N <= MaxSize /\ Slots(ht) \subseteq Bucket /\ b \in Slots(ht)
        /\ \A p \in Bucket : ht.next[p] \in Slots(ht) \cup {NULL, JUNK, STALE}
    BY SizeAssumption DEF Sound, Bounded, TableType, Slots, Bucket
  <1>2. ASSUME NEW n \in 0..N
        PROVE  at[n] = IF n = 0 THEN b
                       ELSE IF at[n - 1] \in Bucket THEN ht.next[at[n - 1]] ELSE Follow(ht)[at[n - 1]]
    <2>1. at[n] = IF n = 0 THEN b ELSE Follow(ht)[at[n - 1]]
      BY <1>1, PathEquation DEF PathBody
    <2>2. at[n - 1] \in Bucket => Follow(ht)[at[n - 1]] = ht.next[at[n - 1]]
      BY DEF Follow, Ptr
    <2> QED
      BY <2>1, <2>2
  <1>3. \A p \in {NULL, JUNK, STALE} : Follow(ht)[p] = NULL
    BY Distinct DEF Follow, Ptr
  <1>4. \A n \in 0..N : at[n] \in Slots(ht) \cup {NULL, JUNK, STALE}
    <2> DEFINE S == {n \in Nat : n <= N => at[n] \in Slots(ht) \cup {NULL, JUNK, STALE}}
    <2> HIDE DEF N, at
    <2>1. 0 \in S
      BY <1>1, <1>2
    <2>2. ASSUME NEW n \in Nat, n \in S PROVE n + 1 \in S
      <3> SUFFICES ASSUME n + 1 <= N PROVE at[n + 1] \in Slots(ht) \cup {NULL, JUNK, STALE}
        OBVIOUS
      <3>1. n + 1 \in 0..N /\ n + 1 # 0 /\ (n + 1) - 1 = n /\ n \in 0..N
        BY <1>1
      <3>2. at[n + 1] = IF at[n] \in Bucket THEN ht.next[at[n]] ELSE Follow(ht)[at[n]]
        BY <1>2, <3>1
      <3>3. at[n] \in Slots(ht) \cup {NULL, JUNK, STALE}
        BY <2>2, <3>1
      <3> QED
        BY <1>1, <1>3, <3>2, <3>3
    <2>3. Nat \subseteq S
      <3> HIDE DEF S
      <3> QED
        BY <2>1, <2>2, Induction
    <2> QED
      BY <1>1, <2>3
  <1> HIDE DEF at
  (* Some position up to the size is none: else the chain is a path of     *)
  (* buckets, or ends at a broken pointer, which is its first bucket's.    *)
  <1>5. \E n \in 0..N : at[n] = NULL
    <2> SUFFICES ASSUME \A n \in 0..N : at[n] # NULL PROVE FALSE
      OBVIOUS
    <2> HIDE DEF N
    <2>1. ASSUME NEW n \in 0..(N - 1) PROVE at[n] \in Slots(ht) /\ at[n + 1] = ht.next[at[n]]
      <3>1. n + 1 \in 0..N /\ n + 1 # 0 /\ (n + 1) - 1 = n /\ n \in 0..N
        BY <1>1
      <3>2. at[n + 1] = IF at[n] \in Bucket THEN ht.next[at[n]] ELSE Follow(ht)[at[n]]
        BY <1>2, <3>1
      <3>3. at[n] \in Slots(ht) \cup {JUNK, STALE}
        BY <1>4, <3>1
      <3>4. at[n] \notin {JUNK, STALE}
        BY <1>3, <3>1, <3>2, Distinct
      <3> QED
        BY <1>1, <3>2, <3>3, <3>4
    <2>2. at[N] \in Slots(ht)
      <3> SUFFICES ASSUME at[N] \in {JUNK, STALE} PROVE FALSE
        BY <1>1, <1>4
      <3>1. N - 1 \in 0..(N - 1) /\ (N - 1) + 1 = N
        BY <1>1
      <3>2. at[N - 1] \in Bucket /\ ht.next[at[N - 1]] \in {JUNK, STALE}
        BY <1>1, <2>1, <3>1
      <3>3. ht.size >= 2 /\ \A p \in Bucket : ht.next[p] # at[N - 1]
        BY <3>2 DEF Sound, BrokenFirst
      <3>4. N - 2 \in 0..(N - 1) /\ (N - 2) + 1 = N - 1
        BY <1>1, <3>3 DEF N
      <3>5. at[N - 2] \in Slots(ht) /\ at[N - 1] = ht.next[at[N - 2]]
        BY <2>1, <3>4
      <3> QED
        BY <1>1, <3>3, <3>5
    <2> DEFINE f == [n \in 0..N |-> at[n]]
    <2>3. f \in [0..N -> Slots(ht)]
      <3> SUFFICES ASSUME NEW n \in 0..N PROVE at[n] \in Slots(ht)
        OBVIOUS
      <3>1. n = N \/ n \in 0..(N - 1)
        BY <1>1
      <3> QED
        BY <2>1, <2>2, <3>1
    <2>4. IsPath(ht, N, f)
      <3>1. ASSUME NEW n \in 0..(N - 1) PROVE f[n + 1] = ht.next[f[n]]
        <4>1. n \in 0..N /\ n + 1 \in 0..N
          BY <1>1
        <4> QED
          BY <2>1, <4>1
      <3> HIDE DEF f
      <3> QED
        BY <3>1 DEF IsPath
    <2> HIDE DEF f
    <2> QED
      BY <2>3, <2>4, NoLongPath DEF N, Sound
  <1>6. Cardinality(On) \in 0..N
    <2>1. PICK m \in 0..N : at[m] = NULL
      BY <1>5
    <2>2. IsFiniteSet(0..N) /\ Cardinality(0..N) = N + 1
      <3> HIDE DEF N
      <3>1. 0 \in Int /\ N \in Int /\ ~(0 > N) /\ N - 0 + 1 = N + 1
        BY <1>1
      <3> QED
        BY <3>1, FS_Interval
    <2>3. On \subseteq 0..N /\ On # 0..N
      BY <2>1
    <2>4. IsFiniteSet(On) /\ Cardinality(On) < Cardinality(0..N) /\ Cardinality(On) \in Nat
      <3> HIDE DEF On, N
      <3>1. On \in SUBSET (0..N)
        BY <2>3
      <3>2. /\ IsFiniteSet(On) /\ Cardinality(On) <= Cardinality(0..N)
            /\ Cardinality(0..N) # Cardinality(On)
        BY <2>2, <2>3, <3>1, FS_Subset
      <3>3. Cardinality(On) \in Nat
        BY <3>2, FS_CardinalityType
      <3> QED
        BY <1>1, <2>2, <3>2, <3>3
    <2> QED
      BY <1>1, <2>2, <2>4
  <1>7. Chain(ht, b) = [i \in 1..Cardinality(On) |-> at[i - 1]]
    BY ChainIsPath, Zenon DEF at
  <1>8. Len(Chain(ht, b)) = Cardinality(On)
    <2> HIDE DEF On
    <2> QED
      BY <1>6, <1>7
  <1> QED
    BY <1>1, <1>6, <1>8

-----------------------------------------------------------------------------
(* Sound tables stay sound.                                                *)

(* Finitely many buckets are in use.                                       *)
LEMMA SoundFinite ==
  ASSUME NEW t, Sound(t)
  PROVE  IsFiniteSet(InUse(t))
  <1>1. 0 \in Int /\ t.size - 1 \in Int
    BY SizeAssumption DEF Sound, TableType
  <1>2. IsFiniteSet(Slots(t))
    BY <1>1, FS_Interval DEF Slots
  <1>3. InUse(t) \in SUBSET Slots(t)
    BY DEF Sound, Counted
  <1> QED
    BY <1>2, <1>3, FS_Subset

(* An empty table.                                                         *)
LEMMA EmptySound ==
  ASSUME NEW n \in Sizes
  PROVE  Sound(Table(n)) /\ InUse(Table(n)) = {}
  <1> DEFINE t == Table(n)
  <1>1. n \in 1..MaxSize /\ n \in Nat
    BY SizeAssumption
  <1>2. t \in TableType /\ t.size = n /\ t.total = 0
    BY <1>1 DEF Table, TableType
  <1>3. \A b \in Bucket : t.key[b] = NULL /\ t.value[b] = NULL /\ t.next[b] = NULL
    BY DEF Table
  <1> HIDE DEF t
  <1>4. InUse(t) = {}
    BY <1>3 DEF InUse
  <1>5. Owning(t)
    BY <1>3, <1>4, Distinct DEF Owning
  <1>6. Counted(t)
    BY <1>1, <1>2, <1>4, FS_EmptySet DEF Counted
  <1>7. Bounded(t)
    BY <1>3 DEF Bounded
  <1>8. Acyclic(t)
    BY <1>3, Distinct DEF Acyclic
  <1>9. BrokenFirst(t)
    BY <1>3, Distinct DEF BrokenFirst
  <1> QED
    BY <1>2, <1>4, <1>5, <1>6, <1>7, <1>8, <1>9 DEF Sound, t

(* A free bucket b takes a queue that is in no other.  The pointer of l,   *)
(* if it leads nowhere, may be made to lead to b.                          *)
LEMMA PutSound ==
  ASSUME NEW t, Sound(t), NEW u \in TableType, NEW b \in Slots(t), NEW k \in Key, NEW q \in Queue,
         t.value[b] = NULL, t.total < t.size,
         \A c \in InUse(t) : t.value[c] # q,
         u.size = t.size, u.total = t.total + 1,
         u.key = [t.key EXCEPT ![b] = Stored(k)],
         u.value = [t.value EXCEPT ![b] = q],
         NEW l \in Bucket, t.next[l] = NULL \/ l = b,
         u.next = [t.next EXCEPT ![l] = b, ![b] = NULL]
  PROVE  Sound(u) /\ InUse(u) = InUse(t) \cup {b} /\ b \notin InUse(t)
  <1>1. /\ t.size \in 1..MaxSize /\ t.size \in Nat /\ t.total \in Nat
        /\ t.key \in [Bucket -> Key \cup {NULL, CUT, JUNK}]
        /\ t.value \in [Bucket -> Queue \cup {NULL, JUNK}]
        /\ t.next \in [Bucket -> Bucket \cup {NULL, JUNK, STALE}]
        /\ MaxSize \in Nat
    BY SizeAssumption DEF Sound, TableType
  <1>2. b \in Bucket /\ Slots(u) = Slots(t)
    BY <1>1 DEF Slots, Bucket
  <1>3. /\ u.key[b] = Stored(k) /\ u.value[b] = q /\ u.next[b] = NULL
        /\ \A c \in Bucket \ {b} : u.key[c] = t.key[c] /\ u.value[c] = t.value[c]
        /\ \A c \in Bucket \ {b} : u.next[c] = IF c = l THEN b ELSE t.next[c]
    <2>1. u.key[b] = Stored(k) /\ \A c \in Bucket \ {b} : u.key[c] = t.key[c]
      BY <1>1, <1>2
    <2>2. u.value[b] = q /\ \A c \in Bucket \ {b} : u.value[c] = t.value[c]
      BY <1>1, <1>2
    <2>3. u.next[b] = NULL
      BY <1>1, <1>2
    <2>4. \A c \in Bucket \ {b} : u.next[c] = IF c = l THEN b ELSE t.next[c]
      BY <1>1, <1>2
    <2> QED
      BY <2>1, <2>2, <2>3, <2>4
  <1>4. Stored(k) \in Key \cup {CUT} /\ q \notin {NULL, JUNK}
    BY Distinct DEF Stored
  <1>5. InUse(u) = InUse(t) \cup {b} /\ b \notin InUse(t)
    BY <1>2, <1>3, <1>4 DEF InUse
  <1>6. Owning(u)
    <2>1. ASSUME NEW c \in InUse(u), NEW d \in InUse(u), u.value[c] = u.value[d] PROVE c = d
      <3>1. c \in Bucket /\ d \in Bucket
        BY DEF InUse
      <3>2. CASE c # b /\ d # b
        BY <1>3, <1>5, <2>1, <3>1, <3>2 DEF Sound, Owning
      <3>3. CASE c = b /\ d # b
        BY <1>3, <1>5, <2>1, <3>1, <3>3
      <3>4. CASE c # b /\ d = b
        BY <1>3, <1>5, <2>1, <3>1, <3>4
      <3> QED
        BY <3>2, <3>3, <3>4
    <2>2. ASSUME NEW c \in Bucket PROVE u.key[c] \in Key \cup {CUT} <=> c \in InUse(u)
      BY <1>3, <1>4, <1>5 DEF Sound, Owning
    <2> QED
      BY <2>1, <2>2 DEF Owning
  <1>7. Counted(u)
    <2>1. IsFiniteSet(InUse(t))
      BY SoundFinite
    <2>2. Cardinality(InUse(u)) = Cardinality(InUse(t)) + 1
      BY <1>5, <2>1, FS_AddElement
    <2>3. InUse(u) \subseteq Slots(u)
      BY <1>2, <1>5 DEF Sound, Counted
    <2> QED
      BY <1>1, <2>2, <2>3 DEF Sound, Counted
  <1>8. Bounded(u)
    <2>1. \A c \in Bucket : c >= t.size => c # b
      BY <1>1 DEF Slots
    <2>2. \A c \in Bucket : u.next[c] \in Slots(t) \cup {NULL, JUNK, STALE}
      BY <1>3 DEF Sound, Bounded
    <2> QED
      BY <1>2, <1>3, <2>1, <2>2 DEF Sound, Bounded
  <1>9. Acyclic(u)
    <2> SUFFICES ASSUME NEW C \in SUBSET Bucket, C # {} PROVE \E c \in C : u.next[c] \notin C
      BY DEF Acyclic
    <2>1. CASE b \in C
      BY <1>3, <2>1, Distinct
    <2>2. CASE b \notin C
      <3>1. PICK c \in C : t.next[c] \notin C
        BY DEF Sound, Acyclic
      <3> QED
        BY <1>3, <2>2, <3>1
    <2> QED
      BY <2>1, <2>2
  <1>10. BrokenFirst(u)
    <2> SUFFICES ASSUME NEW c \in Bucket, u.next[c] \in {JUNK, STALE}
                 PROVE  u.size >= 2 /\ \A p \in Bucket : u.next[p] # c
      BY DEF BrokenFirst
    <2>1. c # b /\ c # l /\ t.next[c] \in {JUNK, STALE}
      BY <1>2, <1>3, Distinct
    <2>2. t.size >= 2 /\ \A p \in Bucket : t.next[p] # c
      BY <2>1 DEF Sound, BrokenFirst
    <2>3. c # NULL
      BY Distinct
    <2> QED
      BY <1>3, <2>1, <2>2, <2>3
  <1> QED
    BY <1>5, <1>6, <1>7, <1>8, <1>9, <1>10 DEF Sound

(* A bucket in use is cleared.                                             *)
LEMMA ClearSound ==
  ASSUME NEW t, Sound(t), NEW u \in TableType, NEW b \in InUse(t),
         u.size = t.size, u.total = t.total - 1,
         u.key = [t.key EXCEPT ![b] = NULL],
         u.value = [t.value EXCEPT ![b] = NULL],
         u.next = [t.next EXCEPT ![b] = NULL]
  PROVE  Sound(u) /\ InUse(u) = InUse(t) \ {b}
  <1>1. /\ t.size \in 1..MaxSize /\ t.size \in Nat /\ t.total \in Nat
        /\ t.key \in [Bucket -> Key \cup {NULL, CUT, JUNK}]
        /\ t.value \in [Bucket -> Queue \cup {NULL, JUNK}]
        /\ t.next \in [Bucket -> Bucket \cup {NULL, JUNK, STALE}]
    BY SizeAssumption DEF Sound, TableType
  <1>2. b \in Bucket /\ Slots(u) = Slots(t)
    BY DEF Slots, InUse
  <1>3. /\ u.key[b] = NULL /\ u.value[b] = NULL /\ u.next[b] = NULL
        /\ \A c \in Bucket \ {b} : /\ u.key[c] = t.key[c]
                                   /\ u.value[c] = t.value[c]
                                   /\ u.next[c] = t.next[c]
    BY <1>1, <1>2
  <1>4. InUse(u) = InUse(t) \ {b}
    BY <1>2, <1>3 DEF InUse
  <1>5. Owning(u)
    <2>1. \A c \in InUse(u) : c \in Bucket \ {b} /\ c \in InUse(t)
      BY <1>4 DEF InUse
    <2>2. \A c, d \in InUse(u) : u.value[c] = u.value[d] => c = d
      BY <1>3, <2>1 DEF Sound, Owning
    <2>3. ASSUME NEW c \in Bucket PROVE u.key[c] \in Key \cup {CUT} <=> c \in InUse(u)
      BY <1>3, <1>4, Distinct DEF Sound, Owning
    <2> QED
      BY <2>2, <2>3 DEF Owning
  <1>6. Counted(u)
    <2>1. IsFiniteSet(InUse(t))
      BY SoundFinite
    <2>2. Cardinality(InUse(u)) = Cardinality(InUse(t)) - 1
      BY <1>4, <2>1, FS_RemoveElement
    <2> QED
      BY <1>1, <1>2, <1>4, <2>2 DEF Sound, Counted
  <1>7. Bounded(u)
    BY <1>2, <1>3 DEF Sound, Bounded
  <1>8. Acyclic(u)
    <2> SUFFICES ASSUME NEW C \in SUBSET Bucket, C # {} PROVE \E c \in C : u.next[c] \notin C
      BY DEF Acyclic
    <2>1. CASE b \in C
      BY <1>3, <2>1, Distinct
    <2>2. CASE b \notin C
      BY <1>3, <2>2 DEF Sound, Acyclic
    <2> QED
      BY <2>1, <2>2
  <1>9. BrokenFirst(u)
    <2> SUFFICES ASSUME NEW c \in Bucket, u.next[c] \in {JUNK, STALE}
                 PROVE  u.size >= 2 /\ \A p \in Bucket : u.next[p] # c
      BY DEF BrokenFirst
    <2>1. c # b /\ t.next[c] \in {JUNK, STALE}
      BY <1>2, <1>3, Distinct
    <2>2. t.size >= 2 /\ \A p \in Bucket : t.next[p] # c
      BY <2>1 DEF Sound, BrokenFirst
    <2>3. c # NULL
      BY Distinct
    <2> QED
      BY <1>3, <2>2, <2>3
  <1> QED
    BY <1>4, <1>5, <1>6, <1>7, <1>8, <1>9 DEF Sound

(* The array grows; what was in use stays so, and what was linked is       *)
(* linked as before or astray.                                             *)
LEMMA GrownSound ==
  ASSUME NEW t, Sound(t), 2 * t.size <= MaxSize, NEW u \in Grown(t)
  PROVE  /\ Sound(u)
         /\ u.size = 2 * t.size
         /\ u.total = t.total /\ u.total < u.size
         /\ InUse(u) = InUse(t)
         /\ \A b \in Slots(t) : u.key[b] = t.key[b] /\ u.value[b] = t.value[b]
         /\ Extends(u, t)
         /\ \A b \in Slots(u) \ Slots(t) :
              u.value[b] = NULL \/ (u.next[b] = JUNK /\ u.key[b] = JUNK)
  <1>1. /\ t.size \in 1..MaxSize /\ t.size \in Nat /\ t.size >= 1 /\ t.total \in Nat
        /\ t.key \in [Bucket -> Key \cup {NULL, CUT, JUNK}]
        /\ t.value \in [Bucket -> Queue \cup {NULL, JUNK}]
        /\ t.next \in [Bucket -> Bucket \cup {NULL, JUNK, STALE}]
        /\ MaxSize \in Nat /\ t.total <= t.size
    BY SizeAssumption DEF Sound, TableType, Counted
  <1> DEFINE Ext(f, junk) ==
        [b \in Bucket |-> IF b < t.size THEN f[b] ELSE IF b \in junk THEN JUNK ELSE NULL]
      Moved == [b \in Bucket |-> IF t.next[b] = NULL THEN NULL ELSE STALE]
  <1>junk. PICK junk \in SUBSET (t.size..(2 * t.size - 1)), moved \in BOOLEAN :
           u = [size |-> 2 * t.size, total |-> t.total,
                key |-> Ext(t.key, junk), value |-> Ext(t.value, junk),
                next |-> Ext(IF moved THEN Moved ELSE t.next, junk)]
    BY DEF Grown
  <1>fields. /\ u.key = Ext(t.key, junk) /\ u.value = Ext(t.value, junk)
         /\ u.next = Ext(IF moved THEN Moved ELSE t.next, junk)
    <2> HIDE DEF Ext, Moved
    <2> QED
      BY <1>junk
  <1>2. /\ u.size = 2 * t.size /\ u.total = t.total
        /\ u \in [size : {u.size}, total : {u.total}, key : {u.key}, value : {u.value}, next : {u.next}]
    <2> HIDE DEF Ext, Moved
    <2> QED
      BY <1>junk
  <1>3. \A b \in Bucket : b < t.size => /\ b \in Slots(t)
                                        /\ u.key[b] = t.key[b] /\ u.value[b] = t.value[b]
                                        /\ u.next[b] = IF ~moved THEN t.next[b]
                                                       ELSE IF t.next[b] = NULL THEN NULL ELSE STALE
    BY <1>1, <1>fields DEF Slots, Bucket
  <1>4. \A b \in Bucket : ~(b < t.size) =>
          \/ u.key[b] = NULL /\ u.value[b] = NULL /\ u.next[b] = NULL
          \/ b \in junk /\ u.key[b] = JUNK /\ u.value[b] = JUNK /\ u.next[b] = JUNK
    BY <1>fields
  <1>5. /\ u.size \in 1..MaxSize /\ u.total \in Nat /\ u.total < u.size
        /\ \A b \in Bucket : b < t.size <=> b \in Slots(t)
        /\ Slots(t) \subseteq Slots(u) /\ Slots(u) \subseteq Bucket
    BY <1>1, <1>2 DEF Slots, Bucket
  <1>6. u \in TableType
    <2>1. u.key \in [Bucket -> Key \cup {NULL, CUT, JUNK}]
      BY <1>1, <1>fields
    <2>2. u.value \in [Bucket -> Queue \cup {NULL, JUNK}]
      BY <1>1, <1>fields
    <2>3. u.next \in [Bucket -> Bucket \cup {NULL, JUNK, STALE}]
      BY <1>1, <1>fields
    <2> QED
      BY <1>2, <1>5, <2>1, <2>2, <2>3 DEF TableType
  <1>7. \A b \in InUse(t) : b < t.size
    BY <1>5 DEF Sound, Counted, InUse
  <1>8. InUse(u) = InUse(t)
    BY <1>3, <1>4, <1>7 DEF InUse
  <1>9. Owning(u)
    <2>1. \A c, d \in InUse(u) : u.value[c] = u.value[d] => c = d
      BY <1>3, <1>7, <1>8 DEF Sound, Owning, InUse
    <2>2. ASSUME NEW c \in Bucket PROVE u.key[c] \in Key \cup {CUT} <=> c \in InUse(u)
      <3>1. CASE c < t.size
        BY <1>3, <1>8, <3>1 DEF Sound, Owning
      <3>2. CASE ~(c < t.size)
        BY <1>4, <1>7, <1>8, <3>2, Distinct
      <3> QED
        BY <3>1, <3>2
    <2> QED
      BY <2>1, <2>2 DEF Owning
  <1>10. Counted(u)
    <2>1. InUse(u) \subseteq Slots(u)
      BY <1>5, <1>7, <1>8 DEF InUse
    <2>2. u.total <= u.size
      BY <1>1, <1>2
    <2> QED
      BY <1>2, <1>8, <2>1, <2>2 DEF Sound, Counted
  <1>11. Bounded(u)
    <2>1. ASSUME NEW b \in Bucket, b >= u.size PROVE u.key[b] = NULL /\ u.value[b] = NULL
      <3>1. ~(b < t.size) /\ b \notin junk
        BY <1>1, <1>2, <2>1 DEF Bucket
      <3> QED
        BY <1>4, <3>1
    <2>2. ASSUME NEW b \in Bucket PROVE u.next[b] \in Slots(u) \cup {NULL, JUNK, STALE}
      <3>1. t.next[b] \in Slots(t) \cup {NULL, JUNK, STALE}
        BY DEF Sound, Bounded
      <3> QED
        BY <1>3, <1>4, <1>5, <3>1
    <2> QED
      BY <2>1, <2>2 DEF Bounded
  <1>12. \A b \in Bucket : u.next[b] \in Bucket => b < t.size /\ u.next[b] = t.next[b]
    BY <1>3, <1>4, Distinct
  <1>13. Acyclic(u)
    <2> SUFFICES ASSUME NEW C \in SUBSET Bucket, C # {} PROVE \E c \in C : u.next[c] \notin C
      BY DEF Acyclic
    <2>1. PICK c \in C : t.next[c] \notin C
      BY DEF Sound, Acyclic
    <2> QED
      BY <1>12, <2>1
  <1>14. BrokenFirst(u)
    <2> SUFFICES ASSUME NEW c \in Bucket, u.next[c] \in {JUNK, STALE}, NEW p \in Bucket, u.next[p] = c
                 PROVE  FALSE
      BY <1>1, <1>2 DEF BrokenFirst
    <2>1. p < t.size /\ t.next[p] = c /\ ~moved
      BY <1>3, <1>12, Distinct
    <2>2. c \in Slots(t)
      BY <2>1, Distinct DEF Sound, Bounded
    <2>3. t.next[c] \in {JUNK, STALE}
      BY <1>3, <1>5, <2>1, <2>2
    <2> QED
      BY <2>1, <2>3 DEF Sound, BrokenFirst
  <1>15. Extends(u, t)
    BY <1>3, <1>5 DEF Extends
  <1>16. \A b \in Slots(u) \ Slots(t) : u.value[b] = NULL \/ (u.next[b] = JUNK /\ u.key[b] = JUNK)
    BY <1>4, <1>5
  <1>17. Sound(u)
    BY <1>6, <1>9, <1>10, <1>11, <1>13, <1>14 DEF Sound
  <1> QED
    BY <1>2, <1>3, <1>5, <1>8, <1>15, <1>16, <1>17

-----------------------------------------------------------------------------
(* The home of a name in a table of twice the size.                        *)

(* Quotient and remainder, and that there are no others.                   *)
LEMMA Division ==
  ASSUME NEW a \in Nat, NEW m \in Nat \ {0}
  PROVE  a = m * (a \div m) + (a % m) /\ a \div m \in Int /\ a % m \in 0..(m - 1)
  OBVIOUS

(* The remainder is the one number below n that differs from a by a        *)
(* multiple of n.                                                          *)
LEMMA RemainderUnique ==
  ASSUME NEW a \in Nat, NEW n \in Nat \ {0}, NEW q \in Int, NEW r \in 0..(n - 1), a = n * q + r
  PROVE  a % n = r
  <1> DEFINE d == a \div n
             s == a % n
             x == n * (q - d)
  <1>1. a = n * d + s /\ d \in Int /\ s \in 0..(n - 1)
    BY Division
  <1> HIDE DEF d, s
  <1>2. x = s - r /\ q - d \in Int
    BY <1>1
  <1>3. /\ q - d >= 1 => x >= n
        /\ q - d <= -1 => x <= -n
        /\ q - d = 0 => x = 0
    BY <1>2
  <1> HIDE DEF x
  <1>4. ~ (q - d >= 1)
    BY <1>1, <1>2, <1>3
  <1>5. ~ (q - d <= -1)
    BY <1>1, <1>2, <1>3
  <1>6. q - d = 0
    BY <1>2, <1>4, <1>5
  <1>7. s = r
    BY <1>1, <1>2, <1>3, <1>6
  <1> QED
    BY <1>7 DEF s

(* A home in the old half of the array is the home it was.                 *)
LEMMA RemainderOfDouble ==
  ASSUME NEW a \in Nat, NEW n \in Nat \ {0}, a % (2 * n) < n
  PROVE  a % (2 * n) = a % n
  <1> DEFINE m == 2 * n
             q == a \div m
             r == a % m
  <1>1. m \in Nat \ {0}
    OBVIOUS
  <1>2. a = m * q + r /\ q \in Int /\ r \in 0..(m - 1)
    <2> HIDE DEF m
    <2> QED
      BY <1>1, Division
  <1>3. r \in 0..(n - 1)
    BY <1>2
  <1> HIDE DEF q, r
  <1>4. a = n * (2 * q) + r /\ 2 * q \in Int
    BY <1>2
  <1>5. a % n = r
    BY <1>3, <1>4, RemainderUnique
  <1> QED
    BY <1>5 DEF r

-----------------------------------------------------------------------------
(* What names find while the table is intact.                              *)

(* In a whole table every name finds its queue, and others find nothing.   *)
LEMMA WholeIsExact ==
  ASSUME Sound(ht), Whole, NEW k \in Key \ LongKey
  PROVE  Exact(k)
  <1> DEFINE h == Home(ht, k)
             o == Look(ht, k)[ht.size][h]
  <1>1. /\ ht \in TableType /\ ht.size \in 1..MaxSize /\ ht.size \in Nat /\ ht.size \in 0..ht.size
        /\ h \in Bucket /\ h \in Ptr /\ Held = InUse(ht)
    BY SizeAssumption, HomeInTable DEF Sound, TableType, Ptr, Held, InUse
  <1>2. Find(k) = IF ht.value[h] = NULL THEN Miss ELSE o
    BY SeekIsLook DEF Find
  <1>3. o \in Outcomes(ht, k)
    BY <1>1, LookOutcome
  <1>4. h \in Held <=> ht.value[h] # NULL
    BY <1>1 DEF Whole, Held
  <1>5. ASSUME h \in Held PROVE o # Wild
    <2> SUFFICES ASSUME o = Wild PROVE FALSE
      OBVIOUS
    <2>1. Held \in SUBSET Bucket
      BY DEF Held
    <2>2. \A g \in Held : Readable(ht, g) /\ ht.next[g] \in Held \cup {NULL}
      BY <1>1, <2>1, Distinct DEF Sound, Owning, Whole, Linked, Readable
    <2>3. PICK f \in [0..ht.size -> Held] : IsPath(ht, ht.size, f)
      BY <1>1, <1>5, <2>1, <2>2, AstrayIsLong
    <2>4. f \in [0..ht.size -> Slots(ht)]
      BY <1>1 DEF Sound, Counted
    <2> QED
      BY <2>3, <2>4, NoLongPath DEF Sound
  <1> HIDE DEF h, o
  <1>6. Miss.how = "miss" /\ Miss # Wild
    BY DEF Miss, Wild
  (* A bucket with the name is in use and holds the queue it was given.    *)
  <1>7. \A b \in Bucket : ht.key[b] = k => b \in Held /\ map[k] = ht.value[b]
    BY <1>1 DEF Sound, Owning, Whole, Named
  <1>8. CASE map[k] = NULL
    <2>1. \A b \in Bucket : ht.key[b] # k
      BY <1>7, <1>8 DEF Held
    <2>2. ht.value[h] # NULL => o = Miss
      BY <1>3, <1>4, <1>5, <2>1 DEF Outcomes
    <2>3. Find(k) = Miss
      BY <1>2, <2>2
    <2> QED
      BY <1>6, <1>8, <2>3 DEF Exact
  <1>9. CASE map[k] # NULL
    <2>1. PICK b \in Held : ht.key[b] = k
      BY <1>9 DEF Whole, Kept
    <2>2. b \in Bucket /\ Reaches(ht, h, b)
      BY <2>1 DEF Held, Whole, Named, h
    <2>3. ht.value[h] # NULL
      <3> SUFFICES ASSUME ht.value[h] = NULL PROVE FALSE
        OBVIOUS
      <3>1. ht.next[h] = NULL
        BY <1>1, <1>4 DEF Whole, Linked
      <3>2. {h} \in SUBSET Bucket /\ Closed(ht, {h})
        BY <1>1, <3>1, Distinct DEF Closed
      <3>3. b = h
        BY <2>2, <3>2 DEF Reaches
      <3> QED
        BY <1>4, <3>3
    <2>4. o # Miss
      <3> SUFFICES ASSUME o = Miss PROVE FALSE
        OBVIOUS
      <3>1. Look(ht, k)[ht.size][h] = Miss
        BY DEF o
      <3>2. ht.key[b] # k
        BY <1>1, <2>2, <3>1, MissedAll
      <3> QED
        BY <2>1, <3>2
    <2>5. PICK c \in Bucket : ht.key[c] = k /\ o = [how |-> "hit", at |-> c]
      BY <1>3, <1>4, <1>5, <2>3, <2>4 DEF Outcomes
    <2>6. Find(k).how = "hit" /\ Find(k).at = c
      BY <1>2, <2>3, <2>5
    <2> QED
      BY <1>7, <1>9, <2>5, <2>6 DEF Exact
  <1> QED
    BY <1>8, <1>9

-----------------------------------------------------------------------------
(* Insertion.                                                              *)

(* An array with room is sound, and holds what the table held.             *)
LEMMA RoomSound ==
  ASSUME Sound(ht), NEW t \in Room(ht)
  PROVE  /\ Sound(t)
         /\ t.total < t.size
         /\ InUse(t) = Held
         /\ \A b \in Held : t.value[b] = ht.value[b]
         /\ Extends(t, ht)
         /\ ht.total < ht.size => t = ht
         /\ t = ht \/ (2 * ht.size <= MaxSize /\ t \in Grown(ht))
  <1>1. Held = InUse(ht) /\ Held \subseteq Slots(ht)
    BY DEF Held, InUse, Sound, Counted
  <1>2. CASE ht.total < ht.size
    <2>1. t = ht
      BY <1>2 DEF Room
    <2> QED
      BY <1>1, <1>2, <2>1 DEF Extends
  <1>3. CASE ~(ht.total < ht.size)
    <2>1. 2 * ht.size <= MaxSize /\ t \in Grown(ht)
      BY <1>3 DEF Room
    <2>2. /\ Sound(t) /\ t.total < t.size /\ InUse(t) = InUse(ht) /\ Extends(t, ht)
          /\ \A b \in Slots(ht) : t.value[b] = ht.value[b]
      BY <2>1, GrownSound
    <2> QED
      BY <1>1, <1>3, <2>1, <2>2
  <1> QED
    BY <1>2, <1>3

(* A name that is not found is not overwritten either.                     *)
LEMMA NotSame ==
  ASSUME Sound(ht), NEW t \in Room(ht), NEW k \in Key, Find(k).how = "miss",
         t.value[Home(t, k)] # NULL
  PROVE  Walk(t, k).how # "same"
  <1> DEFINE h == Home(ht, k)
             g == Home(t, k)
  <1>1. /\ Sound(t) /\ Extends(t, ht) /\ t \in TableType /\ ht \in TableType /\ Bounded(ht)
        /\ t = ht \/ (2 * ht.size <= MaxSize /\ t \in Grown(ht))
    BY RoomSound DEF Sound
  <1>2. /\ t.size \in 1..MaxSize /\ t.size \in Nat \ {0} /\ t.size \in 0..t.size
        /\ ht.size \in 1..MaxSize /\ ht.size \in Nat \ {0} /\ ht.size \in 0..ht.size
    BY <1>1, SizeAssumption DEF TableType
  <1>3. /\ g \in Slots(t) /\ g \in Bucket /\ g \in Ptr
        /\ h \in Slots(ht) /\ h \in Bucket /\ h \in Ptr
    BY <1>2, HomeInTable DEF Ptr
  <1>4. Walk(t, k) = WalkFrom(t, k)[t.size][g]
    BY WalkIsWalkFrom
  <1>5. CASE g = h /\ t.value[h] = ht.value[h]
    <2>1. Find(k) = Look(ht, k)[ht.size][h]
      BY <1>5, SeekIsLook DEF Find
    <2>2. Look(ht, k)[ht.size][h] = Miss
      <3>1. Look(ht, k)[ht.size][h] \in Outcomes(ht, k)
        BY <1>1, <1>2, <1>3, LookOutcome
      <3>2. Look(ht, k)[ht.size][h].how = "miss"
        BY <2>1
      <3> HIDE DEF h
      <3> QED
        BY <3>1, <3>2, OutcomeCases
    <2>3. WalkFrom(t, k)[t.size][h].how # "same"
      <3> HIDE DEF h
      <3> QED
        BY <1>1, <1>2, <1>3, <2>2, WalkAfterMiss
    <2> QED
      BY <1>4, <1>5, <2>3
  <1>6. CASE ~(g = h /\ t.value[h] = ht.value[h])
    <2>1. /\ 2 * ht.size <= MaxSize /\ t.size = 2 * ht.size
          /\ \A b \in Slots(ht) : t.value[b] = ht.value[b]
          /\ \A b \in Slots(t) \ Slots(ht) :
               t.value[b] = NULL \/ (t.next[b] = JUNK /\ t.key[b] = JUNK)
      BY <1>1, <1>6, GrownSound
    <2>2. g \notin Slots(ht)
      <3> SUFFICES ASSUME g \in Slots(ht) PROVE FALSE
        OBVIOUS
      <3>1. HashOf[k] \in Nat
        BY KeyAssumption
      <3>2. HashOf[k] % (2 * ht.size) < ht.size
        BY <1>2, <2>1 DEF Home, Slots
      <3>3. HashOf[k] % (2 * ht.size) = HashOf[k] % ht.size
        BY <1>2, <3>1, <3>2, RemainderOfDouble
      <3>4. g = h
        BY <2>1, <3>3 DEF Home
      <3> QED
        BY <1>3, <1>6, <2>1, <3>4
    <2>3. t.next[g] = JUNK /\ t.key[g] = JUNK
      BY <1>3, <2>1, <2>2
    <2>4. WalkFrom(t, k)[t.size][g] =
            IF t.size = 0 \/ g \notin Bucket THEN Wild
            ELSE IF t.next[g] = NULL THEN [how |-> "last", at |-> g]
            ELSE IF ~Readable(t, g) THEN Wild
            ELSE IF t.key[g] = k THEN [how |-> "same", at |-> g]
            ELSE WalkFrom(t, k)[t.size - 1][t.next[g]]
      <3> HIDE DEF g
      <3>1. WalkFrom(t, k)[t.size] = WalkBody(t, k, WalkFrom(t, k), t.size)
        BY <1>2, WalkEquation
      <3> QED
        BY <1>3, <3>1 DEF WalkBody
    <2>5. ~Readable(t, g)
      BY <2>3 DEF Readable
    <2>6. Walk(t, k) = Wild
      <3> HIDE DEF g
      <3> QED
        BY <1>2, <1>3, <1>4, <2>3, <2>4, <2>5, Distinct
    <2> QED
      BY <2>6 DEF Wild
  <1> QED
    BY <1>5, <1>6

(* Every insertion fills a free bucket b: the home of the name, or one that *)
(* the last bucket l of its chain is made to lead to.                      *)
Fills(t, u, k, q, b, l) ==
  /\ t.value[b] = NULL
  /\ u.size = t.size /\ u.total = t.total + 1
  /\ u.key = [t.key EXCEPT ![b] = Stored(k)]
  /\ u.value = [t.value EXCEPT ![b] = q]
  /\ u.next = [t.next EXCEPT ![l] = b, ![b] = NULL]
  /\ \/ l = b /\ b = Home(t, k)
     \/ /\ t.value[Home(t, k)] # NULL /\ t.next[l] = NULL
        /\ Reaches(t, Home(t, k), l)

(* An insertion after a search that missed fills one free bucket and links *)
(* it to the end of the name's own chain.                                  *)
LEMMA InsertFills ==
  ASSUME Sound(ht), NEW t \in Room(ht), NEW k \in Key, Find(k).how = "miss",
         NEW q \in Queue, NEW u \in Insert(t, k, q)
  PROVE  u \in TableType /\ \E b \in Slots(t), l \in Bucket : Fills(t, u, k, q, b, l)
  <1> DEFINE h == Home(t, k)
             w == Walk(t, k)
  <1>1. Sound(t) /\ t \in TableType
    BY RoomSound DEF Sound
  <1>2. /\ t.size \in 1..MaxSize /\ t.size \in Nat /\ t.total \in Nat
        /\ t.key \in [Bucket -> Key \cup {NULL, CUT, JUNK}]
        /\ t.value \in [Bucket -> Queue \cup {NULL, JUNK}]
        /\ t.next \in [Bucket -> Bucket \cup {NULL, JUNK, STALE}]
        /\ Slots(t) \subseteq Bucket
    BY <1>1, SizeAssumption DEF TableType, Slots, Bucket
  <1>3. h \in Slots(t) /\ h \in Bucket
    BY <1>2, HomeInTable
  <1>4. ASSUME NEW b \in Bucket, NEW l \in Bucket, NEW s,
               s = [t EXCEPT !.next[l] = b], u = Put(s, b, k, q)
        PROVE  /\ u \in TableType
               /\ u.size = t.size /\ u.total = t.total + 1
               /\ u.key = [t.key EXCEPT ![b] = Stored(k)]
               /\ u.value = [t.value EXCEPT ![b] = q]
               /\ u.next = [t.next EXCEPT ![l] = b, ![b] = NULL]
    <2>1. /\ s \in TableType /\ s.size = t.size /\ s.total = t.total
          /\ s.key = t.key /\ s.value = t.value /\ s.next = [t.next EXCEPT ![l] = b]
      BY <1>1, <1>4 DEF TableType
    <2>2. u = [s EXCEPT !.total = s.total + 1, !.key = [s.key EXCEPT ![b] = Stored(k)],
                        !.value = [s.value EXCEPT ![b] = q], !.next = [s.next EXCEPT ![b] = NULL]]
      BY <1>4 DEF Put
    <2>3. /\ u.size = s.size /\ u.total = s.total + 1
          /\ u.key = [s.key EXCEPT ![b] = Stored(k)]
          /\ u.value = [s.value EXCEPT ![b] = q]
          /\ u.next = [s.next EXCEPT ![b] = NULL]
      BY <2>1, <2>2 DEF TableType
    <2>4. Stored(k) \in Key \cup {NULL, CUT, JUNK}
      BY DEF Stored
    <2>5. /\ [s.key EXCEPT ![b] = Stored(k)] \in [Bucket -> Key \cup {NULL, CUT, JUNK}]
          /\ [s.value EXCEPT ![b] = q] \in [Bucket -> Queue \cup {NULL, JUNK}]
          /\ [s.next EXCEPT ![b] = NULL] \in [Bucket -> Bucket \cup {NULL, JUNK, STALE}]
      BY <1>2, <2>1, <2>4
    <2>6. u \in TableType
      <3>1. ASSUME NEW n \in Nat,
                   NEW f \in [Bucket -> Key \cup {NULL, CUT, JUNK}],
                   NEW g \in [Bucket -> Queue \cup {NULL, JUNK}],
                   NEW p \in [Bucket -> Bucket \cup {NULL, JUNK, STALE}]
            PROVE  [s EXCEPT !.total = n, !.key = f, !.value = g, !.next = p] \in TableType
        BY <2>1 DEF TableType
      <3>2. s.total + 1 \in Nat
        BY <1>2, <2>1
      <3> QED
        BY <2>2, <2>5, <3>1, <3>2
    <2> QED
      BY <2>1, <2>3, <2>6
  <1>5. CASE t.value[h] = NULL
    <2>1. u = Put(t, h, k, q)
      BY <1>5 DEF Insert
    <2>2. u = Put([t EXCEPT !.next[h] = h], h, k, q)
      <3> HIDE DEF h
      <3> DEFINE s == [t EXCEPT !.next[h] = h]
      <3>1. /\ s.total = t.total /\ s.key = t.key /\ s.value = t.value
            /\ s = [t EXCEPT !.next = [t.next EXCEPT ![h] = h]]
            /\ s.next = [t.next EXCEPT ![h] = h]
        BY <1>1 DEF TableType
      <3>2. [s.next EXCEPT ![h] = NULL] = [t.next EXCEPT ![h] = NULL]
        BY <1>2, <1>3, <3>1
      <3>3. Put(s, h, k, q) = [s EXCEPT !.total = t.total + 1, !.key = [t.key EXCEPT ![h] = Stored(k)],
                        !.value = [t.value EXCEPT ![h] = q], !.next = [t.next EXCEPT ![h] = NULL]]
        BY <3>1, <3>2 DEF Put
      <3>4. Put(t, h, k, q) = [t EXCEPT !.total = t.total + 1, !.key = [t.key EXCEPT ![h] = Stored(k)],
                        !.value = [t.value EXCEPT ![h] = q], !.next = [t.next EXCEPT ![h] = NULL]]
        BY DEF Put
      <3>5. Put(s, h, k, q) = Put(t, h, k, q)
        BY <1>1, <3>1, <3>3, <3>4 DEF TableType
      <3> QED
        BY <2>1, <3>5
    <2>3. Fills(t, u, k, q, h, h) /\ u \in TableType
      BY <1>3, <1>4, <1>5, <2>2 DEF Fills
    <2> QED
      BY <1>3, <2>3
  <1>6. CASE t.value[h] # NULL
    <2>1. w.how # "same"
      BY <1>6, NotSame
    <2>2. w.how = "last" /\ u \in {Put([t EXCEPT !.next[w.at] = b], b, k, q) : b \in Free(t) \ {h}}
      BY <1>6, <2>1 DEF Insert
    <2> HIDE DEF w
    <2>3. PICK b \in Free(t) : u = Put([t EXCEPT !.next[w.at] = b], b, k, q)
      BY <2>2
    <2>4. b \in Slots(t) /\ b \in Bucket /\ t.value[b] = NULL
      BY <1>2 DEF Free, Slots
    <2>5. w.at \in Bucket /\ t.next[w.at] = NULL /\ Reaches(t, h, w.at)
      <3>1. w = WalkFrom(t, k)[t.size][h] /\ t.size \in 0..t.size
        BY <1>2, WalkIsWalkFrom DEF w
      <3> HIDE DEF h
      <3> QED
        BY <1>1, <1>3, <2>2, <3>1, WalkToLast
    <2>6. Fills(t, u, k, q, b, w.at) /\ u \in TableType
      BY <1>4, <1>6, <2>3, <2>4, <2>5 DEF Fills
    <2> QED
      BY <2>4, <2>5, <2>6
  <1> QED
    BY <1>5, <1>6

-----------------------------------------------------------------------------
(* The invariant of the specification.                                     *)

(* The table starts empty, and empty it has the invariant.                 *)
LEMMA InitHtInv == Init => HtInv
  <1> SUFFICES ASSUME Init PROVE HtInv
    OBVIOUS
  <1>1. PICK n \in Sizes : ht = Table(n)
    BY DEF Init
  <1>2. Sound(ht) /\ Held = {}
    BY <1>1, EmptySound DEF Held, InUse
  <1>3. /\ queues = {} /\ dead = FALSE /\ intact = TRUE
        /\ map = [k \in Key |-> NULL]
    BY DEF Init
  <1>4. \A b \in Bucket : ht.value[b] = NULL /\ ht.next[b] = NULL
    BY <1>1 DEF Table
  <1>5. Whole
    BY <1>2, <1>3, <1>4, Distinct DEF Whole, Linked, Named, Kept
  <1>6. TypeOK
    BY <1>2, <1>3 DEF TypeOK, Sound, TableType
  <1> QED
    BY <1>2, <1>3, <1>5, <1>6 DEF HtInv

(* A table that keeps every pointer from bucket to bucket keeps what can   *)
(* be reached.                                                             *)
LEMMA ReachesKept ==
  ASSUME NEW t, NEW u, NEW a, NEW c, Reaches(t, a, c),
         \A d \in Bucket : t.next[d] \in Bucket => u.next[d] = t.next[d]
  PROVE  Reaches(u, a, c)
  BY DEF Reaches, Closed

(* A new queue.                                                            *)
LEMMA CreateKeeps ==
  ASSUME HtInv, NEW k \in Key, NEW q \in Queue, CreateQueue(k, q)
  PROVE  HtInv'
  <1>1. /\ Find(k).how = "miss" /\ q \notin queues
        /\ queues' = queues \cup {q}
        /\ map' = [map EXCEPT ![k] = q]
        /\ intact' = (intact /\ ht.total < ht.size)
        /\ dead' = dead
    BY DEF CreateQueue
  <1>2. PICK t \in Room(ht) : ht' \in Insert(t, k, q)
    BY DEF CreateQueue
  <1>3. Sound(ht) /\ TypeOK /\ queues = {ht.value[b] : b \in Held}
    BY DEF HtInv
  <1>4. /\ Sound(t) /\ t.total < t.size /\ InUse(t) = Held
        /\ \A c \in Held : t.value[c] = ht.value[c]
        /\ ht.total < ht.size => t = ht
    BY <1>3, RoomSound
  <1>5. ht' \in TableType
    BY <1>1, <1>2, <1>3, InsertFills
  <1>6. PICK b \in Slots(t), l \in Bucket : Fills(t, ht', k, q, b, l)
    BY <1>1, <1>2, <1>3, InsertFills
  <1>7. /\ t \in TableType /\ t.size \in Nat /\ Slots(t) \subseteq Bucket /\ b \in Bucket
        /\ t.key \in [Bucket -> Key \cup {NULL, CUT, JUNK}]
        /\ t.value \in [Bucket -> Queue \cup {NULL, JUNK}]
        /\ t.next \in [Bucket -> Bucket \cup {NULL, JUNK, STALE}]
    BY <1>4, SizeAssumption DEF Sound, TableType, Slots, Bucket
  <1>8. Sound(ht)' /\ Held' = Held \cup {b} /\ b \notin Held
    <2>1. \A c \in InUse(t) : t.value[c] # q
      BY <1>1, <1>3, <1>4
    <2>2. t.next[l] = NULL \/ l = b
      BY <1>6 DEF Fills
    <2>3. Sound(ht') /\ InUse(ht') = InUse(t) \cup {b} /\ b \notin InUse(t)
      BY <1>4, <1>5, <1>6, <2>1, <2>2, PutSound DEF Fills
    <2>4. Held' = InUse(ht')
      BY DEF Held, InUse
    <2>5. Sound(ht') <=> Sound(ht)'
      BY DEF Sound, TableType, Owning, Counted, Bounded, Acyclic, BrokenFirst, InUse, Slots
    <2> QED
      BY <1>4, <2>3, <2>4, <2>5
  <1>9. /\ ht'.value[b] = q /\ ht'.key[b] = Stored(k) /\ ht'.next[b] = NULL
        /\ \A c \in Bucket \ {b} : ht'.value[c] = t.value[c] /\ ht'.key[c] = t.key[c]
        /\ \A c \in Bucket \ {b} : ht'.next[c] = IF c = l THEN b ELSE t.next[c]
    <2>1. ht'.value[b] = q /\ \A c \in Bucket \ {b} : ht'.value[c] = t.value[c]
      BY <1>6, <1>7 DEF Fills
    <2>2. ht'.key[b] = Stored(k) /\ \A c \in Bucket \ {b} : ht'.key[c] = t.key[c]
      BY <1>6, <1>7 DEF Fills
    <2>3. ht'.next[b] = NULL /\ \A c \in Bucket \ {b} : ht'.next[c] = IF c = l THEN b ELSE t.next[c]
      BY <1>6, <1>7 DEF Fills
    <2> QED
      BY <2>1, <2>2, <2>3
  <1>10. queues' = {ht'.value[c] : c \in Held'}
    <2>1. \A c \in Held : ht'.value[c] = ht.value[c]
      BY <1>4, <1>8, <1>9 DEF Held
    <2> QED
      BY <1>1, <1>3, <1>8, <1>9, <2>1
  <1>11. TypeOK'
    <2>1. map' \in [Key -> Queue \cup {NULL}]
      BY <1>1, <1>3 DEF TypeOK
    <2> QED
      BY <1>1, <1>3, <1>5, <2>1 DEF TypeOK, TableType
  <1>12. ASSUME intact' PROVE Whole'
    <2>1. intact /\ t = ht /\ Whole
      BY <1>1, <1>4, <1>12 DEF HtInv
    <2>2. \A c \in Bucket : ht.next[c] # NULL => c \in Held /\ ht.next[c] \in Held
      BY <2>1 DEF Whole, Linked
    <2>3. ht.next[b] = NULL /\ \A c \in Bucket : ht.next[c] # b
      BY <1>7, <1>8, <2>2, Distinct
    (* The name was not in the table, else it would have been found.       *)
    <2>4. \A c \in Held : ht.key[c] # k
      <3> SUFFICES ASSUME NEW c \in Held, ht.key[c] = k PROVE FALSE
        OBVIOUS
      <3>1. k \in Key \ LongKey /\ map[k] = ht.value[c]
        BY <2>1 DEF Whole, Named
      <3>2. Exact(k)
        BY <1>3, <2>1, <3>1, WholeIsExact
      <3> QED
        BY <1>1, <3>1, <3>2 DEF Exact, Held
    <2>5. \A d \in Bucket : ht.next[d] \in Bucket => ht'.next[d] = ht.next[d]
      BY <1>6, <1>9, <2>1, <2>3, Distinct DEF Fills
    <2>6. \A a, c : Reaches(ht, a, c) => Reaches(ht', a, c)
      BY <2>5, ReachesKept
    <2>7. Home(ht', k) = Home(ht, k)
      BY <1>6, <2>1 DEF Fills, Home
    (* What the new bucket is linked to is on the name's chain, in use.     *)
    <2>8. (l = b /\ b = Home(ht, k)) \/ (l \in Held /\ Reaches(ht, Home(ht, k), l))
      <3> SUFFICES ASSUME ht.value[Home(ht, k)] # NULL, Reaches(ht, Home(ht, k), l)
                   PROVE  l \in Held
        BY <1>6, <2>1 DEF Fills
      <3>1. Home(ht, k) \in Held
        BY <1>3, <2>1, HomeInTable DEF Sound, TableType, Whole, Held
      <3>2. Held \in SUBSET Bucket /\ Closed(ht, Held)
        BY <2>2, Distinct DEF Closed, Held
      <3> QED
        BY <3>1, <3>2 DEF Reaches
    <2>9. Reaches(ht', Home(ht', k), b)
      <3>1. CASE b = Home(ht, k)
        BY <2>7, <3>1 DEF Reaches
      <3>2. CASE l \in Held /\ Reaches(ht, Home(ht, k), l)
        <4>1. Reaches(ht', Home(ht, k), l)
          BY <2>6, <3>2
        <4>2. ht'.next[l] = b
          BY <1>8, <1>9, <3>2
        <4> QED
          BY <1>7, <2>7, <4>1, <4>2 DEF Reaches, Closed
      <3> QED
        BY <2>8, <3>1, <3>2
    <2>10. \A c \in Bucket : ht'.value[c] # JUNK
      BY <1>7, <1>9, <2>1, Distinct DEF Whole
    <2>11. ASSUME NEW c \in Bucket, ht'.next[c] # NULL
           PROVE  c \in Held' /\ ht'.next[c] \in Held'
      <3>1. c # b
        BY <1>9, <2>11
      <3>2. CASE c # l
        BY <1>8, <1>9, <2>1, <2>2, <2>11, <3>1, <3>2
      <3>3. CASE c = l
        BY <1>8, <1>9, <2>8, <3>1, <3>3
      <3> QED
        BY <3>2, <3>3
    <2>12. ASSUME NEW c \in Held', ht'.key[c] \in Key
           PROVE  /\ ht'.key[c] \notin LongKey
                  /\ map'[ht'.key[c]] = ht'.value[c]
                  /\ Reaches(ht', Home(ht', ht'.key[c]), c)
      <3>1. CASE c = b
        <4>1. k \notin LongKey /\ ht'.key[c] = k
          BY <1>9, <2>12, <3>1, Distinct DEF Stored
        <4>2. map'[k] = q
          BY <1>1, <1>3 DEF TypeOK
        <4> QED
          BY <1>9, <2>9, <3>1, <4>1, <4>2
      <3>2. CASE c # b
        <4>1. c \in Held /\ c \in Bucket /\ ht'.key[c] = ht.key[c] /\ ht'.value[c] = ht.value[c]
          BY <1>8, <1>9, <2>1, <3>2 DEF Held
        <4>2. /\ ht.key[c] \notin LongKey
              /\ map[ht.key[c]] = ht.value[c]
              /\ Reaches(ht, Home(ht, ht.key[c]), c)
          BY <2>1, <2>12, <4>1 DEF Whole, Named
        <4>3. map'[ht.key[c]] = map[ht.key[c]]
          BY <1>1, <1>3, <2>4, <2>12, <4>1 DEF TypeOK
        <4>4. Home(ht', ht.key[c]) = Home(ht, ht.key[c])
          BY <1>6, <2>1 DEF Fills, Home
        <4>5. Reaches(ht', Home(ht, ht.key[c]), c)
          BY <2>6, <4>2
        <4> QED
          BY <4>1, <4>2, <4>3, <4>4, <4>5
      <3> QED
        BY <3>1, <3>2
    <2>13. ASSUME NEW j \in Key \ LongKey, map'[j] # NULL
           PROVE  \E c \in Held' : ht'.key[c] = j
      <3>1. CASE j = k
        BY <1>8, <1>9, <3>1 DEF Stored
      <3>2. CASE j # k
        <4>1. map[j] # NULL
          BY <1>1, <1>3, <2>13, <3>2 DEF TypeOK
        <4>2. PICK c \in Held : ht.key[c] = j
          BY <2>1, <4>1 DEF Whole, Kept
        <4> QED
          BY <1>8, <1>9, <2>1, <4>2 DEF Held
      <3> QED
        BY <3>1, <3>2
    <2>14. Linked'
      BY <2>11 DEF Linked
    <2>15. Named'
      BY <2>12 DEF Named, Reaches, Closed, Home
    <2>16. Kept'
      BY <2>13 DEF Kept
    <2> QED
      BY <2>10, <2>14, <2>15, <2>16 DEF Whole
  <1> QED
    BY <1>8, <1>10, <1>11, <1>12 DEF HtInv

(* A bucket found is a bucket in use.                                      *)
LEMMA FoundHeld ==
  ASSUME Sound(ht), NEW k \in Key, Find(k).how = "hit"
  PROVE  Find(k).at \in Held /\ Find(k).at \in Bucket /\ ht.key[Find(k).at] = k
  <1>1. Find(k) \in Outcomes(ht, k)
    BY SeekOutcome DEF Find, Sound
  <1>2. Find(k).at \in Bucket /\ ht.key[Find(k).at] = k
    BY <1>1, OutcomeCases
  <1> QED
    BY <1>2 DEF Sound, Owning, Held, InUse

(* A queue is deleted.                                                     *)
LEMMA DeleteKeeps ==
  ASSUME HtInv, NEW k \in Key, DelQueue(k)
  PROVE  HtInv'
  <1> DEFINE b == Find(k).at
  <1>1. /\ queues' = queues \ {ht.value[b]}
        /\ ht' = [ht EXCEPT !.total = @ - 1, !.key[b] = NULL, !.value[b] = NULL, !.next[b] = NULL]
        /\ intact' = (intact /\ ht.next[b] = NULL /\ \A c \in Bucket : ht.next[c] # b)
        /\ map' = [map EXCEPT ![k] = NULL]
        /\ dead' = dead
    BY DEF DelQueue
  <1>2. Sound(ht) /\ ht \in TableType /\ TypeOK /\ queues = {ht.value[c] : c \in Held} /\ Held = InUse(ht)
    BY DEF HtInv, Sound, Held, InUse
  <1>3. b \in Held /\ b \in Bucket /\ ht.key[b] = k
    BY <1>2, FoundHeld DEF DelQueue
  <1> HIDE DEF b
  <1>4. /\ ht.total \in Nat /\ ht.total - 1 \in Nat
        /\ ht.key \in [Bucket -> Key \cup {NULL, CUT, JUNK}]
        /\ ht.value \in [Bucket -> Queue \cup {NULL, JUNK}]
        /\ ht.next \in [Bucket -> Bucket \cup {NULL, JUNK, STALE}]
    <2>1. IsFiniteSet(Held) /\ ht.total = Cardinality(Held)
      BY <1>2, SoundFinite DEF Sound, Counted
    <2>2. Cardinality(Held) \in Nat /\ Cardinality(Held) # 0
      BY <1>3, <2>1, FS_CardinalityType, FS_EmptySet
    <2> QED
      BY <1>2, <2>1, <2>2 DEF TableType
  <1>5. /\ ht' \in TableType
        /\ ht'.size = ht.size /\ ht'.total = ht.total - 1
        /\ ht'.key = [ht.key EXCEPT ![b] = NULL]
        /\ ht'.value = [ht.value EXCEPT ![b] = NULL]
        /\ ht'.next = [ht.next EXCEPT ![b] = NULL]
    <2> DEFINE K == [ht.key EXCEPT ![b] = NULL]
               V == [ht.value EXCEPT ![b] = NULL]
               X == [ht.next EXCEPT ![b] = NULL]
               n == ht.total - 1
    <2>1. /\ n \in Nat
          /\ K \in [Bucket -> Key \cup {NULL, CUT, JUNK}]
          /\ V \in [Bucket -> Queue \cup {NULL, JUNK}]
          /\ X \in [Bucket -> Bucket \cup {NULL, JUNK, STALE}]
      BY <1>4
    <2>2. ht' = [ht EXCEPT !.total = n, !.key = K, !.value = V, !.next = X]
      BY <1>1, <1>2 DEF TableType
    <2> HIDE DEF K, V, X, n
    <2>3. ht' \in TableType
      BY <1>2, <2>1, <2>2 DEF TableType
    <2>4. ht'.size = ht.size /\ ht'.total = n /\ ht'.key = K /\ ht'.value = V /\ ht'.next = X
      BY <1>2, <2>2 DEF TableType
    <2> QED
      BY <2>3, <2>4 DEF K, V, X, n
  <1>6. Sound(ht)' /\ Held' = Held \ {b}
    <2>1. Sound(ht') /\ InUse(ht') = InUse(ht) \ {b}
      BY <1>2, <1>3, <1>5, ClearSound
    <2>2. Held' = InUse(ht')
      BY DEF Held, InUse
    <2>3. Sound(ht') <=> Sound(ht)'
      BY DEF Sound, TableType, Owning, Counted, Bounded, Acyclic, BrokenFirst, InUse, Slots
    <2> QED
      BY <1>2, <2>1, <2>2, <2>3
  <1>7. \A c \in Bucket \ {b} : ht'.value[c] = ht.value[c] /\ ht'.key[c] = ht.key[c] /\ ht'.next[c] = ht.next[c]
    BY <1>3, <1>4, <1>5
  <1>8. ht'.value[b] = NULL /\ ht'.next[b] = NULL
    BY <1>3, <1>4, <1>5
  <1>9. queues' = {ht'.value[c] : c \in Held'}
    <2>1. \A c \in Held' : c \in Bucket \ {b} /\ c \in Held /\ ht'.value[c] = ht.value[c] /\ ht.value[c] # ht.value[b]
      BY <1>2, <1>3, <1>6, <1>7 DEF Sound, Owning, Held
    <2> QED
      BY <1>1, <1>2, <1>6, <2>1
  <1>10. TypeOK'
    <2>1. map' \in [Key -> Queue \cup {NULL}]
      BY <1>1, <1>2 DEF TypeOK
    <2>2. ht'.size \in 1..MaxSize /\ ht'.total \in Nat
      BY <1>5 DEF TableType
    <2>3. /\ ht'.key \in [Bucket -> Key \cup {NULL, CUT, JUNK}]
          /\ ht'.value \in [Bucket -> Queue \cup {NULL, JUNK}]
          /\ ht'.next \in [Bucket -> Bucket \cup {NULL, JUNK, STALE}]
      BY <1>5 DEF TableType
    <2>4. queues' \subseteq Queue /\ dead' \in BOOLEAN /\ intact' \in BOOLEAN
      BY <1>1, <1>2 DEF TypeOK
    <2> QED
      BY <2>1, <2>2, <2>3, <2>4 DEF TypeOK
  <1>11. ASSUME intact' PROVE Whole'
    <2>1. Whole /\ ht.next[b] = NULL /\ \A c \in Bucket : ht.next[c] # b
      BY <1>1, <1>11 DEF HtInv
    <2>2. \A c \in Bucket : ht'.next[c] = ht.next[c]
      BY <1>7, <1>8, <2>1
    <2>3. \A a, c : Reaches(ht, a, c) => Reaches(ht', a, c)
      BY <2>2, ReachesKept
    <2>4. ASSUME NEW c \in Held', ht'.key[c] \in Key
          PROVE  /\ ht'.key[c] \notin LongKey
                 /\ map'[ht'.key[c]] = ht'.value[c]
                 /\ Reaches(ht', Home(ht', ht'.key[c]), c)
      <3>1. c \in Held /\ c \in Bucket \ {b} /\ ht'.key[c] = ht.key[c] /\ ht'.value[c] = ht.value[c]
        BY <1>6, <1>7 DEF Held
      <3>2. /\ ht.key[c] \notin LongKey
            /\ map[ht.key[c]] = ht.value[c]
            /\ Reaches(ht, Home(ht, ht.key[c]), c)
        BY <2>1, <2>4, <3>1 DEF Whole, Named
      <3>3. map[k] = ht.value[b]
        BY <1>3, <2>1 DEF Whole, Named
      <3>4. ht.value[c] # ht.value[b]
        BY <1>2, <1>3, <3>1 DEF Sound, Owning
      <3>5. map'[ht.key[c]] = map[ht.key[c]]
        BY <1>1, <1>2, <2>4, <3>1, <3>2, <3>3, <3>4 DEF TypeOK
      <3>6. Home(ht', ht.key[c]) = Home(ht, ht.key[c])
        BY <1>5 DEF Home
      <3> QED
        BY <2>3, <3>1, <3>2, <3>5, <3>6
    <2>5. ASSUME NEW j \in Key \ LongKey, map'[j] # NULL
          PROVE  \E c \in Held' : ht'.key[c] = j
      <3>1. j # k /\ map[j] # NULL
        BY <1>1, <1>2, <2>5 DEF TypeOK
      <3>2. PICK c \in Held : ht.key[c] = j
        BY <2>1, <3>1 DEF Whole, Kept
      <3>3. c # b /\ c \in Bucket
        BY <1>3, <3>1, <3>2 DEF Held
      <3> QED
        BY <1>6, <1>7, <3>2, <3>3
    <2>6. (\A c \in Bucket : ht.value[c] # JUNK)'
      BY <1>7, <1>8, <2>1, Distinct DEF Whole
    <2>7. Linked'
      <3>1. ASSUME NEW c \in Bucket, ht'.next[c] # NULL PROVE c \in Held' /\ ht'.next[c] \in Held'
        BY <1>6, <2>1, <2>2, <3>1 DEF Whole, Linked
      <3> QED
        BY <3>1 DEF Linked
    <2>8. Named'
      BY <2>4 DEF Named, Reaches, Closed, Home
    <2>9. Kept'
      BY <2>5 DEF Kept
    <2> QED
      BY <2>6, <2>7, <2>8, <2>9 DEF Whole
  <1> QED
    BY <1>6, <1>9, <1>10, <1>11 DEF HtInv

(* The invariant does not speak of whether the server is dead.             *)
LEMMA TableKept ==
  ASSUME HtInv, ht' = ht, queues' = queues, map' = map, intact' = intact, dead' \in BOOLEAN
  PROVE  HtInv'
  BY DEF HtInv, TypeOK, Sound, TableType, Owning, Counted, Bounded, Acyclic, BrokenFirst,
         InUse, Slots, Held, Whole, Linked, Named, Kept, Reaches, Closed, Home

(* No step breaks the invariant.                                           *)
LEMMA NextHtInv == HtInv /\ [Next]_vars => HtInv'
  <1> SUFFICES ASSUME HtInv, [Next]_vars PROVE HtInv'
    OBVIOUS
  <1>1. ASSUME NEW k \in Key, NEW q \in Queue, CreateQueue(k, q) PROVE HtInv'
    BY <1>1, CreateKeeps
  <1>2. ASSUME NEW k \in Key, DelQueue(k) PROVE HtInv'
    BY <1>2, DeleteKeeps
  <1>4. ASSUME NEW k \in Key, Crash(k) PROVE HtInv'
    BY <1>4, TableKept DEF Crash
  <1>5. CASE UNCHANGED vars
    BY <1>5, TableKept DEF vars, HtInv, TypeOK
  <1> QED
    BY <1>1, <1>2, <1>4, <1>5 DEF Next

(* The invariant holds in every reachable state.                           *)
LEMMA HtInvariant == Spec => []HtInv
  <1>1. Init => HtInv
    BY InitHtInv
  <1>2. HtInv /\ [Next]_vars => HtInv'
    BY NextHtInv
  <1> QED
    BY <1>1, <1>2, PTL DEF Spec

-----------------------------------------------------------------------------
(* The theorems.                                                           *)

(* The table has its types, whatever is inserted, grown and deleted; total *)
(* in particular is never taken below zero.                                *)
THEOREM TypeCorrect == Spec => []TypeOK
  <1>1. HtInv => TypeOK
    BY DEF HtInv
  <1> QED
    BY <1>1, HtInvariant, PTL

(* hash_insert never overwrites or loses a queue and hash_delete frees the *)
(* bucket of the queue that deleteQueue freed, however names are lost: the *)
(* buckets lead to the queues that exist, each to its own.                 *)
THEOREM QueuesAreOwned == Spec => []BucketsOwnQueues
  <1>1. HtInv => BucketsOwnQueues
    <2> SUFFICES ASSUME HtInv PROVE BucketsOwnQueues
      OBVIOUS
    <2>1. Held = InUse(ht)
      BY DEF Held, InUse
    <2> QED
      BY <2>1 DEF HtInv, Sound, Owning, BucketsOwnQueues
  <1> QED
    BY <1>1, HtInvariant, PTL

(* total, by which hash_insert grows the array and its probe expects a     *)
(* free bucket, is the number of buckets in use.                           *)
THEOREM TotalIsExact == Spec => []TotalCountsBuckets
  <1>1. HtInv => TotalCountsBuckets
    <2> SUFFICES ASSUME HtInv PROVE TotalCountsBuckets
      OBVIOUS
    <2>1. Held = InUse(ht)
      BY DEF Held, InUse
    <2> QED
      BY <2>1 DEF HtInv, Sound, Counted, Slots, TotalCountsBuckets
  <1> QED
    BY <1>1, HtInvariant, PTL

(* No chain of the table leads back into itself, in a table of any size:   *)
(* the loops of hash_insert, hash_find and hash_delete end.                *)
THEOREM NoChainIsALoop == Spec => []ChainsEnd
  <1>1. HtInv => ChainsEnd
    BY SoundChains DEF HtInv
  <1> QED
    BY <1>1, HtInvariant, PTL

(* Before growth, and as long as no link is cut, hash_find returns for     *)
(* every name the queue the name was given, and for others nothing.        *)
THEOREM NamesAreExact == Spec => []ExactWhileIntact
  <1>1. HtInv => ExactWhileIntact
    BY WholeIsExact DEF HtInv, ExactWhileIntact
  <1> QED
    BY <1>1, HtInvariant, PTL

=============================================================================

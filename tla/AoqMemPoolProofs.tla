-------------------------- MODULE AoqMemPoolProofs --------------------------
(***************************************************************************)
(* Proofs about AoqMemPoolList: for every set of chunks and slabs, every   *)
(* malloc and every load, without -a, and with -a as long as the pool is   *)
(* kept larger than what the load can take (SafeOptions).                  *)
(***************************************************************************)
EXTENDS AoqMemPoolList, FiniteSetTheorems, SequenceTheorems, TLAPS

(* With -a, the pool starts with more chunks than the load can hold, and   *)
(* every target tuneMempool accepts is more than that as well.             *)
SafeOptions ==
  \A o \in Options : o.aomp =>
    /\ o.size > o.load
    /\ \A f \in Forecasts \cup {0} : f + Reserve >= 0 => f + Reserve > o.load

-----------------------------------------------------------------------------
(* Lists.  h leads through the links f along exactly the chunks of s.      *)
Links(f, h, s) ==
  /\ h = IF s = <<>> THEN NULL ELSE s[1]
  /\ \A i \in 1..Len(s) : f[s[i]] = IF i = Len(s) THEN NULL ELSE s[i + 1]

LEMMA LinkedIsLinks ==
  ASSUME NEW h, NEW s PROVE Linked(h, s) <=> Links(next, h, s)
BY DEF Linked, Links

(* A sequence has an element at each of its places and no others.          *)
LEMMA ElementsOf ==
  ASSUME NEW s \in Seq(Chunk)
  PROVE  /\ DOMAIN s = 1..Len(s) /\ Len(s) \in Nat
         /\ \A i \in 1..Len(s) : s[i] \in Range(s) /\ s[i] \in Chunk
         /\ \A c \in Range(s) : \E i \in 1..Len(s) : s[i] = c
         /\ Range(s) \subseteq Chunk
         /\ s = <<>> <=> Len(s) = 0
         /\ s = <<>> <=> Range(s) = {}
<1>1. DOMAIN s = 1..Len(s) /\ Len(s) \in Nat  BY LenProperties
<1>2. \A i \in 1..Len(s) : s[i] \in Range(s)  BY <1>1 DEF Range
<1>3. \A i \in 1..Len(s) : s[i] \in Chunk  BY ElementOfSeq
<1>4. \A c \in Range(s) : \E i \in 1..Len(s) : s[i] = c  BY <1>1 DEF Range
<1>5. s = <<>> <=> Len(s) = 0  BY EmptySeq
<1>6. s = <<>> <=> Range(s) = {}
  <2>1. s = <<>> => Range(s) = {}
    <3>1. s = <<>> => 1..Len(s) = {}  BY <1>5
    <3> QED  BY <3>1, <1>4
  <2>2. s # <<>> => 1 \in 1..Len(s)  BY <1>1, <1>5
  <2> QED  BY <2>1, <2>2, <1>2
<1> QED  BY <1>1, <1>2, <1>3, <1>4, <1>5, <1>6

(* Links elsewhere do not matter to a list.                                *)
LEMMA ListFrame ==
  ASSUME NEW s \in Seq(Chunk), NEW f, NEW g, NEW h, Links(f, h, s),
         \A c \in Range(s) : g[c] = f[c]
  PROVE  Links(g, h, s)
BY ElementsOf DEF Links

(* The list begins with its head, if it has one.                           *)
LEMMA ListHead ==
  ASSUME NEW s \in Seq(Chunk), NEW f, NEW h, Links(f, h, s)
  PROVE  /\ h = NULL <=> s = <<>>
         /\ h # NULL => h = s[1] /\ h \in Chunk /\ h \in Range(s)
<1>1. s # <<>> => 1 \in 1..Len(s)  BY ElementsOf
<1> QED  BY <1>1, ElementsOf, NullAssumption DEF Links

(* What appending to a sequence without repetitions gives.                 *)
LEMMA AppendNoRepeat ==
  ASSUME NEW s \in Seq(Chunk), NEW c \in Chunk, c \notin Range(s), IsInjective(s)
  PROVE  /\ Append(s, c) \in Seq(Chunk) /\ Append(s, c) # <<>>
         /\ Len(Append(s, c)) = Len(s) + 1
         /\ \A i \in 1..Len(s) : Append(s, c)[i] = s[i]
         /\ Append(s, c)[Len(s) + 1] = c
         /\ Range(Append(s, c)) = Range(s) \cup {c}
         /\ IsInjective(Append(s, c))
<1> DEFINE t == Append(s, c)
<1>1. t \in Seq(Chunk) /\ Len(t) = Len(s) + 1  OBVIOUS
<1>2. \A i \in 1..Len(s) : t[i] = s[i]  BY LenProperties
<1>3. t[Len(s) + 1] = c  BY LenProperties
<1>4. DOMAIN t = 1..(Len(s) + 1) /\ DOMAIN s = 1..Len(s) /\ Len(s) \in Nat
  BY <1>1, LenProperties
<1> HIDE DEF t
<1>5. Range(t) = Range(s) \cup {c}
  <2>1. \A i \in 1..(Len(s) + 1) : t[i] \in Range(s) \cup {c}
    BY <1>2, <1>3, <1>4, ElementsOf
  <2>2. \A i \in 1..Len(s) : s[i] \in Range(t)
    <3> SUFFICES ASSUME NEW i \in 1..Len(s) PROVE s[i] \in Range(t)  OBVIOUS
    <3>1. i \in DOMAIN t /\ t[i] = s[i]  BY <1>2, <1>4
    <3> QED  BY <3>1 DEF Range
  <2>3. c \in Range(t)
    <3>1. Len(s) + 1 \in DOMAIN t  BY <1>4
    <3> QED  BY <3>1, <1>3 DEF Range
  <2>4. Range(t) \subseteq Range(s) \cup {c}  BY <2>1, <1>4 DEF Range
  <2>5. Range(s) \subseteq Range(t)  BY <2>2, <1>4 DEF Range
  <2> QED  BY <2>3, <2>4, <2>5
<1>6. IsInjective(t)
  <2> SUFFICES ASSUME NEW i \in 1..(Len(s) + 1), NEW j \in 1..(Len(s) + 1), t[i] = t[j]
      PROVE  i = j
    BY <1>4 DEF IsInjective
  <2>1. CASE i \in 1..Len(s) /\ j \in 1..Len(s)
    BY <2>1, <1>2, <1>4 DEF IsInjective
  <2>2. CASE i = Len(s) + 1 /\ j \in 1..Len(s)
    BY <2>2, <1>2, <1>3, ElementsOf
  <2>3. CASE j = Len(s) + 1 /\ i \in 1..Len(s)
    BY <2>3, <1>2, <1>3, ElementsOf
  <2> QED  BY <2>1, <2>2, <2>3, <1>4
<1>7. t # <<>>  BY <1>1, <1>4, ElementsOf
<1> QED  BY <1>1, <1>2, <1>3, <1>5, <1>6, <1>7 DEF t

(* The list with a chunk linked behind its tail.                           *)
LEMMA ListAppend ==
  ASSUME NEW s \in Seq(Chunk), NEW c \in Chunk, c \notin Range(s), IsInjective(s),
         NEW f \in [Chunk -> Chunk \cup {NULL}], NEW g, NEW h, Links(f, h, s),
         \/ s = <<>> /\ g = [f EXCEPT ![c] = NULL]
         \/ s # <<>> /\ g = [f EXCEPT ![c] = NULL, ![s[Len(s)]] = c]
  PROVE  /\ Links(g, IF s = <<>> THEN c ELSE h, Append(s, c))
         /\ g \in [Chunk -> Chunk \cup {NULL}]
         /\ \A d \in Chunk : d # c /\ d \notin Range(s) => g[d] = f[d]
<1> DEFINE t == Append(s, c)
           n == Len(s)
<1>0. /\ n \in Nat /\ Len(t) = n + 1 /\ t # <<>>
      /\ \A i \in 1..n : t[i] = s[i] /\ s[i] \in Chunk /\ s[i] \in Range(s) /\ s[i] # c
      /\ t[n + 1] = c
  BY AppendNoRepeat, ElementsOf
<1>1. CASE s = <<>>
  <2>1. n = 0 /\ t[1] = c  BY <1>0, <1>1, ElementsOf
  <2>2. g = [f EXCEPT ![c] = NULL]  BY <1>1
  <2> HIDE DEF t, n
  <2>3. Links(g, c, t)  BY <1>0, <2>1, <2>2 DEF Links
  <2> QED  BY <1>1, <2>2, <2>3 DEF t
<1>2. CASE s # <<>>
  <2>1. n \in 1..n /\ 1 \in 1..n  BY <1>0, <1>2, ElementsOf
  <2>2. g = [f EXCEPT ![c] = NULL, ![s[n]] = c]  BY <1>2
  <2>3. h = s[1]  BY <1>2 DEF Links
  <2>4. \A i \in 1..n : i # n => s[i] # s[n]
    BY <2>1, ElementsOf DEF IsInjective
  <2>5. \A i \in 1..n : i # n => f[s[i]] = s[i + 1]
    BY DEF Links
  <2> HIDE DEF t, n
  <2>6. s[n] \in Chunk /\ s[n] # c /\ s[n] \in Range(s)  BY <1>0, <2>1
  <2>7. g[c] = NULL /\ g[s[n]] = c /\ \A d \in Chunk : d # c /\ d # s[n] => g[d] = f[d]
    BY <2>2, <2>6
  <2>8. ASSUME NEW i \in 1..(n + 1)
        PROVE  g[t[i]] = IF i = n + 1 THEN NULL ELSE t[i + 1]
    <3>1. CASE i = n + 1  BY <3>1, <1>0, <2>7
    <3>2. CASE i = n  BY <3>2, <1>0, <2>1, <2>7
    <3>3. CASE i \in 1..n /\ i # n
      <4>1. i + 1 \in 1..n  BY <3>3, <1>0
      <4> QED  BY <3>3, <4>1, <1>0, <2>4, <2>5, <2>7
    <3> QED  BY <3>1, <3>2, <3>3, <1>0
  <2>9. h = t[1]  BY <1>0, <2>1, <2>3
  <2>10. Links(g, h, t)  BY <1>0, <2>8, <2>9 DEF Links
  <2>11. g \in [Chunk -> Chunk \cup {NULL}]  BY <2>2, <2>6
  <2> QED  BY <1>2, <2>6, <2>7, <2>10, <2>11 DEF t
<1> QED  BY <1>1, <1>2

(* The list without its first chunk.                                       *)
LEMMA ListTail ==
  ASSUME NEW s \in Seq(Chunk), s # <<>>, IsInjective(s), NEW f, NEW h, Links(f, h, s)
  PROVE  /\ Tail(s) \in Seq(Chunk) /\ Len(Tail(s)) = Len(s) - 1
         /\ SubSeq(s, 2, Len(s)) = Tail(s)
         /\ Links(f, f[h], Tail(s))
         /\ IsInjective(Tail(s))
         /\ Range(Tail(s)) = Range(s) \ {h}
         /\ Tail(s) # <<>> => Tail(s)[Len(Tail(s))] = s[Len(s)]
<1> DEFINE t == Tail(s)
           n == Len(s)
<1>0. n \in Nat /\ n # 0 /\ 1 \in 1..n /\ DOMAIN s = 1..n
  BY ElementsOf
<1>1. t \in Seq(Chunk) /\ Len(t) = n - 1 /\ \A i \in 1..(n - 1) : t[i] = s[i + 1]
  BY HeadTailProperties
<1>2. SubSeq(s, 2, n) = t
  <2>1. SubSeq(s, 2, n) \in Seq(Chunk) /\ Len(SubSeq(s, 2, n)) = n - 1
        /\ \A i \in 1..(n - 1) : SubSeq(s, 2, n)[i] = s[i + 1]
    BY <1>0, SubSeqProperties
  <2> QED  BY <1>0, <1>1, <2>1, SeqEqual
<1>3. DOMAIN t = 1..(n - 1)  BY <1>0, <1>1, ElementsOf
<1>4. h = s[1]  BY DEF Links
<1>a. \A i \in 1..n : f[s[i]] = IF i = n THEN NULL ELSE s[i + 1]  BY DEF Links
<1>b. \A i \in 1..n : s[i] \in Range(s)  BY ElementsOf
<1>c. \A d \in Range(s) : \E i \in 1..n : s[i] = d  BY ElementsOf
<1>d. \A i, j \in 1..n : s[i] = s[j] => i = j  BY <1>0 DEF IsInjective
<1> HIDE DEF t, n
<1>5. Links(f, f[h], t)
  <2>1. f[h] = IF n = 1 THEN NULL ELSE s[2]
    <3>1. f[s[1]] = IF 1 = n THEN NULL ELSE s[1 + 1]  BY <1>0, <1>a
    <3> QED  BY <3>1, <1>4
  <2>2. t = <<>> <=> n = 1  BY <1>0, <1>1, ElementsOf
  <2>3. n # 1 => t[1] = s[2]
    <3>1. n # 1 => 1 \in 1..(n - 1) /\ 1 + 1 = 2  BY <1>0
    <3> QED  BY <3>1, <1>1
  <2>4. ASSUME NEW i \in 1..(n - 1)
        PROVE  f[t[i]] = IF i = n - 1 THEN NULL ELSE t[i + 1]
    <3>1. i + 1 \in 1..n /\ i \in Nat  BY <1>0
    <3>2. f[s[i + 1]] = IF i + 1 = n THEN NULL ELSE s[i + 1 + 1]  BY <3>1, <1>a
    <3>3. i # n - 1 => i + 1 \in 1..(n - 1)  BY <1>0, <3>1
    <3> QED  BY <3>1, <3>2, <3>3, <1>0, <1>1
  <2> QED  BY <2>1, <2>2, <2>3, <2>4, <1>1 DEF Links
<1>6. IsInjective(t)
  <2> SUFFICES ASSUME NEW i \in 1..(n - 1), NEW j \in 1..(n - 1), t[i] = t[j]
      PROVE  i = j
    BY <1>3 DEF IsInjective
  <2>1. i + 1 \in 1..n /\ j + 1 \in 1..n /\ s[i + 1] = s[j + 1]  BY <1>0, <1>1
  <2>2. i + 1 = j + 1  BY <2>1, <1>d
  <2> QED  BY <2>2
<1>7. Range(t) = Range(s) \ {h}
  <2>1. ASSUME NEW i \in 1..(n - 1) PROVE t[i] \in Range(s) \ {h}
    <3>1. i + 1 \in 1..n /\ i + 1 # 1  BY <1>0
    <3>2. s[i + 1] # s[1]  BY <3>1, <1>0, <1>d
    <3> QED  BY <3>1, <3>2, <1>1, <1>4, <1>b
  <2>2. ASSUME NEW k \in 1..n, s[k] # h PROVE s[k] \in Range(t)
    <3>1. k - 1 \in 1..(n - 1) /\ (k - 1) + 1 = k  BY <2>2, <1>0, <1>4
    <3>2. t[k - 1] = s[k]  BY <3>1, <1>1
    <3> QED  BY <3>1, <3>2, <1>3 DEF Range
  <2>3. Range(t) \subseteq Range(s) \ {h}  BY <2>1, <1>3 DEF Range
  <2>4. Range(s) \ {h} \subseteq Range(t)  BY <2>2, <1>c
  <2> QED  BY <2>3, <2>4
<1>8. t # <<>> => t[Len(t)] = s[n]
  <2>1. t # <<>> => n - 1 \in 1..(n - 1)  BY <1>0, <1>1, ElementsOf
  <2> QED  BY <2>1, <1>0, <1>1
<1> QED  BY <1>1, <1>2, <1>5, <1>6, <1>7, <1>8 DEF t, n

-----------------------------------------------------------------------------
(* The invariant.  Core is what the lists and the heap have to do with     *)
(* each other; only together do its parts survive a step.                  *)
Core ==
  /\ Linked(mpHead, pool)
  /\ pool # <<>> => mpTail = pool[Len(pool)]
  /\ SlabsExact
  /\ ChunksConserved
  /\ IsFiniteSet(UsedChunks)
  /\ PoolZeroed

(* The part of the types that is about them.                               *)
DataOK ==
  /\ next \in [Chunk -> Chunk \cup {NULL}]
  /\ live \subseteq Chunk
  /\ dirty \subseteq Chunk
  /\ mpHead \in Chunk \cup {NULL}
  /\ mpTail \in Chunk \cup {NULL}
  /\ slabs \subseteq Slab
  /\ slabHead \in [Slab -> Chunk \cup {NULL}]
  /\ slabTail \in [Slab -> Chunk \cup {NULL}]
  /\ pool \in Seq(Chunk)
  /\ content \in [Slab -> Seq(Chunk)]

ScalarOK ==
  /\ pc \in {"build", "fill", "free", "shrink", "grow", "idle"}
  /\ cur \in Slab \cup {NULL}
  /\ num \in Int
  /\ todo \in Nat
  /\ mpTotal \in Nat
  /\ chunkUsedNum \in 0..option.load
  /\ option \in Options

LEMMA TypeParts == TypeOK <=> DataOK /\ ScalarOK
BY DEF TypeOK, DataOK, ScalarOK

(* Where the loops are.                                                    *)
Building ==
  pc = "build" =>
    /\ Len(pool) + todo = option.size
    /\ pool = <<>> => mpTail = NULL
Counted == pc # "build" => mpTotal = Len(pool)
Working == pc \in {"fill", "free"} => cur \in slabs
Tuning ==
  /\ pc \in {"shrink", "grow"} => option.aomp /\ num + Reserve >= 0
  /\ pc = "shrink" => mpTotal = num + Reserve + todo
  /\ pc = "grow" => mpTotal + todo = num + Reserve

(* With -a the pool is never drained, not even by what a request may still *)
(* take while the pool shrinks.                                            *)
Enough ==
  option.aomp =>
    /\ pc # "build" => Len(pool) + chunkUsedNum > option.load
    /\ pc = "shrink" => num + Reserve + chunkUsedNum > option.load

Inv ==
  /\ DataOK /\ ScalarOK /\ Core
  /\ Building /\ Counted /\ Working /\ Tuning /\ Enough

-----------------------------------------------------------------------------
(* The chunks of a slab are used, and all used chunks are chunks.          *)
LEMMA UsedAre ==
  ASSUME DataOK
  PROVE  /\ \A s \in Slab : Range(content[s]) \subseteq UsedChunks
         /\ \A c \in UsedChunks : \E s \in Slab : c \in Range(content[s])
         /\ UsedChunks \subseteq Chunk
         /\ \A s \in Slab : content[s] \in Seq(Chunk)
<1>1. \A s \in Slab : content[s] \in Seq(Chunk)  BY DEF DataOK
<1>2. \A s \in Slab : Range(content[s]) \subseteq Chunk  BY <1>1, ElementsOf
<1> QED  BY <1>1, <1>2 DEF UsedChunks

(* insertMemSlab of a chunk that no request has.                           *)
LEMMA FillSlab ==
  ASSUME DataOK, SlabsExact, ChunksConserved, IsFiniteSet(UsedChunks),
         NEW s \in Slab, NEW c \in Chunk, c \notin UsedChunks,
         InsertMemSlab(s, c, next), slabs' = slabs \cup {s},
         content' = [content EXCEPT ![s] = Append(@, slabTail'[s])]
  PROVE  /\ next' \in [Chunk -> Chunk \cup {NULL}]
         /\ slabs' \subseteq Slab
         /\ slabHead' \in [Slab -> Chunk \cup {NULL}]
         /\ slabTail' \in [Slab -> Chunk \cup {NULL}]
         /\ content' \in [Slab -> Seq(Chunk)]
         /\ SlabsExact'
         /\ UsedChunks' = UsedChunks \cup {c}
         /\ IsFiniteSet(UsedChunks')
         /\ Cardinality(UsedChunks') = Cardinality(UsedChunks) + 1
         /\ \A t, u \in Slab : t # u => Range(content'[t]) \cap Range(content'[u]) = {}
         /\ \A t \in Slab : IsInjective(content'[t])
         /\ \A d \in Chunk \ UsedChunks : d # c => next'[d] = next[d]
<1> DEFINE l == content[s]
<1>1. /\ l \in Seq(Chunk) /\ Range(l) \subseteq UsedChunks /\ IsInjective(l)
      /\ c \notin Range(l)
  BY UsedAre DEF ChunksConserved
<1>2. Links(next, slabHead[s], l)  BY DEF SlabsExact, Linked, Links
<1>3. l # <<>> => slabTail[s] = l[Len(l)] /\ slabTail[s] \in Chunk
  <2>1. l # <<>> => Len(l) \in 1..Len(l)  BY <1>1, ElementsOf
  <2>2. l # <<>> => s \in slabs  BY DEF SlabsExact
  <2> QED  BY <1>1, <2>1, <2>2, ElementsOf DEF SlabsExact
<1>4. (slabHead[s] = NULL \/ slabTail[s] = NULL) <=> l = <<>>
  BY <1>1, <1>2, <1>3, ListHead, NullAssumption
<1>5. slabTail' = [slabTail EXCEPT ![s] = c]  BY DEF InsertMemSlab
<1>6. slabHead' = [slabHead EXCEPT ![s] = IF l = <<>> THEN c ELSE slabHead[s]]
  <2>1. CASE l = <<>>  BY <1>4, <2>1 DEF InsertMemSlab
  <2>2. CASE l # <<>>  BY <1>4, <2>2 DEF InsertMemSlab, DataOK
  <2> QED  BY <2>1, <2>2
<1>7. \/ l = <<>> /\ next' = [next EXCEPT ![c] = NULL]
      \/ l # <<>> /\ next' = [next EXCEPT ![c] = NULL, ![l[Len(l)]] = c]
  BY <1>3, <1>4 DEF InsertMemSlab
<1>8. content' = [content EXCEPT ![s] = Append(l, c)]
  BY <1>5 DEF DataOK
<1>9. /\ Links(next', IF l = <<>> THEN c ELSE slabHead[s], Append(l, c))
      /\ next' \in [Chunk -> Chunk \cup {NULL}]
      /\ \A d \in Chunk : d # c /\ d \notin Range(l) => next'[d] = next[d]
  <2>1. next \in [Chunk -> Chunk \cup {NULL}]  BY DEF DataOK
  <2> HIDE DEF l
  <2>2. /\ l \in Seq(Chunk) /\ c \notin Range(l) /\ IsInjective(l)
        /\ Links(next, slabHead[s], l)
    BY <1>1, <1>2
  <2> QED  BY <2>1, <2>2, <1>7, ListAppend
<1>10. /\ Append(l, c) \in Seq(Chunk) /\ Append(l, c) # <<>>
       /\ Append(l, c)[Len(Append(l, c))] = c
       /\ Range(Append(l, c)) = Range(l) \cup {c}
       /\ IsInjective(Append(l, c))
  BY <1>1, AppendNoRepeat
<1>11. /\ content' \in [Slab -> Seq(Chunk)]
       /\ content'[s] = Append(l, c)
       /\ \A t \in Slab : t # s => content'[t] = content[t]
  BY <1>8, <1>10 DEF DataOK
<1>12. /\ slabHead' \in [Slab -> Chunk \cup {NULL}] /\ slabTail' \in [Slab -> Chunk \cup {NULL}]
       /\ slabs' \subseteq Slab
       /\ slabTail'[s] = c /\ slabHead'[s] = IF l = <<>> THEN c ELSE slabHead[s]
       /\ \A t \in Slab : t # s => slabHead'[t] = slabHead[t] /\ slabTail'[t] = slabTail[t]
  BY <1>5, <1>6 DEF DataOK
<1> HIDE DEF l
<1>13. \A t \in Slab : t # s => \A d \in Range(content[t]) : d # c /\ d \notin Range(l) /\ d \in Chunk
  BY UsedAre DEF ChunksConserved, l
<1>14. ASSUME NEW t \in Slab PROVE Links(next', slabHead'[t], content'[t])
  <2>1. CASE t = s  BY <2>1, <1>9, <1>11, <1>12
  <2>2. CASE t # s
    <3>1. Links(next, slabHead[t], content[t])  BY DEF SlabsExact, Linked, Links
    <3>2. \A d \in Range(content[t]) : next'[d] = next[d]  BY <2>2, <1>9, <1>13
    <3>3. Links(next', slabHead[t], content[t])  BY <3>1, <3>2, UsedAre, ListFrame
    <3> QED  BY <2>2, <3>3, <1>11, <1>12
  <2> QED  BY <2>1, <2>2
<1>15. SlabsExact'
  <2>1. \A t \in Slab : Linked(slabHead[t], content[t])'
    BY <1>14 DEF Linked, Links
  <2>2. \A t \in slabs' : content'[t] # <<>> => slabTail'[t] = content'[t][Len(content'[t])]
    BY <1>10, <1>11, <1>12 DEF SlabsExact, DataOK
  <2>3. \A t \in Slab \ slabs' : content'[t] = <<>>
    BY <1>11 DEF SlabsExact
  <2> QED  BY <2>1, <2>2, <2>3 DEF SlabsExact
<1>16. UsedChunks' = UsedChunks \cup {c}
  <2>1. \A t \in Slab : Range(content'[t]) = IF t = s THEN Range(content[s]) \cup {c}
                                                   ELSE Range(content[t])
    BY <1>10, <1>11 DEF l
  <2> QED  BY <2>1 DEF UsedChunks
<1>17. IsFiniteSet(UsedChunks') /\ Cardinality(UsedChunks') = Cardinality(UsedChunks) + 1
  BY <1>16, FS_AddElement
<1>18. \A t, u \in Slab : t # u => Range(content'[t]) \cap Range(content'[u]) = {}
  <2> SUFFICES ASSUME NEW t \in Slab, NEW u \in Slab, t # u
      PROVE  Range(content'[t]) \cap Range(content'[u]) = {}
    OBVIOUS
  <2>1. CASE t = s  BY <2>1, <1>10, <1>11, <1>13
  <2>2. CASE u = s  BY <2>2, <1>10, <1>11, <1>13
  <2>3. CASE t # s /\ u # s  BY <2>3, <1>11 DEF ChunksConserved
  <2> QED  BY <2>1, <2>2, <2>3
<1>19. \A t \in Slab : IsInjective(content'[t])
  BY <1>10, <1>11 DEF ChunksConserved
<1>20. \A d \in Chunk \ UsedChunks : d # c => next'[d] = next[d]
  BY <1>1, <1>9
<1> QED  BY <1>9, <1>11, <1>12, <1>15, <1>16, <1>17, <1>18, <1>19, <1>20

(* mpalloc and insertMemSlab: a chunk goes from the pool, or fresh from    *)
(* malloc, to the request that is read.                                    *)
LEMMA TakeChunk ==
  ASSUME DataOK, Core, NEW s \in Slab, slabs' = slabs \cup {s}, Taken(s),
         (\E c \in Chunk : TakeFresh(s, c)) \/ TakePooled(s)
  PROVE  /\ DataOK' /\ Core'
         /\ chunkUsedNum' = chunkUsedNum + 1
         /\ Len(pool') + chunkUsedNum' >= Len(pool) + chunkUsedNum
         /\ mpTotal = Len(pool) => mpTotal' = Len(pool')
<1>0. /\ pool \in Seq(Chunk) /\ Links(next, mpHead, pool) /\ IsInjective(pool)
      /\ Range(pool) \cap UsedChunks = {} /\ Range(pool) \subseteq Chunk
      /\ chunkUsedNum = Cardinality(UsedChunks) /\ chunkUsedNum \in Nat
      /\ Len(pool) \in Nat
  BY ElementsOf, FS_CardinalityType DEF DataOK, Core, Linked, Links, ChunksConserved
<1>1. content' = [content EXCEPT ![s] = Append(@, slabTail'[s])]
      /\ pool' = IF pool = <<>> THEN <<>> ELSE Tail(pool)
  BY DEF Taken
<1>2. ASSUME NEW c \in Chunk, TakeFresh(s, c)
      PROVE  /\ DataOK' /\ Core'
             /\ chunkUsedNum' = chunkUsedNum + 1
             /\ Len(pool') + chunkUsedNum' >= Len(pool) + chunkUsedNum
             /\ mpTotal = Len(pool) => mpTotal' = Len(pool')
  <2>1. /\ mpHead = NULL /\ mpHead' = NULL /\ mpTail' = NULL /\ mpTotal' = mpTotal
        /\ live' = live \cup {c} /\ dirty' = dirty \cup {c}
        /\ chunkUsedNum' = chunkUsedNum + 1
        /\ InsertMemSlab(s, c, next)
    BY <1>2 DEF TakeFresh
  <2>2. c \notin live
    <3>1. Chunk \ live \in SUBSET Chunk  OBVIOUS
    <3>2. Malloc(Chunk \ live) \subseteq Chunk \ live  BY <3>1, MallocAssumption
    <3> QED  BY <1>2, <3>2 DEF TakeFresh
  <2>3. c \notin UsedChunks /\ live = Range(pool) \cup UsedChunks
    BY <2>2 DEF Core, ChunksConserved
  <2>4. pool = <<>> /\ pool' = <<>>  BY <1>0, <1>1, <2>1, ListHead
  <2>5. Range(pool) = {} /\ Range(pool') = {} /\ Len(pool') = 0 /\ IsInjective(pool')
        /\ pool' \in Seq(Chunk)
    BY <2>4, <1>0, ElementsOf
  <2>6. /\ next' \in [Chunk -> Chunk \cup {NULL}]
        /\ slabs' \subseteq Slab
        /\ slabHead' \in [Slab -> Chunk \cup {NULL}]
        /\ slabTail' \in [Slab -> Chunk \cup {NULL}]
        /\ content' \in [Slab -> Seq(Chunk)]
        /\ SlabsExact'
        /\ UsedChunks' = UsedChunks \cup {c}
        /\ IsFiniteSet(UsedChunks')
        /\ Cardinality(UsedChunks') = Cardinality(UsedChunks) + 1
        /\ \A t, u \in Slab : t # u => Range(content'[t]) \cap Range(content'[u]) = {}
        /\ \A t \in Slab : IsInjective(content'[t])
    BY <1>1, <2>1, <2>3, FillSlab DEF Core
  <2>7. DataOK'  BY <2>1, <2>5, <2>6 DEF DataOK
  <2>8. Linked(mpHead, pool)'
    BY <2>1, <2>4, <2>5 DEF Linked
  <2>9. ChunksConserved'
    BY <1>0, <2>1, <2>3, <2>5, <2>6 DEF ChunksConserved
  <2>10. Core'  BY <2>4, <2>5, <2>6, <2>8, <2>9 DEF Core, PoolZeroed
  <2> QED  BY <1>0, <2>1, <2>4, <2>7, <2>10
<1>3. ASSUME TakePooled(s)
      PROVE  /\ DataOK' /\ Core'
             /\ chunkUsedNum' = chunkUsedNum + 1
             /\ Len(pool') + chunkUsedNum' >= Len(pool) + chunkUsedNum
             /\ mpTotal = Len(pool) => mpTotal' = Len(pool')
  <2>1. /\ mpHead # NULL /\ mpHead' = next[mpHead] /\ mpTail' = mpTail
        /\ mpTotal' = mpTotal - 1
        /\ live' = live /\ dirty' = dirty \cup {mpHead}
        /\ chunkUsedNum' = chunkUsedNum + 1
        /\ InsertMemSlab(s, mpHead, next)
    BY <1>3 DEF TakePooled
  <2>2. /\ pool # <<>> /\ mpHead \in Chunk /\ mpHead \in Range(pool)
        /\ mpHead \notin UsedChunks
    BY <1>0, <2>1, ListHead
  <2>3. pool' = Tail(pool)  BY <1>1, <2>2
  <2>4. /\ pool' \in Seq(Chunk) /\ Len(pool') = Len(pool) - 1
        /\ Links(next, next[mpHead], pool')
        /\ IsInjective(pool') /\ Range(pool') = Range(pool) \ {mpHead}
        /\ pool' # <<>> => pool'[Len(pool')] = pool[Len(pool)]
    BY <1>0, <2>2, <2>3, ListTail
  <2>5. /\ next' \in [Chunk -> Chunk \cup {NULL}]
        /\ slabs' \subseteq Slab
        /\ slabHead' \in [Slab -> Chunk \cup {NULL}]
        /\ slabTail' \in [Slab -> Chunk \cup {NULL}]
        /\ content' \in [Slab -> Seq(Chunk)]
        /\ SlabsExact'
        /\ UsedChunks' = UsedChunks \cup {mpHead}
        /\ IsFiniteSet(UsedChunks')
        /\ Cardinality(UsedChunks') = Cardinality(UsedChunks) + 1
        /\ \A t, u \in Slab : t # u => Range(content'[t]) \cap Range(content'[u]) = {}
        /\ \A t \in Slab : IsInjective(content'[t])
        /\ \A d \in Chunk \ UsedChunks : d # mpHead => next'[d] = next[d]
    BY <1>1, <2>1, <2>2, FillSlab DEF Core
  <2>6. next[mpHead] \in Chunk \cup {NULL}  BY <2>2 DEF DataOK
  <2>7. DataOK'  BY <2>1, <2>2, <2>4, <2>5, <2>6 DEF DataOK
  <2>8. Linked(mpHead, pool)'
    <3>1. \A d \in Range(pool') : next'[d] = next[d]  BY <1>0, <2>4, <2>5
    <3>2. Links(next', next[mpHead], pool')  BY <2>4, <3>1, ListFrame
    <3> QED  BY <2>1, <3>2 DEF Linked, Links
  <2>9. (pool # <<>> => mpTail = pool[Len(pool)])'
    BY <2>1, <2>2, <2>4 DEF Core
  <2>10. ChunksConserved'
    <3>1. live' = Range(pool') \cup UsedChunks'
      BY <2>1, <2>2, <2>4, <2>5 DEF Core, ChunksConserved
    <3>2. Range(pool') \cap UsedChunks' = {}  BY <1>0, <2>4, <2>5
    <3>3. chunkUsedNum' = Cardinality(UsedChunks')  BY <1>0, <2>1, <2>5
    <3> QED  BY <2>4, <2>5, <3>1, <3>2, <3>3 DEF ChunksConserved
  <2>11. PoolZeroed'  BY <2>1, <2>4 DEF Core, PoolZeroed
  <2>12. Core'  BY <2>5, <2>8, <2>9, <2>10, <2>11 DEF Core
  <2> QED  BY <1>0, <2>1, <2>4, <2>7, <2>12
<1> QED  BY <1>2, <1>3

(* createMemPool and tuneMempool: a chunk malloc has given goes behind the *)
(* tail.                                                                   *)
LEMMA AppendChunk ==
  ASSUME DataOK, Core, pool = <<>> => mpTail = NULL, NEW c \in Chunk, AppendNew(c),
         pool' = Append(pool, c), content' = content, UNCHANGED <<chunkUsedNum, slab>>
  PROVE  DataOK' /\ Core' /\ Len(pool') = Len(pool) + 1 /\ pool' # <<>>
<1>0. /\ pool \in Seq(Chunk) /\ Links(next, mpHead, pool) /\ IsInjective(pool)
      /\ Range(pool) \cap UsedChunks = {} /\ live = Range(pool) \cup UsedChunks
  BY DEF DataOK, Core, Linked, Links, ChunksConserved
<1>1. c \notin live
  <2>1. Chunk \ live \in SUBSET Chunk  OBVIOUS
  <2>2. Malloc(Chunk \ live) \subseteq Chunk \ live  BY <2>1, MallocAssumption
  <2> QED  BY <2>2 DEF AppendNew
<1>2. mpTail = NULL <=> pool = <<>>
  <2>1. pool # <<>> => Len(pool) \in 1..Len(pool)  BY <1>0, ElementsOf
  <2>2. pool # <<>> => mpTail \in Chunk  BY <1>0, <2>1, ElementsOf DEF Core
  <2> QED  BY <2>2, NullAssumption
<1>3. /\ \/ pool = <<>> /\ next' = [next EXCEPT ![c] = NULL]
         \/ pool # <<>> /\ next' = [next EXCEPT ![c] = NULL, ![pool[Len(pool)]] = c]
      /\ mpHead' = IF pool = <<>> THEN c ELSE mpHead
      /\ mpTail' = c /\ live' = live \cup {c} /\ dirty' = dirty \ {c}
  BY <1>2 DEF AppendNew, Core
<1>4. /\ pool' \in Seq(Chunk) /\ pool' # <<>> /\ Len(pool') = Len(pool) + 1
      /\ pool'[Len(pool')] = c
      /\ Range(pool') = Range(pool) \cup {c} /\ IsInjective(pool')
  BY <1>0, <1>1, AppendNoRepeat
<1>5. /\ Links(next', mpHead', pool')
      /\ next' \in [Chunk -> Chunk \cup {NULL}]
      /\ \A d \in Chunk : d # c /\ d \notin Range(pool) => next'[d] = next[d]
  <2>1. next \in [Chunk -> Chunk \cup {NULL}]  BY DEF DataOK
  <2>2. c \notin Range(pool)  BY <1>0, <1>1
  <2>3. /\ Links(next', IF pool = <<>> THEN c ELSE mpHead, Append(pool, c))
        /\ next' \in [Chunk -> Chunk \cup {NULL}]
        /\ \A d \in Chunk : d # c /\ d \notin Range(pool) => next'[d] = next[d]
    BY <1>0, <1>3, <2>1, <2>2, ListAppend
  <2> QED  BY <1>3, <2>3
<1>6. UsedChunks' = UsedChunks  BY DEF UsedChunks
<1>7. SlabsExact'
  <2>1. ASSUME NEW t \in Slab PROVE Links(next', slabHead[t], content[t])
    <3>1. Links(next, slabHead[t], content[t])  BY DEF Core, SlabsExact, Linked, Links
    <3>2. \A d \in Range(content[t]) : next'[d] = next[d]
      BY <1>0, <1>1, <1>5, UsedAre
    <3> QED  BY <3>1, <3>2, UsedAre, ListFrame
  <2> QED  BY <2>1 DEF Core, SlabsExact, Linked, Links, slab
<1>8. DataOK'  BY <1>3, <1>4, <1>5 DEF DataOK, slab
<1>9. ChunksConserved'
  BY <1>0, <1>1, <1>3, <1>4, <1>6 DEF Core, ChunksConserved
<1>10. PoolZeroed'  BY <1>3, <1>4 DEF Core, PoolZeroed
<1> QED  BY <1>3, <1>4, <1>5, <1>6, <1>7, <1>8, <1>9, <1>10 DEF Core, Linked, Links

(* mpfree of the first chunk of a slab, which goes behind the pool's tail. *)
LEMMA ReturnChunk ==
  ASSUME DataOK, Core, mpTotal = Len(pool), cur \in slabs, LFreeChunk
  PROVE  /\ DataOK' /\ Core'
         /\ Len(pool') = Len(pool) + 1
         /\ chunkUsedNum' = chunkUsedNum - 1 /\ chunkUsedNum' \in Nat
<1> DEFINE l == content[cur]
           c == slabHead[cur]
<1>0. /\ pool \in Seq(Chunk) /\ Links(next, mpHead, pool) /\ IsInjective(pool)
      /\ Range(pool) \cap UsedChunks = {} /\ live = Range(pool) \cup UsedChunks
      /\ chunkUsedNum = Cardinality(UsedChunks) /\ chunkUsedNum \in Nat
      /\ mpTotal = 0 <=> pool = <<>>
  BY ElementsOf, FS_CardinalityType DEF DataOK, Core, Linked, Links, ChunksConserved
<1>1. /\ cur \in Slab /\ l \in Seq(Chunk) /\ IsInjective(l) /\ Links(next, c, l)
      /\ Range(l) \subseteq UsedChunks
  BY UsedAre DEF DataOK, Core, SlabsExact, Linked, Links, ChunksConserved
<1>2. c # NULL /\ slabHead' = [slabHead EXCEPT ![cur] = next[c]] /\ dirty' = dirty \ {c}
      /\ slabTail' = slabTail /\ slabs' = slabs /\ live' = live /\ cur' = cur
      /\ mpHead' = (IF mpTotal = 0 THEN c ELSE mpHead) /\ mpTail' = c
      /\ next' = (IF mpTotal = 0 THEN [next EXCEPT ![c] = NULL]
                                 ELSE [next EXCEPT ![c] = NULL, ![mpTail] = c])
      /\ chunkUsedNum' = chunkUsedNum - 1
      /\ pool' = Append(pool, c)
      /\ content' = [content EXCEPT ![cur] = SubSeq(@, 2, Len(@))]
  BY DEF LFreeChunk, FreeChunk
<1> HIDE DEF c
<1>3. l # <<>> /\ c \in Chunk /\ c \in Range(l) /\ c \in UsedChunks /\ c \notin Range(pool)
  BY <1>0, <1>1, <1>2, ListHead
<1>4. /\ Tail(l) \in Seq(Chunk) /\ SubSeq(l, 2, Len(l)) = Tail(l)
      /\ Links(next, next[c], Tail(l)) /\ IsInjective(Tail(l))
      /\ Range(Tail(l)) = Range(l) \ {c}
      /\ Tail(l) # <<>> => Tail(l)[Len(Tail(l))] = l[Len(l)]
  BY <1>1, <1>3, ListTail
<1>5. /\ content' \in [Slab -> Seq(Chunk)]
      /\ content'[cur] = Tail(l)
      /\ \A t \in Slab : t # cur => content'[t] = content[t]
  BY <1>1, <1>2, <1>4 DEF DataOK
<1>6. /\ slabHead' \in [Slab -> Chunk \cup {NULL}]
      /\ slabHead'[cur] = next[c]
      /\ \A t \in Slab : t # cur => slabHead'[t] = slabHead[t]
  BY <1>1, <1>2, <1>3 DEF DataOK
<1>7. /\ pool' \in Seq(Chunk) /\ pool' # <<>> /\ Len(pool') = Len(pool) + 1
      /\ pool'[Len(pool')] = c
      /\ Range(pool') = Range(pool) \cup {c} /\ IsInjective(pool')
  BY <1>0, <1>2, <1>3, AppendNoRepeat
<1>8. \/ pool = <<>> /\ next' = [next EXCEPT ![c] = NULL]
      \/ pool # <<>> /\ next' = [next EXCEPT ![c] = NULL, ![pool[Len(pool)]] = c]
  BY <1>0, <1>2 DEF Core
<1>9. /\ Links(next', mpHead', pool')
      /\ next' \in [Chunk -> Chunk \cup {NULL}]
      /\ \A d \in Chunk : d # c /\ d \notin Range(pool) => next'[d] = next[d]
  <2>1. next \in [Chunk -> Chunk \cup {NULL}]  BY DEF DataOK
  <2>2. /\ Links(next', IF pool = <<>> THEN c ELSE mpHead, Append(pool, c))
        /\ next' \in [Chunk -> Chunk \cup {NULL}]
        /\ \A d \in Chunk : d # c /\ d \notin Range(pool) => next'[d] = next[d]
    BY <1>0, <1>3, <1>8, <2>1, ListAppend
  <2> QED  BY <1>0, <1>2, <2>2
<1> HIDE DEF l
<1>10. \A t \in Slab : t # cur => c \notin Range(content[t])
  BY <1>1, <1>3 DEF Core, ChunksConserved, l
<1>11. \A t \in Slab : Range(content'[t]) = IF t = cur THEN Range(content[t]) \ {c}
                                                       ELSE Range(content[t])
  BY <1>4, <1>5 DEF l
<1>12. UsedChunks' = UsedChunks \ {c}
  BY <1>10, <1>11 DEF UsedChunks
<1>13. IsFiniteSet(UsedChunks') /\ Cardinality(UsedChunks') = Cardinality(UsedChunks) - 1
  BY <1>3, <1>12, FS_RemoveElement DEF Core
<1>14. Cardinality(UsedChunks') \in Nat  BY <1>13, FS_CardinalityType
<1>15. ASSUME NEW t \in Slab PROVE Links(next', slabHead'[t], content'[t])
  <2>1. Links(next, slabHead'[t], content'[t])
    <3>1. CASE t = cur  BY <3>1, <1>4, <1>5, <1>6
    <3>2. CASE t # cur
      BY <3>2, <1>5, <1>6 DEF Core, SlabsExact, Linked, Links
    <3> QED  BY <3>1, <3>2
  <2>2. \A d \in Range(content'[t]) : d # c /\ d \in UsedChunks
    BY <1>10, <1>11, UsedAre
  <2>3. \A d \in Range(content'[t]) : next'[d] = next[d]
    BY <1>0, <1>9, <2>2, UsedAre
  <2>4. content'[t] \in Seq(Chunk)  BY <1>5
  <2> QED  BY <2>1, <2>3, <2>4, ListFrame
<1>16. SlabsExact'
  <2>1. \A t \in Slab : Linked(slabHead[t], content[t])'
    BY <1>15 DEF Linked, Links
  <2>2. \A t \in slabs : content'[t] # <<>> => slabTail[t] = content'[t][Len(content'[t])]
    BY <1>3, <1>4, <1>5 DEF Core, SlabsExact, DataOK, l
  <2>3. \A t \in Slab \ slabs : content'[t] = <<>>
    BY <1>5 DEF Core, SlabsExact
  <2> QED  BY <1>2, <2>1, <2>2, <2>3 DEF SlabsExact
<1>17. ChunksConserved'
  <2>1. live' = Range(pool') \cup UsedChunks'  BY <1>0, <1>2, <1>3, <1>7, <1>12
  <2>2. Range(pool') \cap UsedChunks' = {}  BY <1>0, <1>7, <1>12
  <2>3. \A t, u \in Slab : t # u => Range(content'[t]) \cap Range(content'[u]) = {}
    <3>1. \A t, u \in Slab : t # u => Range(content[t]) \cap Range(content[u]) = {}
      BY DEF Core, ChunksConserved
    <3> QED  BY <3>1, <1>11
  <2>4. \A t \in Slab : IsInjective(content'[t])
    BY <1>4, <1>5 DEF Core, ChunksConserved
  <2>5. chunkUsedNum' = Cardinality(UsedChunks')  BY <1>0, <1>2, <1>13
  <2> QED  BY <1>7, <2>1, <2>2, <2>3, <2>4, <2>5 DEF ChunksConserved
<1>18. PoolZeroed'  BY <1>2, <1>7 DEF Core, PoolZeroed
<1>19. DataOK'  BY <1>0, <1>2, <1>3, <1>5, <1>6, <1>7, <1>9 DEF DataOK
<1>20. Core'  BY <1>2, <1>7, <1>9, <1>13, <1>16, <1>17, <1>18 DEF Core, Linked, Links
<1> QED  BY <1>0, <1>2, <1>7, <1>13, <1>14, <1>19, <1>20

(* tuneMempool frees the first chunk of the pool.                          *)
LEMMA DropChunk ==
  ASSUME DataOK, Core, LShrinkChunk, mpHead # NULL
  PROVE  DataOK' /\ Core' /\ Len(pool') = Len(pool) - 1 /\ pool # <<>>
<1>0. /\ pool \in Seq(Chunk) /\ Links(next, mpHead, pool) /\ IsInjective(pool)
      /\ Range(pool) \cap UsedChunks = {} /\ live = Range(pool) \cup UsedChunks
  BY DEF DataOK, Core, Linked, Links, ChunksConserved
<1>1. /\ mpHead' = next[mpHead] /\ live' = live \ {mpHead}
      /\ next' = [next EXCEPT ![mpHead] = NULL]
      /\ dirty' = dirty /\ mpTail' = mpTail /\ chunkUsedNum' = chunkUsedNum
      /\ content' = content /\ UNCHANGED slab
      /\ pool' = SubSeq(pool, 2, Len(pool))
  BY DEF LShrinkChunk, ShrinkChunk
<1>2. /\ pool # <<>> /\ mpHead \in Chunk /\ mpHead \in Range(pool)
      /\ mpHead \notin UsedChunks
  BY <1>0, ListHead
<1>3. /\ pool' \in Seq(Chunk) /\ Len(pool') = Len(pool) - 1
      /\ Links(next, next[mpHead], pool')
      /\ IsInjective(pool') /\ Range(pool') = Range(pool) \ {mpHead}
      /\ pool' # <<>> => pool'[Len(pool')] = pool[Len(pool)]
  BY <1>0, <1>1, <1>2, ListTail
<1>4. /\ next' \in [Chunk -> Chunk \cup {NULL}] /\ next[mpHead] \in Chunk \cup {NULL}
      /\ \A d \in Chunk : d # mpHead => next'[d] = next[d]
  BY <1>1, <1>2, NullAssumption DEF DataOK
<1>5. Links(next', mpHead', pool')
  <2>1. \A d \in Range(pool') : next'[d] = next[d]  BY <1>0, <1>3, <1>4, ElementsOf
  <2> QED  BY <1>1, <1>3, <2>1, ListFrame
<1>6. UsedChunks' = UsedChunks  BY <1>1 DEF UsedChunks
<1>7. SlabsExact'
  <2>1. ASSUME NEW t \in Slab PROVE Links(next', slabHead[t], content[t])
    <3>1. Links(next, slabHead[t], content[t])  BY DEF Core, SlabsExact, Linked, Links
    <3>2. \A d \in Range(content[t]) : next'[d] = next[d]
      BY <1>2, <1>4, UsedAre
    <3> QED  BY <3>1, <3>2, UsedAre, ListFrame
  <2> QED  BY <1>1, <2>1 DEF Core, SlabsExact, Linked, Links, slab
<1>8. ChunksConserved'
  <2>1. live' = Range(pool') \cup UsedChunks'  BY <1>0, <1>1, <1>2, <1>3, <1>6
  <2>2. Range(pool') \cap UsedChunks' = {}  BY <1>0, <1>3, <1>6
  <2> QED  BY <1>1, <1>3, <1>6, <2>1, <2>2 DEF Core, ChunksConserved
<1>9. DataOK'  BY <1>1, <1>3, <1>4 DEF DataOK, slab
<1>10. PoolZeroed'  BY <1>1, <1>3 DEF Core, PoolZeroed
<1>11. (pool # <<>> => mpTail = pool[Len(pool)])'  BY <1>1, <1>2, <1>3 DEF Core
<1>12. Core'  BY <1>5, <1>6, <1>7, <1>8, <1>10, <1>11 DEF Core, Linked, Links
<1> QED  BY <1>2, <1>3, <1>9, <1>12

-----------------------------------------------------------------------------
(* Steps that leave the lists alone.                                       *)
LEMMA ListsStay ==
  ASSUME DataOK, Core, UNCHANGED <<heap, mpHead, mpTail, chunkUsedNum, slab, pool, content>>
  PROVE  DataOK' /\ Core'
BY DEF DataOK, Core, Linked, SlabsExact, ChunksConserved, UsedChunks, PoolZeroed, heap, slab

LEMMA OptionFacts ==
  ASSUME ScalarOK
  PROVE  /\ option.load \in Nat /\ option.size \in Nat \ {0} /\ option.aomp \in BOOLEAN
         /\ chunkUsedNum \in Nat /\ chunkUsedNum <= option.load
         /\ todo \in Nat /\ num \in Int /\ Reserve \in Nat /\ mpTotal \in Nat
BY OptionsAssumption, ReserveAssumption DEF ScalarOK

LEMMA PoolLength == ASSUME DataOK PROVE pool \in Seq(Chunk) /\ Len(pool) \in Nat
BY ElementsOf DEF DataOK

(* Inv holds before createMemPool has built anything.                      *)
LEMMA InitInv == LInit => Inv
<1> SUFFICES ASSUME LInit PROVE Inv  OBVIOUS
<1>1. pool = <<>> /\ content = [s \in Slab |-> <<>>] /\ <<>> \in Seq(Chunk)
  BY EmptySeq DEF LInit
<1>2. \A s \in Slab : content[s] = <<>>  BY <1>1
<1>3. Range(<<>>) = {} /\ Len(<<>>) = 0 /\ DOMAIN <<>> = {}
  <2>1. Range(<<>>) = {}  BY <1>1, ElementsOf
  <2>2. Len(<<>>) = 0 /\ DOMAIN <<>> = 1..Len(<<>>)  BY <1>1, ElementsOf
  <2> QED  BY <2>1, <2>2
<1>4. UsedChunks = {}  BY <1>2, <1>3 DEF UsedChunks
<1>5. IsFiniteSet(UsedChunks) /\ Cardinality(UsedChunks) = 0  BY <1>4, FS_EmptySet
<1>6. DataOK  BY <1>1 DEF LInit, Init, DataOK
<1>7. option \in Options /\ option.load \in Nat /\ option.size \in Nat
  BY OptionsAssumption DEF LInit, Init
<1>8. ScalarOK  BY <1>7 DEF LInit, Init, ScalarOK
<1>9. SlabsExact
  BY <1>2, <1>3 DEF LInit, Init, SlabsExact, Linked
<1>10. ChunksConserved
  BY <1>1, <1>2, <1>3, <1>4, <1>5 DEF LInit, Init, ChunksConserved, IsInjective
<1>11. Core
  BY <1>1, <1>3, <1>5, <1>9, <1>10 DEF LInit, Init, Core, Linked, PoolZeroed
<1>12. Building /\ Counted /\ Working /\ Tuning /\ Enough
  BY <1>1, <1>3, <1>7 DEF LInit, Init, Building, Counted, Working, Tuning, Enough
<1> QED  BY <1>6, <1>8, <1>11, <1>12 DEF Inv

(* Building the pool.                                                      *)
LEMMA BuildKeeps ==
  ASSUME SafeOptions, Inv, (\E c \in Chunk : LBuildChunk(c)) \/ LBuildDone
  PROVE  Inv'
<1> USE DEF Inv
<1>0. Len(pool) \in Nat /\ option \in Options  BY PoolLength DEF ScalarOK
<1>1. ASSUME NEW c \in Chunk, LBuildChunk(c) PROVE Inv'
  <2>1. /\ pc = "build" /\ pc' = "build" /\ todo > 0 /\ todo' = todo - 1 /\ AppendNew(c)
        /\ pool' = Append(pool, c) /\ content' = content
        /\ UNCHANGED <<cur, num, mpTotal, chunkUsedNum, slab, option>>
    BY <1>1 DEF LBuildChunk, BuildChunk
  <2>2. DataOK' /\ Core' /\ Len(pool') = Len(pool) + 1 /\ pool' # <<>>
    BY <2>1, AppendChunk DEF Building
  <2>3. ScalarOK'  BY <2>1, OptionFacts DEF ScalarOK
  <2>4. Building'  BY <1>0, <2>1, <2>2, OptionFacts DEF Building
  <2> QED  BY <2>1, <2>2, <2>3, <2>4 DEF Counted, Working, Tuning, Enough
<1>2. CASE LBuildDone
  <2>1. /\ pc = "build" /\ pc' = "idle" /\ todo = 0 /\ mpTotal' = option.size
        /\ UNCHANGED <<cur, num, todo, heap, mpHead, mpTail, chunkUsedNum, slab, option>>
        /\ UNCHANGED <<pool, content>>
    BY <1>2 DEF LBuildDone, BuildDone
  <2>2. DataOK' /\ Core'  BY <2>1, ListsStay
  <2>3. ScalarOK'  BY <2>1, OptionFacts DEF ScalarOK
  <2>4. Len(pool) = option.size  BY <1>0, <2>1, OptionFacts DEF Building
  <2>5. Enough'  BY <1>0, <2>1, <2>4, OptionFacts DEF Enough, SafeOptions
  <2> QED  BY <2>1, <2>2, <2>3, <2>4, <2>5 DEF Building, Counted, Working, Tuning
<1> QED  BY <1>1, <1>2

(* Reading a request.                                                      *)
LEMMA ReadKeeps ==
  ASSUME Inv, (\E s \in Slab : LReadRequest(s)) \/ LReadMore \/ LReadDone
  PROVE  Inv'
<1> USE DEF Inv
<1>0. Len(pool) \in Nat  BY PoolLength
<1>1. ASSUME NEW s \in Slab, slabs' = slabs \cup {s}, Taken(s), pc \in {"idle", "fill"},
             (\E c \in Chunk : TakeFresh(s, c)) \/ TakePooled(s),
             chunkUsedNum < option.load, pc' = "fill", cur' = s,
             UNCHANGED <<num, todo, option>>
      PROVE  Inv'
  <2>1. /\ DataOK' /\ Core' /\ chunkUsedNum' = chunkUsedNum + 1
        /\ Len(pool') + chunkUsedNum' >= Len(pool) + chunkUsedNum
        /\ mpTotal' = Len(pool')
    BY <1>1, TakeChunk DEF Counted
  <2>2. Len(pool') \in Nat  BY <2>1, ElementsOf DEF DataOK
  <2>3. ScalarOK'  BY <1>1, <2>1, <2>2, OptionFacts DEF ScalarOK
  <2>4. Enough'  BY <1>0, <1>1, <2>1, <2>2, OptionFacts DEF Enough
  <2>5. Working'  BY <1>1 DEF Working
  <2> QED  BY <1>1, <2>1, <2>3, <2>4, <2>5 DEF Building, Counted, Tuning
<1>2. ASSUME NEW s \in Slab, LReadRequest(s) PROVE Inv'
  BY <1>1, <1>2 DEF LReadRequest, ReadRequest
<1>3. CASE LReadMore
  <2>1. cur \in Slab /\ slabs' = slabs \cup {cur} /\ cur' = cur
    BY <1>3 DEF LReadMore, ReadMore, Working, DataOK
  <2> QED  BY <1>1, <1>3, <2>1 DEF LReadMore, ReadMore
<1>4. CASE LReadDone
  <2>1. /\ pc = "fill" /\ pc' = "idle" /\ cur' = NULL
        /\ UNCHANGED <<num, todo, heap, mp, slab, option, pool, content>>
    BY <1>4 DEF LReadDone, ReadDone
  <2>2. DataOK' /\ Core'  BY <2>1, ListsStay DEF mp
  <2>3. ScalarOK'  BY <2>1 DEF ScalarOK, mp
  <2> QED  BY <2>1, <2>2, <2>3 DEF Building, Counted, Working, Tuning, Enough, mp
<1> QED  BY <1>2, <1>3, <1>4

(* Freeing one.                                                            *)
LEMMA FreeKeeps ==
  ASSUME Inv, (\E s \in Slab : LFreeMemSlab(s)) \/ LFreeChunk \/ LFreeDone
  PROVE  Inv'
<1> USE DEF Inv
<1>0. Len(pool) \in Nat  BY PoolLength
<1>1. ASSUME NEW s \in Slab, LFreeMemSlab(s) PROVE Inv'
  <2>1. /\ pc = "idle" /\ pc' = "free" /\ cur' = s /\ s \in slabs
        /\ UNCHANGED <<num, todo, heap, mp, slab, option, pool, content>>
    BY <1>1 DEF LFreeMemSlab, FreeMemSlab
  <2>2. DataOK' /\ Core'  BY <2>1, ListsStay DEF mp
  <2>3. ScalarOK'  BY <2>1 DEF ScalarOK, mp
  <2> QED  BY <2>1, <2>2, <2>3 DEF Building, Counted, Working, Tuning, Enough, mp, slab
<1>2. CASE LFreeChunk
  <2>1. /\ pc = "free" /\ pc' = "free" /\ mpTotal' = mpTotal + 1
        /\ UNCHANGED <<cur, num, todo, slabs, option>>
    BY <1>2 DEF LFreeChunk, FreeChunk
  <2>2. /\ DataOK' /\ Core' /\ Len(pool') = Len(pool) + 1
        /\ chunkUsedNum' = chunkUsedNum - 1 /\ chunkUsedNum' \in Nat
    BY <1>2, <2>1, ReturnChunk DEF Counted, Working
  <2>3. ScalarOK'  BY <2>1, <2>2, OptionFacts DEF ScalarOK
  <2>4. Enough'  BY <1>0, <2>1, <2>2, OptionFacts DEF Enough
  <2> QED  BY <1>0, <2>1, <2>2, <2>3, <2>4 DEF Building, Counted, Working, Tuning
<1>3. CASE LFreeDone
  <2>1. /\ pc = "free" /\ pc' = "idle" /\ cur' = NULL /\ slabHead[cur] = NULL
        /\ slabs' = slabs \ {cur} /\ slabTail' = [slabTail EXCEPT ![cur] = NULL]
        /\ UNCHANGED <<num, todo, heap, mp, slabHead, option, pool, content>>
    BY <1>3 DEF LFreeDone, FreeDone
  <2>2. cur \in slabs /\ cur \in Slab /\ content[cur] \in Seq(Chunk)
    BY <2>1 DEF Working, DataOK
  <2>3. content[cur] = <<>>
    <3>1. Links(next, slabHead[cur], content[cur])
      BY <2>2 DEF Core, SlabsExact, Linked, Links
    <3> QED  BY <2>1, <2>2, <3>1, ListHead
  <2>4. DataOK'  BY <2>1, <2>2 DEF DataOK, heap, mp
  <2>5. SlabsExact'
    <3>1. \A t \in Slab : Linked(slabHead[t], content[t])'
      BY <2>1 DEF Core, SlabsExact, Linked, heap
    <3>2. \A t \in slabs' : content[t] # <<>> => slabTail'[t] = content[t][Len(content[t])]
      BY <2>1 DEF Core, SlabsExact, DataOK
    <3>3. \A t \in Slab \ slabs' : content[t] = <<>>
      BY <2>1, <2>3 DEF Core, SlabsExact
    <3> QED  BY <2>1, <3>1, <3>2, <3>3 DEF SlabsExact
  <2>6. UsedChunks' = UsedChunks  BY <2>1 DEF UsedChunks
  <2>7. Core'
    BY <2>1, <2>5, <2>6 DEF Core, ChunksConserved, Linked, PoolZeroed, heap, mp
  <2>8. ScalarOK'  BY <2>1 DEF ScalarOK, mp
  <2> QED  BY <2>1, <2>4, <2>7, <2>8 DEF Building, Counted, Working, Tuning, Enough, mp
<1> QED  BY <1>1, <1>2, <1>3

(* tuneMempool.  Enough is what makes its loops do what they count: a pool *)
(* that is never empty has a tail to grow from, and a head to shrink by.   *)
LEMMA TuneKeeps ==
  ASSUME SafeOptions, Inv,
         \/ \E f \in Forecasts : LTune(f)
         \/ LShrinkChunk
         \/ \E c \in Chunk : LGrowChunk(c)
         \/ LTuneDone
  PROVE  Inv'
<1> USE DEF Inv
<1>0. Len(pool) \in Nat /\ option \in Options  BY PoolLength DEF ScalarOK
<1>1. ASSUME NEW f \in Forecasts, LTune(f) PROVE Inv'
  <2>1. /\ pc = "idle" /\ option.aomp /\ num' = Target(f)
        /\ Target(f) + Reserve >= 0 /\ mpTotal # Target(f) + Reserve
        /\ UNCHANGED <<cur, heap, mp, slab, option, pool, content>>
    BY <1>1 DEF LTune, Tune
  <2>2. \/ /\ mpTotal > Target(f) + Reserve
           /\ pc' = "shrink" /\ todo' = mpTotal - Target(f) - Reserve
        \/ /\ ~(mpTotal > Target(f) + Reserve)
           /\ pc' = "grow" /\ todo' = Target(f) + Reserve - mpTotal
    BY <1>1 DEF LTune, Tune
  <2>3. Target(f) \in Int  BY OptionFacts, ReserveAssumption DEF Target
  <2>4. todo' \in Nat  BY <2>2, <2>3, OptionFacts
  <2>5. Target(f) + Reserve + chunkUsedNum > option.load
    <3>1. \A g \in Forecasts \cup {0} : g + Reserve >= 0 => g + Reserve > option.load
      BY <1>0, <2>1 DEF SafeOptions
    <3>2. CASE f = 0
      <4>1. 0 + Reserve >= 0 => 0 + Reserve > option.load  BY <3>1
      <4>2. Target(f) = chunkUsedNum  BY <3>2 DEF Target
      <4> QED  BY <4>1, <4>2, OptionFacts
    <3>3. CASE f # 0
      <4>1. Target(f) = f  BY <3>3 DEF Target
      <4> QED  BY <2>1, <2>3, <3>1, <4>1, OptionFacts
    <3> QED  BY <3>2, <3>3
  <2>6. DataOK' /\ Core'  BY <2>1, ListsStay DEF mp
  <2>7. ScalarOK'  BY <2>1, <2>2, <2>3, <2>4 DEF ScalarOK, mp
  <2>8. Tuning'  BY <2>1, <2>2, <2>3, OptionFacts DEF Tuning, mp
  <2>9. Enough'  BY <2>1, <2>5 DEF Enough, mp
  <2> QED  BY <2>1, <2>2, <2>6, <2>7, <2>8, <2>9 DEF Building, Counted, Working, mp
<1>2. CASE LShrinkChunk
  <2>1. /\ pc = "shrink" /\ pc' = "shrink" /\ todo > 0 /\ todo' = todo - 1
        /\ UNCHANGED <<cur, num, chunkUsedNum, option>>
        /\ mpHead # NULL => mpTotal' = mpTotal - 1
    BY <1>2 DEF LShrinkChunk, ShrinkChunk
  <2>2. mpTotal = Len(pool) /\ mpTotal = num + Reserve + todo /\ num + Reserve >= 0
    BY <2>1 DEF Counted, Tuning
  <2>3. mpHead # NULL
    <3>1. Len(pool) # 0  BY <1>0, <2>1, <2>2, OptionFacts
    <3>2. pool # <<>>  BY <3>1, PoolLength, ElementsOf
    <3>3. Links(next, mpHead, pool)  BY DEF Core, Linked, Links
    <3> QED  BY <3>2, <3>3, PoolLength, ListHead
  <2>4. DataOK' /\ Core' /\ Len(pool') = Len(pool) - 1  BY <1>2, <2>3, DropChunk
  <2>5. Len(pool') \in Nat  BY <2>4, ElementsOf DEF DataOK
  <2>6. ScalarOK'  BY <1>0, <2>1, <2>2, <2>3, <2>4, <2>5, OptionFacts DEF ScalarOK
  <2>7. Tuning'  BY <2>1, <2>2, <2>3, OptionFacts DEF Tuning
  <2>8. Enough'
    <3>1. option.aomp => num + Reserve + chunkUsedNum > option.load
      BY <2>1 DEF Enough
    <3>2. Len(pool') >= num + Reserve
      <4>1. num \in Int /\ Reserve \in Int /\ todo \in Int /\ todo > 0
        BY <2>1, OptionFacts
      <4>2. Len(pool) = num + Reserve + todo  BY <2>2
      <4>3. Len(pool') = Len(pool) - 1  BY <2>4
      <4> QED  BY <4>1, <4>2, <4>3
    <3>3. option.aomp => Len(pool') + chunkUsedNum > option.load
      BY <2>5, <3>1, <3>2, OptionFacts
    <3> QED  BY <2>1, <3>1, <3>3 DEF Enough
  <2>9. Counted'  BY <1>0, <2>1, <2>2, <2>3, <2>4 DEF Counted
  <2>10. Building' /\ Working'  BY <2>1 DEF Building, Working
  <2> QED  BY <2>4, <2>6, <2>7, <2>8, <2>9, <2>10
<1>3. ASSUME NEW c \in Chunk, LGrowChunk(c) PROVE Inv'
  <2>1. /\ pc = "grow" /\ pc' = "grow" /\ todo > 0 /\ todo' = todo - 1 /\ AppendNew(c)
        /\ mpTotal' = mpTotal + 1
        /\ UNCHANGED <<cur, num, chunkUsedNum, slab, option>>
        /\ pool' = Append(pool, c) /\ content' = content
    BY <1>3 DEF LGrowChunk, GrowChunk
  <2>2. pool # <<>>
    <3>1. Len(pool) + chunkUsedNum > option.load  BY <2>1 DEF Enough, Tuning
    <3>2. Len(pool) # 0  BY <1>0, <3>1, OptionFacts
    <3> QED  BY <3>2, PoolLength, ElementsOf
  <2>3. DataOK' /\ Core' /\ Len(pool') = Len(pool) + 1
    BY <2>1, <2>2, AppendChunk
  <2>4. ScalarOK'  BY <2>1, OptionFacts DEF ScalarOK
  <2>5. Tuning'  BY <2>1, OptionFacts DEF Tuning
  <2>6. Enough'  BY <1>0, <2>1, <2>3, OptionFacts DEF Enough
  <2> QED  BY <1>0, <2>1, <2>3, <2>4, <2>5, <2>6 DEF Building, Counted, Working
<1>4. CASE LTuneDone
  <2>1. /\ pc \in {"shrink", "grow"} /\ pc' = "idle" /\ num' = 0
        /\ UNCHANGED <<cur, todo, heap, mp, slab, option, pool, content>>
    BY <1>4 DEF LTuneDone, TuneDone
  <2>2. DataOK' /\ Core'  BY <2>1, ListsStay DEF mp
  <2>3. ScalarOK'  BY <2>1 DEF ScalarOK, mp
  <2> QED  BY <2>1, <2>2, <2>3 DEF Building, Counted, Working, Tuning, Enough, mp
<1> QED  BY <1>1, <1>2, <1>3, <1>4

(* Inv is inductive.                                                       *)
LEMMA NextInv == SafeOptions /\ Inv /\ [LNext]_lvars => Inv'
<1> SUFFICES ASSUME SafeOptions, Inv, [LNext]_lvars PROVE Inv'  OBVIOUS
<1>1. CASE UNCHANGED lvars
  <2>1. DataOK' /\ Core'  BY <1>1, ListsStay DEF Inv, lvars, vars, mp
  <2> QED  BY <1>1, <2>1
           DEF Inv, ScalarOK, Building, Counted, Working, Tuning, Enough, lvars, vars, mp, slab
<1> QED  BY <1>1, BuildKeeps, ReadKeeps, FreeKeeps, TuneKeeps DEF LNext, LLoop

-----------------------------------------------------------------------------
(* The inductive invariant of the pool.                                    *)
THEOREM PoolInvariant == SafeOptions => (Spec => []Inv)
<1> SUFFICES ASSUME SafeOptions PROVE Spec => []Inv  OBVIOUS
<1>1. Inv /\ [LNext]_lvars => Inv'  BY NextInv
<1> QED  BY <1>1, InitInv, PTL DEF Spec

(* The variables of mempool.c have their types.                            *)
THEOREM TypeCorrect == SafeOptions => (Spec => []TypeOK)
<1> SUFFICES ASSUME SafeOptions PROVE Spec => []TypeOK  OBVIOUS
<1>1. Inv => TypeOK  BY TypeParts DEF Inv
<1> QED  BY <1>1, PoolInvariant, PTL

(* The pool's pointers and counter describe one list.                      *)
THEOREM PoolIsExact == SafeOptions => (Spec => []PoolExact)
<1> SUFFICES ASSUME SafeOptions PROVE Spec => []PoolExact  OBVIOUS
<1>1. Inv => PoolExact  BY DEF Inv, Core, Counted, PoolExact
<1> QED  BY <1>1, PoolInvariant, PTL

(* Every request keeps its chunks, in order.                               *)
THEOREM SlabsAreExact == SafeOptions => (Spec => []SlabsExact)
<1> SUFFICES ASSUME SafeOptions PROVE Spec => []SlabsExact  OBVIOUS
<1>1. Inv => SlabsExact  BY DEF Inv, Core
<1> QED  BY <1>1, PoolInvariant, PTL

(* No chunk is lost, shared or freed while it is used, and chunk_used_num  *)
(* counts those in use.                                                    *)
THEOREM NoChunkIsLost == SafeOptions => (Spec => []ChunksConserved)
<1> SUFFICES ASSUME SafeOptions PROVE Spec => []ChunksConserved  OBVIOUS
<1>1. Inv => ChunksConserved  BY DEF Inv, Core
<1> QED  BY <1>1, PoolInvariant, PTL

(* mpalloc gives out zeroed chunks only.                                   *)
THEOREM PoolIsZeroed == SafeOptions => (Spec => []PoolZeroed)
<1> SUFFICES ASSUME SafeOptions PROVE Spec => []PoolZeroed  OBVIOUS
<1>1. Inv => PoolZeroed  BY DEF Inv, Core
<1> QED  BY <1>1, PoolInvariant, PTL

(* What the loops of tuneMempool count, whatever list they work on.        *)
Counters ==
  /\ todo \in Nat /\ mpTotal \in Int /\ num \in Int /\ chunkUsedNum \in Int
  /\ option \in Options
  /\ pc = "grow" => mpTotal + todo = num + Reserve
  /\ pc = "shrink" => mpTotal - todo >= num + Reserve

(* tuneMempool never takes more chunks out of the pool than it was asked   *)
(* to, and adds exactly as many, by the counter that mpfree relies on.     *)
(* Nothing is assumed of the load or the forecast: it holds also for a     *)
(* pool that requests have drained and whose tail is stale.                *)
THEOREM TuningKeepsTarget ==
  Spec => [](pc \in {"shrink", "grow"} /\ todo = 0 =>
               mpTotal >= num + Reserve /\ (pc = "grow" => mpTotal = num + Reserve))
<1> DEFINE Kept == pc \in {"shrink", "grow"} /\ todo = 0 =>
                     mpTotal >= num + Reserve /\ (pc = "grow" => mpTotal = num + Reserve)
<1>1. LInit => Counters
  BY OptionsAssumption DEF LInit, Init, Counters
<1>2. Counters /\ [LNext]_lvars => Counters'
  <2> SUFFICES ASSUME Counters, [LNext]_lvars PROVE Counters'  OBVIOUS
  <2>0. option.size \in Nat  BY OptionsAssumption DEF Counters
  <2>1. ASSUME NEW c \in Chunk, LBuildChunk(c) \/ LGrowChunk(c) PROVE Counters'
    BY <2>1, ReserveAssumption
    DEF LBuildChunk, BuildChunk, LGrowChunk, GrowChunk, Counters
  <2>2. CASE LBuildDone
    BY <2>0, <2>2 DEF LBuildDone, BuildDone, Counters
  <2>3. CASE LReadDone \/ LFreeDone \/ LTuneDone
    BY <2>3 DEF LReadDone, ReadDone, LFreeDone, FreeDone, LTuneDone, TuneDone, heap, mp, Counters
  <2>4. CASE LFreeChunk
    BY <2>4 DEF LFreeChunk, FreeChunk, Counters
  <2>5. CASE LShrinkChunk
    BY <2>5, ReserveAssumption DEF LShrinkChunk, ShrinkChunk, Counters
  <2>6. ASSUME NEW s \in Slab, LReadRequest(s) PROVE Counters'
    BY <2>6 DEF LReadRequest, ReadRequest, TakeFresh, TakePooled, Counters
  <2>7. CASE LReadMore
    BY <2>7 DEF LReadMore, ReadMore, TakeFresh, TakePooled, Counters
  <2>8. ASSUME NEW s \in Slab, LFreeMemSlab(s) PROVE Counters'
    BY <2>8 DEF LFreeMemSlab, FreeMemSlab, mp, Counters
  <2>9. ASSUME NEW f \in Forecasts, LTune(f) PROVE Counters'
    <3>1. Target(f) \in Int  BY ReserveAssumption DEF Target, Counters
    <3> QED  BY <2>9, <3>1, ReserveAssumption DEF LTune, Tune, mp, Counters
  <2>10. CASE UNCHANGED lvars
    BY <2>10 DEF lvars, vars, mp, Counters
  <2> QED
    BY <2>1, <2>2, <2>3, <2>4, <2>5, <2>6, <2>7, <2>8, <2>9, <2>10 DEF LNext, LLoop
<1>3. Counters => Kept
  BY ReserveAssumption DEF Counters
<1> QED  BY <1>1, <1>2, <1>3, PTL DEF Spec

-----------------------------------------------------------------------------
(* What is left to do in each loop: chunks to allocate or drop, chunks the *)
(* load still allows a request, chunks of the slab that is freed.          *)
Left ==
  CASE pc \in {"build", "shrink", "grow"} -> todo
    [] pc = "fill" -> option.load - chunkUsedNum
    [] pc = "free" -> Len(content[cur])
    [] pc = "idle" -> 0

(* Every loop of mempool.c that has begun runs down, whatever list or      *)
(* number it follows, and nothing else gets in between.                    *)
THEOREM LoopsRunDown ==
  SafeOptions =>
    (Spec => [][pc # "idle" => \/ pc' = "idle"
                               \/ pc' = pc /\ Left \in Nat /\ Left' \in Nat /\ Left' < Left]_lvars)
<1> SUFFICES ASSUME SafeOptions
    PROVE  Spec => [][pc # "idle" => \/ pc' = "idle"
                                     \/ pc' = pc /\ Left \in Nat /\ Left' \in Nat /\ Left' < Left]_lvars
  OBVIOUS
<1> DEFINE RunsDown == pc # "idle" => \/ pc' = "idle"
                                      \/ pc' = pc /\ Left \in Nat /\ Left' \in Nat /\ Left' < Left
<1>1. Inv /\ Inv' /\ [LNext]_lvars => [RunsDown]_lvars
  <2> SUFFICES ASSUME Inv, Inv', LNext, pc # "idle" PROVE RunsDown
    OBVIOUS
  <2>1. /\ option.load \in Nat /\ chunkUsedNum \in Nat /\ chunkUsedNum <= option.load
        /\ todo \in Nat
    BY OptionFacts DEF Inv
  <2>2. /\ option'.load \in Nat /\ chunkUsedNum' \in Nat /\ chunkUsedNum' <= option'.load
        /\ todo' \in Nat
    <3>1. ScalarOK' => option' \in Options /\ chunkUsedNum' \in 0..option'.load /\ todo' \in Nat
      BY DEF ScalarOK
    <3> QED  BY <3>1, OptionsAssumption DEF Inv
  <2>3. CASE LBuildDone \/ LReadDone \/ LFreeDone \/ LTuneDone
    BY <2>3 DEF LBuildDone, BuildDone, LReadDone, ReadDone, LFreeDone, FreeDone, LTuneDone, TuneDone
  <2>4. CASE \/ \E c \in Chunk : LBuildChunk(c) \/ LGrowChunk(c)
             \/ LShrinkChunk
    <3>1. pc \in {"build", "shrink", "grow"} /\ pc' = pc /\ todo' = todo - 1
      BY <2>4 DEF LBuildChunk, BuildChunk, LGrowChunk, GrowChunk, LShrinkChunk, ShrinkChunk
    <3>2. Left = todo /\ Left' = todo'  BY <3>1 DEF Left
    <3> QED  BY <2>1, <2>2, <3>1, <3>2
  <2>5. CASE LReadMore
    <3>1. pc = "fill" /\ pc' = "fill" /\ option' = option /\ chunkUsedNum' = chunkUsedNum + 1
      BY <2>5 DEF LReadMore, ReadMore, TakeFresh, TakePooled
    <3>2. /\ Left = option.load - chunkUsedNum
          /\ Left' = option.load - (chunkUsedNum + 1)
      BY <3>1 DEF Left
    <3> QED  BY <2>1, <2>2, <3>1, <3>2
  <2>6. CASE LFreeChunk
    <3>1. /\ pc = "free" /\ pc' = "free" /\ cur' = cur /\ slabHead[cur] # NULL
          /\ content' = [content EXCEPT ![cur] = SubSeq(@, 2, Len(@))]
      BY <2>6 DEF LFreeChunk, FreeChunk
    <3>2. cur \in Slab /\ content[cur] \in Seq(Chunk)
      BY <3>1 DEF Inv, Working, DataOK
    <3>3. content[cur] # <<>>
      <4>1. Links(next, slabHead[cur], content[cur])
        BY <3>2 DEF Inv, Core, SlabsExact, Linked, Links
      <4> QED  BY <3>1, <4>1 DEF Links
    <3>4. Len(content[cur]) \in Nat \ {0}  BY <3>2, <3>3, ElementsOf
    <3>5. content'[cur] = SubSeq(content[cur], 2, Len(content[cur]))
      BY <3>1, <3>2 DEF Inv, DataOK
    <3>6. Len(content'[cur]) = Len(content[cur]) - 1  BY <3>2, <3>4, <3>5, SMT
    <3>7. Left = Len(content[cur]) /\ Left' = Len(content'[cur])  BY <3>1 DEF Left
    <3> QED  BY <3>1, <3>4, <3>6, <3>7
  <2>7. ~(\E s \in Slab : LReadRequest(s) \/ LFreeMemSlab(s)) /\ ~(\E f \in Forecasts : LTune(f))
    BY DEF LReadRequest, ReadRequest, LFreeMemSlab, FreeMemSlab, LTune, Tune
  <2> QED  BY <2>3, <2>4, <2>5, <2>6, <2>7 DEF LNext, LLoop
<1> HIDE DEF RunsDown
<1>2. Spec => [][RunsDown]_lvars
  <2>1. Inv /\ [LNext]_lvars => Inv'  BY NextInv
  <2> QED  BY <1>1, <2>1, InitInv, PTL DEF Spec
<1> QED  BY <1>2 DEF RunsDown

=============================================================================

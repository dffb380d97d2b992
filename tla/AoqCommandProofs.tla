-------------------------- MODULE AoqCommandProofs --------------------------
(***************************************************************************)
(* Proofs about AoqCommand: for every set of names, sockets, values and    *)
(* request sizes and every table, and without the bounds of the run, the   *)
(* variables have their types and every chunk in use has its owner; and    *)
(* the commands implement AoqService, step by step.                        *)
(***************************************************************************)
EXTENDS AoqCommand, AoqFacts, SequenceTheorems

HTP == INSTANCE AoqHashTableProofs

-----------------------------------------------------------------------------
(* The hash table and what is proved of it.                                *)

(* The assumptions of the hash table are those of the commands.            *)
LEMMA TableAssumptions ==
  HTP!KeyAssumption /\ HTP!SizeAssumption /\ HTP!NullAssumption
  BY TableAssumption DEF HT!KeyAssumption, HT!SizeAssumption, HT!NullAssumption,
                         HTP!KeyAssumption, HTP!SizeAssumption, HTP!NullAssumption

(* The searches are the same, and so the steps are.                        *)
LEMMA SameFind ==
  ASSUME NEW k
  PROVE  HT!Find(k) = HTP!Find(k)
  <1>1. HT!Seek(ht, k) = HTP!Seek(ht, k)
    BY Zenon DEF HT!Seek, HTP!Seek, HT!Home, HTP!Home, HT!Ptr, HTP!Ptr, HT!Bucket, HTP!Bucket,
                 HT!Miss, HTP!Miss, HT!Wild, HTP!Wild, HT!Readable, HTP!Readable
  <1> QED
    BY <1>1 DEF HT!Find, HTP!Find

(* An insertion leaves the same tables behind.                             *)
LEMMA SameInsert ==
  ASSUME NEW t, NEW k, NEW q
  PROVE  HT!Insert(t, k, q) = HTP!Insert(t, k, q)
  <1>1. HT!Walk(t, k) = HTP!Walk(t, k) /\ HT!Home(t, k) = HTP!Home(t, k)
    BY Zenon DEF HT!Walk, HTP!Walk, HT!Home, HTP!Home, HT!Ptr, HTP!Ptr, HT!Bucket, HTP!Bucket,
                 HT!Wild, HTP!Wild, HT!Readable, HTP!Readable
  <1> QED
    BY <1>1, Zenon DEF HT!Insert, HTP!Insert, HT!Put, HTP!Put, HT!Stored, HTP!Stored, HT!Free, HTP!Free

(* It may work on the same arrays.                                         *)
LEMMA SameRoom ==
  ASSUME NEW t
  PROVE  HT!Room(t) = HTP!Room(t)
  BY Zenon DEF HT!Room, HTP!Room, HT!Grown, HTP!Grown, HT!Bucket, HTP!Bucket

(* The steps of the table.                                                 *)
LEMMA SameSteps ==
  ASSUME NEW k
  PROVE  /\ \A q : HT!CreateQueue(k, q) = HTP!CreateQueue(k, q)
         /\ HT!DelQueue(k) = HTP!DelQueue(k)
         /\ HT!Crash(k) = HTP!Crash(k)
  <1>1. ASSUME NEW q PROVE HT!CreateQueue(k, q) = HTP!CreateQueue(k, q)
    BY SameFind, SameInsert, SameRoom, Zenon DEF HT!CreateQueue, HTP!CreateQueue
  <1>2. HT!DelQueue(k) = HTP!DelQueue(k)
    BY SameFind, Zenon DEF HT!DelQueue, HTP!DelQueue, HT!Bucket, HTP!Bucket
  <1>3. HT!Crash(k) = HTP!Crash(k)
    BY SameFind, SameInsert, SameRoom, Zenon DEF HT!Crash, HTP!Crash
  <1> QED
    BY <1>1, <1>2, <1>3

(* The table starts with its invariant.                                    *)
LEMMA TableInit == HT!Init => HTP!HtInv
  <1>1. HT!Init => HTP!Init
    BY DEF HT!Init, HTP!Init, HT!Table, HTP!Table, HT!Bucket, HTP!Bucket
  <1>2. HTP!Init => HTP!HtInv
    BY TableAssumptions, HTP!InitHtInv
  <1> QED
    BY <1>1, <1>2

(* Its steps keep it.                                                      *)
LEMMA TableNext ==
  ASSUME HTP!HtInv, NEW k \in Key,
         (\E q \in Queue : HT!CreateQueue(k, q)) \/ HT!DelQueue(k) \/ HT!Crash(k)
  PROVE  HTP!HtInv'
  <1>1. HTP!Next
    BY SameSteps, Zenon DEF HTP!Next
  <1>2. HTP!HtInv /\ [HTP!Next]_HTP!vars => HTP!HtInv'
    BY TableAssumptions, HTP!NextHtInv
  <1> QED
    BY <1>1, <1>2

(* So does a server that dies otherwise.                                   *)
LEMMA TableStays ==
  ASSUME HTP!HtInv, UNCHANGED <<ht, queues, map, intact>>, dead' \in BOOLEAN
  PROVE  HTP!HtInv'
  BY TableAssumptions, HTP!TableKept

(* The types of the table; its queues are finitely many.                   *)
LEMMA TableTypes ==
  ASSUME HTP!HtInv
  PROVE  HT!TypeOK /\ queues \subseteq Queue /\ IsFiniteSet(queues)
  <1>1. HTP!TypeOK /\ queues = {ht.value[b] : b \in HTP!Held}
    BY DEF HTP!HtInv
  <1>2. HT!TypeOK
    BY <1>1 DEF HTP!TypeOK, HT!TypeOK, HTP!Bucket, HT!Bucket
  <1>3. IsFiniteSet(HTP!Held)
    <2>1. IsFiniteSet(0..(MaxSize - 1))
      BY TableAssumptions, FS_Interval DEF HTP!SizeAssumption
    <2>2. HTP!Held \subseteq 0..(MaxSize - 1)
      BY DEF HTP!Held, HTP!Bucket
    <2> QED
      BY <2>1, <2>2, FS_Subset
  <1>4. IsFiniteSet(queues)
    <2> DEFINE f == [b \in HTP!Held |-> ht.value[b]]
    <2>1. f \in Surjection(HTP!Held, queues)
      BY <1>1 DEF Surjection
    <2> QED
      BY <1>3, <2>1, FS_Surjection
  <1> QED
    BY <1>1, <1>2, <1>4 DEF HTP!TypeOK

(* A name that is found leads to a queue that exists.                      *)
LEMMA FoundQueue ==
  ASSUME HTP!HtInv, NEW k \in Key, Found(k)
  PROVE  QueueOf(k) \in queues
  <1>1. HTP!Find(k).how = "hit" /\ QueueOf(k) = ht.value[HTP!Find(k).at]
    BY SameFind DEF Found, QueueOf
  <1>2. HTP!Sound(ht) /\ queues = {ht.value[b] : b \in HTP!Held}
    BY DEF HTP!HtInv
  <1>3. HTP!Find(k).at \in HTP!Held
    BY <1>1, <1>2, TableAssumptions, HTP!FoundHeld
  <1> QED
    BY <1>1, <1>2, <1>3

(* getQueue: whether found or made, the queue then exists.                 *)
LEMMA Gets ==
  ASSUME HTP!HtInv, NEW k \in Key, NEW q \in Queue, GetQueue(k, q)
  PROVE  HTP!HtInv' /\ queues' = queues \cup {q} /\ dead' = dead
  <1>1. CASE Found(k) /\ q = QueueOf(k) /\ UNCHANGED tvars
    <2>1. q \in queues
      BY <1>1, FoundQueue
    <2>2. HT!TypeOK
      BY TableTypes
    <2> QED
      BY <1>1, <2>1, <2>2, TableStays DEF tvars, HT!TypeOK
  <1>2. CASE HT!CreateQueue(k, q)
    BY <1>2, TableNext DEF HT!CreateQueue
  <1> QED
    BY <1>1, <1>2 DEF GetQueue

-----------------------------------------------------------------------------
(* The chunks of a sequence of items.                                      *)
SizesOf(s) == [i \in 1..Len(s) |-> s[i].chunks]

(* An item has a number of them, and a queue the total.                    *)
LEMMA ChunksAreNumbers ==
  ASSUME NEW s \in Seq(Item)
  PROVE  Numbers(SizesOf(s), 1..Len(s)) /\ ChunksOf(s) = Total(SizesOf(s))
  <1>1. Len(s) \in Nat /\ DOMAIN s = 1..Len(s) /\ \A i \in 1..Len(s) : s[i].chunks \in Nat
    <2>1. Len(s) \in Nat /\ DOMAIN s = 1..Len(s) /\ \A i \in 1..Len(s) : s[i] \in Item
      BY LenProperties, ElementOfSeq
    <2> QED
      BY <2>1, LimitAssumption DEF Item
  <1>2. IsFiniteSet(1..Len(s))
    BY <1>1, FS_Interval
  <1> QED
    BY <1>1, <1>2 DEF Numbers, ChunksOf, Total, SizesOf

(* So the chunks of a queue are a number.                                  *)
LEMMA ChunksOfType ==
  ASSUME NEW s \in Seq(Item)
  PROVE  ChunksOf(s) \in Nat
  BY ChunksAreNumbers, TotalType

(* An empty queue has none.                                                *)
LEMMA ChunksOfNone == ChunksOf(<<>>) = 0
  <1>1. <<>> \in Seq(Item) /\ Len(<<>>) = 0
    BY EmptySeq
  <1>2. 1..Len(<<>>) = {}
    BY <1>1
  <1> QED
    BY <1>1, <1>2, ChunksAreNumbers, TotalOfNone

(* What push adds.                                                         *)
LEMMA ChunksOfAppend ==
  ASSUME NEW s \in Seq(Item), NEW e \in Item
  PROVE  ChunksOf(Append(s, e)) = ChunksOf(s) + e.chunks
  <1> DEFINE t == Append(s, e)
             n == Len(s) + 1
  <1>1. /\ t \in Seq(Item) /\ Len(t) = n /\ t[n] = e /\ n \in 1..n
        /\ \A i \in 1..Len(s) : t[i] = s[i]
        /\ Len(s) \in Nat
    BY AppendProperties, LenProperties
  <1> HIDE DEF t
  <1>2. Numbers(SizesOf(t), 1..n) /\ ChunksOf(t) = Total(SizesOf(t))
    BY <1>1, ChunksAreNumbers
  <1>3. Numbers(SizesOf(s), 1..Len(s)) /\ ChunksOf(s) = Total(SizesOf(s))
    BY ChunksAreNumbers
  <1>4. SizesOf(t)[n] = e.chunks /\ \A i \in 1..Len(s) : SizesOf(s)[i] = SizesOf(t)[i]
    BY <1>1 DEF SizesOf
  <1>5. Total(SizesOf(t)) = SizesOf(t)[n] + Total(SizesOf(s))
    <2> DEFINE f == SizesOf(t)
               g == SizesOf(s)
               D == 1..n
               R == 1..Len(s)
    <2>1. /\ Numbers(f, D) /\ n \in D /\ R = D \ {n}
          /\ Numbers(g, R) /\ \A i \in R : g[i] = f[i]
      BY <1>1, <1>2, <1>3, <1>4
    <2> HIDE DEF f, g, D, R, n
    <2>2. Total(f) = f[n] + Total(g)
      BY <2>1, TotalSplits
    <2> QED
      BY <2>2 DEF f, g
  <1>6. Total(SizesOf(s)) \in Nat /\ e.chunks \in Nat
    BY <1>3, ChunksOfType, LimitAssumption DEF Item
  <1> HIDE DEF n
  <1> QED
    BY <1>2, <1>3, <1>4, <1>5, <1>6 DEF t

(* What pop takes away, from the other end.                                *)
LEMMA ChunksOfTail ==
  ASSUME NEW s \in Seq(Item), s # <<>>
  PROVE  ChunksOf(s) = Head(s).chunks + ChunksOf(Tail(s)) /\ Head(s).chunks \in Nat
  <1> DEFINE T == {n \in Nat : \A u \in Seq(Item) : Len(u) = n + 1 =>
                    ChunksOf(u) = Head(u).chunks + ChunksOf(Tail(u))}
  <1>1. ASSUME NEW u \in Seq(Item), NEW e \in Item
        PROVE  /\ ChunksOf(Append(u, e)) = ChunksOf(u) + e.chunks
               /\ e.chunks \in Nat /\ ChunksOf(u) \in Nat
               /\ Head(Append(u, e)) = IF u = <<>> THEN e ELSE Head(u)
               /\ Tail(Append(u, e)) = IF u = <<>> THEN <<>> ELSE Append(Tail(u), e)
               /\ Len(Append(u, e)) = Len(u) + 1 /\ Len(u) \in Nat
               /\ u # <<>> => /\ Tail(u) \in Seq(Item) /\ ChunksOf(Tail(u)) \in Nat
                              /\ ChunksOf(Append(Tail(u), e)) = ChunksOf(Tail(u)) + e.chunks
                              /\ Head(u).chunks \in Nat
    <2>1. ChunksOf(Append(u, e)) = ChunksOf(u) + e.chunks /\ ChunksOf(u) \in Nat
      BY ChunksOfAppend, ChunksOfType
    <2>2. u # <<>> => Tail(u) \in Seq(Item) /\ Head(u) \in Item
      BY HeadTailProperties
    <2>3. u # <<>> => /\ ChunksOf(Tail(u)) \in Nat
                      /\ ChunksOf(Append(Tail(u), e)) = ChunksOf(Tail(u)) + e.chunks
      BY <2>2, ChunksOfAppend, ChunksOfType
    <2>4. e.chunks \in Nat /\ (u # <<>> => Head(u).chunks \in Nat)
      BY <2>2, LimitAssumption DEF Item
    <2>5. Len(Append(u, e)) = Len(u) + 1 /\ Len(u) \in Nat
      BY AppendProperties, LenProperties
    <2> QED
      BY <2>1, <2>2, <2>3, <2>4, <2>5, HeadTailAppend
  <1>2. ASSUME NEW u \in Seq(Item), u # <<>>
        PROVE  \E v \in Seq(Item), e \in Item : u = Append(v, e)
    BY <1>2, SequenceEmptyOrAppend
  <1>3. 0 \in T
    <2> SUFFICES ASSUME NEW u \in Seq(Item), Len(u) = 1
                 PROVE  ChunksOf(u) = Head(u).chunks + ChunksOf(Tail(u))
      OBVIOUS
    <2>1. u # <<>>
      <3>1. Len(u) # Len(<<>>)
        BY EmptySeq
      <3> QED
        BY <3>1
    <2>2. PICK v \in Seq(Item), e \in Item : u = Append(v, e)
      BY <1>2, <2>1
    <2>3. Len(v) = 0 /\ Len(v) + 1 = Len(u)
      BY <1>1, <2>2
    <2>4. v = <<>>
      BY <2>3, EmptySeq
    <2>5. ChunksOf(u) = e.chunks /\ Head(u) = e /\ Tail(u) = <<>> /\ e.chunks \in Nat
      <3>1. ChunksOf(Append(v, e)) = ChunksOf(v) + e.chunks /\ e.chunks \in Nat
            /\ Head(Append(v, e)) = e /\ Tail(Append(v, e)) = <<>>
        BY <1>1, <2>4
      <3> QED
        BY <2>2, <2>4, <3>1, ChunksOfNone
    <2>6. ChunksOf(Tail(u)) = 0
      BY <2>5, ChunksOfNone
    <2> QED
      BY <2>5, <2>6
  <1>4. ASSUME NEW n \in Nat, n \in T PROVE n + 1 \in T
    <2> SUFFICES ASSUME NEW u \in Seq(Item), Len(u) = n + 2
                 PROVE  ChunksOf(u) = Head(u).chunks + ChunksOf(Tail(u))
      OBVIOUS
    <2>1. u # <<>>
      <3>1. Len(u) # Len(<<>>)
        BY EmptySeq
      <3> QED
        BY <3>1
    <2>2. PICK v \in Seq(Item), e \in Item : u = Append(v, e)
      BY <1>2, <2>1
    <2>3. Len(v) \in Nat /\ Len(v) + 1 = Len(u)
      BY <1>1, <2>2
    <2>4. Len(v) = n + 1 /\ v # <<>>
      BY <2>3, EmptySeq
    <2>5. ChunksOf(v) = Head(v).chunks + ChunksOf(Tail(v))
      BY <1>4, <2>4
    <2>6. /\ ChunksOf(u) = ChunksOf(v) + e.chunks
          /\ Head(u) = Head(v)
          /\ ChunksOf(Tail(u)) = ChunksOf(Tail(v)) + e.chunks
          /\ Head(v).chunks \in Nat /\ e.chunks \in Nat /\ ChunksOf(Tail(v)) \in Nat
      BY <1>1, <2>2, <2>4
    <2> QED
      BY <2>5, <2>6
  <1>5. Len(s) - 1 \in T /\ Len(s) \in Nat
    <2>1. Len(s) \in Nat \ {0}
      BY EmptySeq
    <2>2. Len(s) - 1 \in Nat
      BY <2>1
    <2> HIDE DEF T
    <2> QED
      BY <1>3, <1>4, <2>1, <2>2, Induction
  <1>6. Head(s).chunks \in Nat
    <2>1. Head(s) \in Item
      BY HeadTailProperties
    <2> QED
      BY <2>1, LimitAssumption DEF Item
  <1> QED
    BY <1>5, <1>6

-----------------------------------------------------------------------------
(* The chunks of several queues.                                           *)
ItemMap == [Queue -> Seq(Item)]
Chunked(Q, its) == [q \in Q |-> ChunksOf(its[q])]
ChunksIn(Q, its) == FoldFunction(+, 0, Chunked(Q, its))

(* Each has a number of them.                                              *)
LEMMA QueuesAreNumbers ==
  ASSUME NEW Q \in SUBSET Queue, IsFiniteSet(Q), NEW its \in ItemMap
  PROVE  /\ Numbers(Chunked(Q, its), Q)
         /\ ChunksIn(Q, its) = Total(Chunked(Q, its))
         /\ ChunksIn(Q, its) \in Nat
  <1>1. \A q \in Q : ChunksOf(its[q]) \in Nat
    BY ChunksOfType DEF ItemMap
  <1>2. Numbers(Chunked(Q, its), Q)
    BY <1>1 DEF Numbers, Chunked
  <1>3. ChunksIn(Q, its) = Total(Chunked(Q, its))
    BY DEF ChunksIn, Total
  <1> QED
    BY <1>2, <1>3, TotalType

(* A queue goes, and its chunks with it.                                   *)
LEMMA QueueRemoved ==
  ASSUME NEW Q \in SUBSET Queue, IsFiniteSet(Q), NEW q \in Q,
         NEW its \in ItemMap, NEW jts \in ItemMap,
         \A r \in Queue \ {q} : jts[r] = its[r]
  PROVE  ChunksIn(Q, its) = ChunksOf(its[q]) + ChunksIn(Q \ {q}, jts)
  <1> DEFINE R == Q \ {q}
             f == Chunked(Q, its)
             g == Chunked(R, jts)
  <1>1. IsFiniteSet(R) /\ R \in SUBSET Queue
    BY FS_RemoveElement
  <1>2. Numbers(f, Q) /\ ChunksIn(Q, its) = Total(f)
    BY QueuesAreNumbers
  <1>3. Numbers(g, R) /\ ChunksIn(R, jts) = Total(g)
    <2> HIDE DEF R
    <2> QED
      BY <1>1, QueuesAreNumbers
  <1>4. f[q] = ChunksOf(its[q]) /\ \A r \in R : g[r] = f[r]
    BY DEF Chunked
  <1>5. R = Q \ {q}
    OBVIOUS
  <1> HIDE DEF R, f, g
  <1>6. Total(f) = f[q] + Total(g)
    BY <1>2, <1>3, <1>4, <1>5, TotalSplits
  <1> QED
    BY <1>2, <1>3, <1>4, <1>5, <1>6

(* A queue changes, or comes into being empty and changes then.            *)
LEMMA QueueUpdated ==
  ASSUME NEW Q \in SUBSET Queue, IsFiniteSet(Q), NEW q \in Queue,
         NEW its \in ItemMap, NEW jts \in ItemMap,
         \A r \in Queue \ {q} : jts[r] = its[r],
         q \notin Q => its[q] = <<>>
  PROVE  ChunksIn(Q \cup {q}, jts) + ChunksOf(its[q]) = ChunksIn(Q, its) + ChunksOf(jts[q])
  <1> DEFINE P == Q \cup {q}
             R == Q \ {q}
  <1>1. /\ IsFiniteSet(P) /\ P \in SUBSET Queue /\ q \in P /\ P \ {q} = R
        /\ IsFiniteSet(R) /\ R \in SUBSET Queue
    BY FS_AddElement, FS_RemoveElement
  <1> HIDE DEF P, R
  <1>2. ChunksIn(P, jts) = ChunksOf(jts[q]) + ChunksIn(R, its)
    BY <1>1, QueueRemoved
  <1>3. ChunksIn(Q, its) = ChunksOf(its[q]) + ChunksIn(R, its)
    <2>1. CASE q \in Q
      BY <2>1, QueueRemoved DEF R
    <2>2. CASE q \notin Q
      <3>1. R = Q
        BY <2>2 DEF R
      <3>2. ChunksOf(its[q]) = 0
        BY <2>2, ChunksOfNone
      <3>3. ChunksIn(Q, its) \in Nat
        BY QueuesAreNumbers
      <3> QED
        BY <3>1, <3>2, <3>3
    <2> QED
      BY <2>1, <2>2
  <1>4. ChunksOf(its[q]) \in Nat /\ ChunksOf(jts[q]) \in Nat
    BY ChunksOfType DEF ItemMap
  <1>5. ChunksIn(R, its) \in Nat
    BY <1>1, QueuesAreNumbers
  <1> HIDE DEF ItemMap
  <1> QED
    BY <1>2, <1>3, <1>4, <1>5 DEF P

-----------------------------------------------------------------------------
(* The inductive invariant.  The table's own is needed for two facts: what *)
(* a name finds is a queue that exists, and a queue that is made is none   *)
(* that does.                                                              *)
CmdInv ==
  /\ HTP!HtInv
  /\ items \in ItemMap
  /\ lost \in Nat
  /\ serving \in BOOLEAN
  /\ ChunksOwned

(* Its parts in the terms used below; the chunks in use are a number.      *)
LEMMA CmdInvParts ==
  CmdInv <=> /\ HTP!HtInv
             /\ items \in ItemMap
             /\ lost \in Nat
             /\ serving \in BOOLEAN
             /\ used = lost + ChunksIn(queues, items)
             /\ \A q \in Queue \ queues : items[q] = <<>>
  BY DEF CmdInv, ChunksOwned, ChunksIn, Chunked

(* The same after a step.                                                  *)
LEMMA CmdInvLater ==
  ASSUME HTP!HtInv', items' \in ItemMap, lost' \in Nat, serving' \in BOOLEAN,
         used' = lost' + ChunksIn(queues', items'),
         \A q \in Queue \ queues' : items'[q] = <<>>
  PROVE  CmdInv'
  <1>1. ChunksIn(queues', items') = ChunksIn(queues, items)'
    BY Zenon DEF ChunksIn, Chunked, ChunksOf, FoldFunction, FoldFunctionOnSet, MapThenFoldSet
  <1>2. ChunksIn(queues, items)' = FoldFunction(+, 0, [q \in queues |-> ChunksOf(items[q])])'
    BY Zenon DEF ChunksIn, Chunked
  <1>3. ChunksOwned'
    BY <1>1, <1>2, Zenon DEF ChunksOwned
  <1>4. (items \in ItemMap)'
    BY DEF ItemMap
  <1> QED
    BY <1>3, <1>4 DEF CmdInv

(* A handler takes, gives or changes nothing that counts.                  *)
LEMMA NothingTaken ==
  ASSUME CmdInv, HTP!HtInv', UNCHANGED <<queues, items, lost>>, used' = used,
         serving' \in BOOLEAN
  PROVE  CmdInv'
  BY CmdInvParts, CmdInvLater

(* An account: what is in use is what is lost and what is owned.           *)
LEMMA Balance ==
  ASSUME NEW a \in Nat, NEW b \in Nat, NEW c \in Nat, NEW d \in Nat, d + b = a + c,
         NEW l \in Nat, NEW m \in Nat
  PROVE  (l + a) + (m - l) + (c - b) = m + d
  OBVIOUS

(* A handler works on one queue, which it may have made: what it adds to   *)
(* the chunks in use it adds to the queue, or loses.                       *)
LEMMA OneQueueServed ==
  ASSUME CmdInv, HTP!HtInv', NEW q \in Queue, queues' = queues \cup {q},
         items' \in ItemMap, \A r \in Queue \ {q} : items'[r] = items[r],
         lost' \in Nat, serving' \in BOOLEAN,
         used' = used + (lost' - lost) + (ChunksOf(items'[q]) - ChunksOf(items[q]))
  PROVE  CmdInv'
  <1>1. /\ queues \in SUBSET Queue /\ IsFiniteSet(queues)
        /\ items \in ItemMap /\ lost \in Nat
        /\ used = lost + ChunksIn(queues, items)
        /\ \A r \in Queue \ queues : items[r] = <<>>
    BY CmdInvParts, TableTypes
  <1>2. ChunksIn(queues', items') + ChunksOf(items[q]) = ChunksIn(queues, items) + ChunksOf(items'[q])
    BY <1>1, QueueUpdated
  <1>3. /\ ChunksIn(queues, items) \in Nat
        /\ ChunksOf(items[q]) \in Nat /\ ChunksOf(items'[q]) \in Nat
    BY <1>1, QueuesAreNumbers, ChunksOfType DEF ItemMap
  <1>4. IsFiniteSet(queues') /\ queues' \in SUBSET Queue
    BY <1>1, FS_AddElement
  <1>5. ChunksIn(queues', items') \in Nat
    BY <1>4, QueuesAreNumbers
  <1>6. used' = lost' + ChunksIn(queues', items')
    <2> DEFINE a == ChunksIn(queues, items)
               b == ChunksOf(items[q])
               c == ChunksOf(items'[q])
               d == ChunksIn(queues', items')
    <2>1. /\ a \in Nat /\ b \in Nat /\ c \in Nat /\ d \in Nat
          /\ d + b = a + c /\ used = lost + a
          /\ used' = used + (lost' - lost) + (c - b)
      BY <1>1, <1>2, <1>3, <1>5
    <2> HIDE DEF a, b, c, d
    <2>2. lost \in Nat /\ lost' \in Nat
      BY <1>1
    <2>3. used' = (lost + a) + (lost' - lost) + (c - b)
      BY <2>1
    <2>4. (lost + a) + (lost' - lost) + (c - b) = lost' + d
      BY <2>1, <2>2, Balance
    <2> QED
      BY <2>3, <2>4 DEF d
  <1>7. \A r \in Queue \ queues' : items'[r] = <<>>
    BY <1>1
  <1> QED
    BY <1>6, <1>7, CmdInvLater

(* delqueue: the queue goes with all its chunks.                           *)
LEMMA OneQueueDeleted ==
  ASSUME CmdInv, HTP!HtInv', NEW q \in queues, queues' = queues \ {q},
         items' = [items EXCEPT ![q] = <<>>], lost' = lost, serving' \in BOOLEAN,
         used' = used - ChunksOf(items[q])
  PROVE  CmdInv'
  <1>1. /\ queues \in SUBSET Queue /\ IsFiniteSet(queues)
        /\ items \in ItemMap /\ lost \in Nat
        /\ used = lost + ChunksIn(queues, items)
        /\ \A r \in Queue \ queues : items[r] = <<>>
    BY CmdInvParts, TableTypes
  <1>2. /\ items' \in ItemMap /\ items'[q] = <<>>
        /\ \A r \in Queue \ {q} : items'[r] = items[r]
    BY <1>1, EmptySeq DEF ItemMap
  <1>3. ChunksIn(queues, items) = ChunksOf(items[q]) + ChunksIn(queues', items')
    <2> DEFINE jts == items'
    <2>1. jts \in ItemMap /\ \A r \in Queue \ {q} : jts[r] = items[r]
      BY <1>2
    <2> HIDE DEF jts
    <2>2. ChunksIn(queues, items) = ChunksOf(items[q]) + ChunksIn(queues \ {q}, jts)
      BY <1>1, <2>1, QueueRemoved
    <2> QED
      BY <2>2 DEF jts
  <1>4. IsFiniteSet(queues') /\ queues' \in SUBSET Queue
    BY <1>1, FS_RemoveElement
  <1>5. ChunksIn(queues', items') \in Nat /\ ChunksOf(items[q]) \in Nat
    BY <1>1, <1>2, <1>4, QueuesAreNumbers, ChunksOfType DEF ItemMap
  <1>6. used' = lost' + ChunksIn(queues', items')
    <2> DEFINE a == ChunksIn(queues, items)
               b == ChunksOf(items[q])
               d == ChunksIn(queues', items')
    <2>1. a = b + d /\ b \in Nat /\ d \in Nat /\ used = lost + a /\ used' = used - b
      BY <1>1, <1>3, <1>5
    <2> HIDE DEF a, b, d
    <2> QED
      BY <1>1, <2>1 DEF d
  <1>7. \A r \in Queue \ queues' : items'[r] = <<>>
    BY <1>1, <1>2
  <1> QED
    BY <1>1, <1>2, <1>6, <1>7, CmdInvLater

-----------------------------------------------------------------------------
(* The handlers.                                                           *)

(* What the steps need to know of a state with the invariant.              *)
LEMMA CmdInvFacts ==
  ASSUME CmdInv
  PROVE  /\ HTP!HtInv /\ dead \in BOOLEAN /\ queues \subseteq Queue
         /\ items \in ItemMap /\ lost \in Nat /\ serving \in BOOLEAN /\ used \in Nat
         /\ \A n \in Chunks : n \in Nat
  <1>1. HTP!HtInv /\ HT!TypeOK /\ queues \in SUBSET Queue /\ IsFiniteSet(queues)
    BY CmdInvParts, TableTypes
  <1>2. ChunksIn(queues, items) \in Nat /\ lost \in Nat /\ used = lost + ChunksIn(queues, items)
    BY <1>1, CmdInvParts, QueuesAreNumbers
  <1>3. used \in Nat
    BY <1>2
  <1> QED
    BY <1>1, <1>3, CmdInvParts, LimitAssumption DEF HT!TypeOK

(* A handler that leaves the table and the queues alone.                   *)
LEMMA TableUntouched ==
  ASSUME CmdInv, UNCHANGED <<tvars, items, lost>>, used' = used, serving' \in BOOLEAN
  PROVE  CmdInv'
  BY CmdInvFacts, TableStays, NothingTaken DEF tvars

(* A request that is freed as it was read.                                 *)
LEMMA RequestFreed ==
  ASSUME CmdInv, NEW n \in Chunks, Settle(n, n)
  PROVE  used' = used
  BY CmdInvFacts DEF Settle

(* The number of an item is one.                                           *)
LEMMA NextIdType ==
  ASSUME NEW s \in Seq(Item)
  PROVE  NextId(s) \in Nat
  <1>1. CASE s = <<>>
    BY <1>1 DEF NextId
  <1>2. CASE s # <<>>
    <2>1. Len(s) \in 1..Len(s)
      BY <1>2, EmptySeq, LenProperties
    <2>2. s[Len(s)] \in Item
      BY <2>1, ElementOfSeq
    <2>3. s[Len(s)].id \in Nat
      BY <2>2 DEF Item
    <2> QED
      BY <1>2, <2>3, LimitAssumption DEF NextId
  <1> QED
    BY <1>1, <1>2

(* push.                                                                   *)
LEMMA PushKeeps ==
  ASSUME CmdInv, NEW fd \in Fd, NEW k \in Key, NEW v \in Value \cup {NULL}, NEW n \in Chunks,
         Push(fd, k, v, n)
  PROVE  CmdInv'
  <1>1. PICK q \in Queue :
          /\ GetQueue(k, q)
          /\ IF Len(items[q]) > AoqMaxSize
               THEN lost' = lost + n /\ UNCHANGED items
               ELSE /\ items' = [items EXCEPT ![q] =
                                   Append(@, [id |-> NextId(@), value |-> v, chunks |-> n])]
                    /\ UNCHANGED lost
    BY DEF Push
  <1>2. used' = used + n /\ serving' = serving
    BY CmdInvFacts DEF Push, Settle
  <1>3. /\ items \in ItemMap /\ items[q] \in Seq(Item) /\ lost \in Nat /\ used \in Nat /\ n \in Nat
        /\ serving \in BOOLEAN /\ HTP!HtInv' /\ queues' = queues \cup {q}
    BY <1>1, CmdInvFacts, Gets DEF ItemMap
  <1>4. ChunksOf(items[q]) \in Nat
    BY <1>3, ChunksOfType
  <1>5. CASE lost' = lost + n /\ UNCHANGED items
    <2>1. lost' \in Nat
      BY <1>3, <1>5
    <2>2. used' = used + (lost' - lost) + (ChunksOf(items'[q]) - ChunksOf(items[q]))
      <3>1. ChunksOf(items'[q]) = ChunksOf(items[q])
        BY <1>5
      <3> QED
        BY <1>2, <1>3, <1>4, <1>5, <3>1
    <2> QED
      BY <1>2, <1>3, <1>5, <2>1, <2>2, OneQueueServed
  <1>6. CASE /\ items' = [items EXCEPT ![q] =
                            Append(@, [id |-> NextId(@), value |-> v, chunks |-> n])]
             /\ UNCHANGED lost
    <2> DEFINE e == [id |-> NextId(items[q]), value |-> v, chunks |-> n]
    <2>1. NextId(items[q]) \in Nat
      BY <1>3, NextIdType
    <2>2. e \in Item /\ e.chunks = n
      BY <2>1 DEF Item
    <2> HIDE DEF e
    <2>3. Append(items[q], e) \in Seq(Item) /\ ChunksOf(Append(items[q], e)) = ChunksOf(items[q]) + n
      BY <1>3, <2>2, AppendProperties, ChunksOfAppend
    <2>4. items' = [items EXCEPT ![q] = Append(items[q], e)]
      BY <1>3, <1>6 DEF ItemMap, e
    <2>5. /\ items' \in ItemMap /\ items'[q] = Append(items[q], e)
          /\ \A r \in Queue \ {q} : items'[r] = items[r]
      BY <1>3, <2>3, <2>4 DEF ItemMap
    <2>6. lost' = lost /\ lost' - lost = 0 /\ lost' \in Nat
      BY <1>3, <1>6
    <2>7. used' = used + (lost' - lost) + (ChunksOf(items'[q]) - ChunksOf(items[q]))
      BY <1>2, <1>3, <1>4, <2>3, <2>5, <2>6
    <2> QED
      BY <1>2, <1>3, <2>5, <2>6, <2>7, OneQueueServed
  <1> QED
    BY <1>1, <1>5, <1>6

(* pop of an empty queue.                                                  *)
LEMMA PopEmptyKeeps ==
  ASSUME CmdInv, NEW fd \in Fd, NEW k \in Key, NEW n \in Chunks, PopEmpty(fd, k, n)
  PROVE  CmdInv'
  <1>1. PICK q \in Queue : GetQueue(k, q) /\ items[q] = <<>>
    BY DEF PopEmpty
  <1>2. used' = used /\ items' = items /\ lost' = lost /\ serving' = serving
    BY RequestFreed DEF PopEmpty
  <1>3. /\ items \in ItemMap /\ lost \in Nat /\ used \in Nat
        /\ serving \in BOOLEAN /\ HTP!HtInv' /\ queues' = queues \cup {q}
    BY <1>1, CmdInvFacts, Gets
  <1>4. used' = used + (lost' - lost) + (ChunksOf(items'[q]) - ChunksOf(items[q]))
    <2>1. ChunksOf(items'[q]) = 0 /\ ChunksOf(items[q]) = 0
      BY <1>1, <1>2, ChunksOfNone
    <2> QED
      BY <1>2, <1>3, <2>1
  <1> QED
    BY <1>2, <1>3, <1>4, OneQueueServed

(* An item is taken from a queue, and its chunks are freed.                *)
LEMMA HeadTaken ==
  ASSUME CmdInv, HTP!HtInv', NEW q \in Queue, queues' = queues \cup {q}, items[q] # <<>>,
         items' = [items EXCEPT ![q] = Tail(@)], used' = used - Head(items[q]).chunks,
         lost' = lost, serving' = serving
  PROVE  CmdInv'
  <1>1. /\ items \in ItemMap /\ items[q] \in Seq(Item) /\ lost \in Nat /\ used \in Nat
        /\ serving \in BOOLEAN
    BY CmdInvFacts DEF ItemMap
  <1>2. /\ Tail(items[q]) \in Seq(Item) /\ Head(items[q]).chunks \in Nat
        /\ ChunksOf(items[q]) = Head(items[q]).chunks + ChunksOf(Tail(items[q]))
        /\ ChunksOf(Tail(items[q])) \in Nat
    BY <1>1, HeadTailProperties, ChunksOfTail, ChunksOfType
  <1>3. /\ items' \in ItemMap /\ items'[q] = Tail(items[q])
        /\ \A r \in Queue \ {q} : items'[r] = items[r]
    BY <1>1, <1>2 DEF ItemMap
  <1>4. used' = used + (lost' - lost) + (ChunksOf(items'[q]) - ChunksOf(items[q]))
    BY <1>1, <1>2, <1>3
  <1> QED
    BY <1>1, <1>3, <1>4, OneQueueServed

(* pop.                                                                    *)
LEMMA PopKeeps ==
  ASSUME CmdInv, NEW fd \in Fd, NEW k \in Key, NEW n \in Chunks, Pop(fd, k, n)
  PROVE  CmdInv'
  <1>1. PICK q \in Queue :
          /\ GetQueue(k, q) /\ items[q] # <<>>
          /\ items' = [items EXCEPT ![q] = Tail(@)]
          /\ Settle(n, n + Head(items[q]).chunks)
    BY DEF Pop
  <1>2. HTP!HtInv' /\ queues' = queues \cup {q}
    BY <1>1, CmdInvFacts, Gets
  <1>3. used' = used - Head(items[q]).chunks
    <2>1. items[q] \in Seq(Item) /\ used \in Nat /\ n \in Nat
      BY CmdInvFacts DEF ItemMap
    <2>2. Head(items[q]).chunks \in Nat
      BY <1>1, <2>1, ChunksOfTail
    <2> QED
      BY <1>1, <2>1, <2>2 DEF Settle
  <1>4. lost' = lost /\ serving' = serving
    BY DEF Pop
  <1> QED
    BY <1>1, <1>2, <1>3, <1>4, HeadTaken

(* pop of an item without a value.                                         *)
LEMMA PopNoValueKeeps ==
  ASSUME CmdInv, NEW fd \in Fd, NEW k \in Key, PopNoValue(fd, k)
  PROVE  CmdInv'
  <1> DEFINE q == QueueOf(k)
  <1>1. /\ Found(k) /\ items[q] # <<>>
        /\ items' = [items EXCEPT ![q] = Tail(items[q])]
        /\ used' = used - Head(items[q]).chunks
        /\ UNCHANGED <<ht, queues, map, intact>> /\ dead' = TRUE
        /\ lost' = lost /\ serving' = serving
    <2>1. q \in queues /\ items \in ItemMap /\ queues \subseteq Queue
      BY CmdInvFacts, FoundQueue DEF PopNoValue
    <2> QED
      BY <2>1 DEF PopNoValue, ItemMap
  <1>2. q \in queues /\ q \in Queue
    BY <1>1, CmdInvFacts, FoundQueue
  <1>3. HTP!HtInv' /\ queues' = queues \cup {q}
    BY <1>1, <1>2, CmdInvFacts, TableStays
  <1> HIDE DEF q
  <1> QED
    BY <1>1, <1>2, <1>3, HeadTaken

(* delqueue.                                                               *)
LEMMA DelQueueKeeps ==
  ASSUME CmdInv, NEW fd \in Fd, NEW k \in Key, NEW n \in Chunks, DelQueue(fd, k, n)
  PROVE  CmdInv'
  <1> DEFINE q == QueueOf(k)
  <1>1. /\ HT!DelQueue(k) /\ Settle(n, n + ChunksOf(items[q]))
        /\ items' = [items EXCEPT ![q] = <<>>] /\ lost' = lost /\ serving' = serving
    BY DEF DelQueue
  <1>2. Found(k) /\ queues' = queues \ {q}
    BY <1>1 DEF HT!DelQueue, Found, QueueOf
  <1>3. q \in queues /\ q \in Queue /\ HTP!HtInv'
    BY <1>1, <1>2, CmdInvFacts, FoundQueue, TableNext
  <1> HIDE DEF q
  <1>4. used' = used - ChunksOf(items[q]) /\ serving' \in BOOLEAN
    <2>1. items[q] \in Seq(Item) /\ used \in Nat /\ n \in Nat /\ serving \in BOOLEAN
      BY <1>3, CmdInvFacts DEF ItemMap
    <2>2. ChunksOf(items[q]) \in Nat
      BY <2>1, ChunksOfType
    <2> QED
      BY <1>1, <2>1, <2>2 DEF Settle
  <1> QED
    BY <1>1, <1>2, <1>3, <1>4, OneQueueDeleted

-----------------------------------------------------------------------------
(* The invariant of the specification.                                     *)

(* It holds before the log is read.                                        *)
LEMMA InitCmdInv == Init => CmdInv
  <1> SUFFICES ASSUME Init PROVE CmdInv
    OBVIOUS
  <1>1. HTP!HtInv /\ queues = {}
    BY TableInit DEF Init, HT!Init
  <1>2. items \in ItemMap /\ \A q \in Queue : items[q] = <<>>
    BY EmptySeq DEF Init, ItemMap
  <1>3. ChunksIn(queues, items) = 0
    <2>1. IsFiniteSet({}) /\ {} \in SUBSET Queue
      BY FS_EmptySet
    <2>2. Numbers(Chunked({}, items), {}) /\ ChunksIn({}, items) = Total(Chunked({}, items))
      BY <1>2, <2>1, QueuesAreNumbers
    <2> QED
      BY <1>1, <2>2, TotalOfNone
  <1>4. used = 0 /\ lost = 0 /\ serving = FALSE
    BY DEF Init
  <1>5. lost \in Nat /\ used = lost + ChunksIn(queues, items)
    BY <1>3, <1>4
  <1>6. \A q \in Queue \ queues : items[q] = <<>>
    BY <1>2
  <1>7. serving \in BOOLEAN
    BY <1>4
  <1> QED
    BY <1>1, <1>2, <1>5, <1>6, <1>7, CmdInvParts

(* Every step keeps it.                                                    *)
LEMMA NextCmdInv == CmdInv /\ [Next]_vars => CmdInv'
  <1> SUFFICES ASSUME CmdInv, [Next]_vars PROVE CmdInv'
    OBVIOUS
  <1>1. serving \in BOOLEAN /\ HTP!HtInv
    BY CmdInvFacts
  <1>2. CASE StartServing
    BY <1>2, TableUntouched DEF StartServing
  <1>3. ASSUME NEW fd \in Fd, StrayQueues(fd) PROVE CmdInv'
    BY <1>1, <1>3, TableStays, NothingTaken DEF StrayQueues
  <1>4. ASSUME NEW fd \in Fd, NEW n \in Chunks,
               Queues(fd, n) \/ Status(fd, n) \/ BadName(fd, n) \/ Malformed(fd, n)
        PROVE  CmdInv'
    <2>1. UNCHANGED <<tvars, items, lost, serving>> /\ Settle(n, n)
      BY <1>4 DEF Queues, Status, BadName, Malformed
    <2> QED
      BY <1>1, <2>1, RequestFreed, TableUntouched
  <1>5. ASSUME NEW fd \in Fd, NEW k \in Key, Stray(fd, k) PROVE CmdInv'
    <2>1. HTP!HtInv'
      BY <1>1, <1>5, TableNext DEF Stray
    <2>2. queues' = queues
      BY <1>5 DEF Stray, HT!Crash
    <2> QED
      BY <1>1, <1>5, <2>1, <2>2, NothingTaken DEF Stray
  <1>6. ASSUME NEW fd \in Fd, NEW k \in Key, NEW n \in Chunks,
               QueryQueue(fd, k, n) \/ DelMissing(fd, k, n)
        PROVE  CmdInv'
    <2>1. UNCHANGED <<tvars, items, lost, serving>> /\ Settle(n, n)
      BY <1>6 DEF QueryQueue, DelMissing
    <2> QED
      BY <1>1, <2>1, RequestFreed, TableUntouched
  <1>7. CASE UNCHANGED vars
    BY <1>1, <1>7, TableUntouched DEF vars
  <1> QED
    BY <1>2, <1>3, <1>4, <1>5, <1>6, <1>7, PushKeeps, PopEmptyKeeps, PopKeeps, PopNoValueKeeps,
       DelQueueKeeps DEF Next

(* So it holds throughout.                                                 *)
LEMMA CmdInvariant == Spec => []CmdInv
  <1>1. Init => CmdInv
    BY InitCmdInv
  <1>2. CmdInv /\ [Next]_vars => CmdInv'
    BY NextCmdInv
  <1> QED
    BY <1>1, <1>2, PTL DEF Spec

-----------------------------------------------------------------------------
(* The queues as a client sees them.                                       *)

Entry == [id : Nat, value : Value \cup {NULL}]
EntryOf(e) == [id |-> e.id, value |-> e.value]
View(s) == [i \in DOMAIN s |-> EntryOf(s[i])]

(* A queue that exists is seen as what it holds.                           *)
LEMMA StoreIsView ==
  ASSUME NEW k \in Key
  PROVE  Store[k] = IF map[k] = NULL THEN NULL ELSE View(items[map[k]])
  BY DEF Store, View, EntryOf

(* What is seen of a sequence of items.                                    *)
LEMMA ViewIsSeq ==
  ASSUME NEW s \in Seq(Item)
  PROVE  /\ View(s) \in Seq(Entry) /\ View(s) # NULL
         /\ Len(View(s)) = Len(s) /\ Len(s) \in Nat
         /\ \A i \in 1..Len(s) : View(s)[i] = EntryOf(s[i])
         /\ View(s) = <<>> <=> s = <<>>
  <1>1. /\ Len(s) \in Nat /\ DOMAIN s = 1..Len(s)
        /\ \A i \in 1..Len(s) : s[i] \in Item
    BY LenProperties, ElementOfSeq
  <1>2. \A i \in 1..Len(s) : EntryOf(s[i]) \in Entry
    BY <1>1 DEF Item, Entry, EntryOf
  <1>3. View(s) = [i \in 1..Len(s) |-> EntryOf(s[i])]
    BY <1>1 DEF View
  <1>4. View(s) \in Seq(Entry)
    BY <1>1, <1>2, <1>3, IsASeq
  <1>5. Len(View(s)) = Len(s)
    BY <1>1, <1>3, <1>4, LenProperties
  <1>6. View(s) # NULL
    BY <1>4, StoreAssumption DEF Entry
  <1>7. View(s) = <<>> <=> s = <<>>
    BY <1>4, <1>5, EmptySeq
  <1> QED
    BY <1>1, <1>3, <1>4, <1>5, <1>6, <1>7

(* An item added is seen behind the others.                                *)
LEMMA ViewOfAppend ==
  ASSUME NEW s \in Seq(Item), NEW e \in Item
  PROVE  View(Append(s, e)) = Append(View(s), EntryOf(e))
  <1> DEFINE t == Append(s, e)
             u == Append(View(s), EntryOf(e))
  <1>1. /\ t \in Seq(Item) /\ Len(t) = Len(s) + 1
        /\ \A i \in 1..Len(s) : t[i] = s[i]
        /\ t[Len(s) + 1] = e
    BY AppendProperties
  <1>2. EntryOf(e) \in Entry
    BY DEF Item, Entry, EntryOf
  <1>3. /\ View(s) \in Seq(Entry) /\ Len(View(s)) = Len(s) /\ Len(s) \in Nat
        /\ \A i \in 1..Len(s) : View(s)[i] = EntryOf(s[i])
    BY ViewIsSeq
  <1>4. /\ u \in Seq(Entry) /\ Len(u) = Len(s) + 1
        /\ \A i \in 1..Len(s) : u[i] = View(s)[i]
        /\ u[Len(s) + 1] = EntryOf(e)
    BY <1>2, <1>3, AppendProperties
  <1>5. /\ View(t) \in Seq(Entry) /\ Len(View(t)) = Len(s) + 1
        /\ \A i \in 1..Len(t) : View(t)[i] = EntryOf(t[i])
    BY <1>1, ViewIsSeq
  <1>6. \A i \in 1..(Len(s) + 1) : View(t)[i] = u[i]
    BY <1>1, <1>3, <1>4, <1>5
  <1> HIDE DEF t, u
  <1>7. View(t) = u
    BY <1>4, <1>5, <1>6, SeqEqual
  <1> QED
    BY <1>7 DEF t, u

(* A head taken is taken from what is seen.                                *)
LEMMA ViewOfTail ==
  ASSUME NEW s \in Seq(Item), s # <<>>
  PROVE  View(Tail(s)) = Tail(View(s)) /\ Head(View(s)) = EntryOf(Head(s))
  <1> DEFINE t == Tail(s)
             u == Tail(View(s))
  <1>1. /\ t \in Seq(Item) /\ Len(t) = Len(s) - 1 /\ Len(s) \in Nat /\ Len(s) >= 1
        /\ \A i \in 1..Len(t) : t[i] = s[i + 1]
        /\ Head(s) = s[1]
    BY HeadTailProperties, LenProperties, EmptySeq
  <1>2. /\ View(s) \in Seq(Entry) /\ Len(View(s)) = Len(s) /\ View(s) # <<>>
        /\ \A i \in 1..Len(s) : View(s)[i] = EntryOf(s[i])
    BY ViewIsSeq
  <1>3. /\ u \in Seq(Entry) /\ Len(u) = Len(s) - 1
        /\ \A i \in 1..Len(u) : u[i] = View(s)[i + 1]
        /\ Head(View(s)) = View(s)[1]
    BY <1>2, HeadTailProperties
  <1>4. /\ View(t) \in Seq(Entry) /\ Len(View(t)) = Len(s) - 1
        /\ \A i \in 1..Len(t) : View(t)[i] = EntryOf(t[i])
    BY <1>1, ViewIsSeq
  <1>5. \A i \in 1..Len(t) : i + 1 \in 1..Len(s)
    BY <1>1
  <1>6. \A i \in 1..(Len(s) - 1) : View(t)[i] = u[i]
    BY <1>1, <1>2, <1>3, <1>4, <1>5
  <1>7. Head(View(s)) = EntryOf(Head(s))
    BY <1>1, <1>2, <1>3
  <1> HIDE DEF t, u
  <1>8. View(t) = u
    BY <1>3, <1>4, <1>6, SeqEqual
  <1> QED
    BY <1>7, <1>8 DEF t, u

(* The number of the next item, and what the queue command tells, can be   *)
(* seen.                                                                   *)
LEMMA ViewTellsAll ==
  ASSUME NEW s \in Seq(Item)
  PROVE  /\ Service!NextId(View(s)) = NextId(s)
         /\ Service!Describe(View(s)) = Describe(s)
  <1>1. /\ View(s) \in Seq(Entry) /\ Len(View(s)) = Len(s) /\ Len(s) \in Nat
        /\ \A i \in 1..Len(s) : View(s)[i] = EntryOf(s[i])
        /\ View(s) = <<>> <=> s = <<>>
    BY ViewIsSeq
  <1>2. CASE s = <<>>
    BY <1>1, <1>2 DEF Service!NextId, NextId, Service!Describe, Describe
  <1>3. CASE s # <<>>
    <2>1. Len(s) \in 1..Len(s)
      BY <1>1, <1>3, EmptySeq
    <2>2. View(s)[Len(View(s))] = EntryOf(s[Len(s)])
      BY <1>1, <2>1
    <2>3. View(s)[Len(View(s))].id = s[Len(s)].id
      BY <2>2 DEF EntryOf
    <2>4. Head(View(s)).id = Head(s).id
      BY <1>3, ViewOfTail DEF EntryOf
    <2> QED
      BY <1>1, <1>3, <2>3, <2>4 DEF Service!NextId, NextId, Service!Describe, Describe
  <1> QED
    BY <1>2, <1>3

-----------------------------------------------------------------------------
(* What the table can be relied on for, with names it can keep.            *)

(* Every name in the table is one that was asked for.                      *)
Uncut == \A b \in HTP!Bucket : ht.key[b] # CUT

(* Of what makes the promise stand, the part the table answers for.        *)
Reliable ==
  /\ \A k \in Key : IF map[k] = NULL THEN HT!Find(k).how = "miss"
                    ELSE Found(k) /\ QueueOf(k) = map[k] /\ map[k] \in queues
  /\ \A j, k \in Key : map[j] = map[k] /\ map[k] # NULL => j = k

(* An intact table without long names can be relied on.                    *)
LEMMA IntactIsReliable ==
  ASSUME HTP!HtInv, intact, LongKey = {}
  PROVE  Reliable
  <1>1. /\ HTP!Sound(ht) /\ HTP!Whole /\ queues = {ht.value[b] : b \in HTP!Held}
        /\ HTP!Held = HTP!InUse(ht)
    BY DEF HTP!HtInv, HTP!Held, HTP!InUse
  <1>2. ASSUME NEW k \in Key, map[k] = NULL PROVE HT!Find(k).how = "miss"
    <2>1. HTP!Exact(k)
      BY <1>1, TableAssumptions, HTP!WholeIsExact
    <2> QED
      BY <1>2, <2>1, SameFind DEF HTP!Exact
  <1>3. ASSUME NEW k \in Key, map[k] # NULL
        PROVE  Found(k) /\ QueueOf(k) = map[k] /\ map[k] \in queues
    <2>1. HTP!Exact(k)
      BY <1>1, TableAssumptions, HTP!WholeIsExact
    <2>2. Found(k) /\ QueueOf(k) = map[k]
      BY <1>3, <2>1, SameFind DEF HTP!Exact, Found, QueueOf
    <2> QED
      BY <2>2, FoundQueue
  <1>4. ASSUME NEW j \in Key, NEW k \in Key, map[j] = map[k], map[k] # NULL PROVE j = k
    <2>1. PICK b \in HTP!Held : ht.key[b] = j
      BY <1>1, <1>4 DEF HTP!Whole, HTP!Kept
    <2>2. PICK c \in HTP!Held : ht.key[c] = k
      BY <1>1, <1>4 DEF HTP!Whole, HTP!Kept
    <2>3. ht.value[b] = map[j] /\ ht.value[c] = map[k]
      BY <1>1, <2>1, <2>2 DEF HTP!Whole, HTP!Named
    <2>4. b = c
      BY <1>1, <1>4, <2>3 DEF HTP!Sound, HTP!Owning
    <2> QED
      BY <2>1, <2>2, <2>4
  <1> QED
    BY <1>2, <1>3, <1>4 DEF Reliable

(* No name is cut where none is long: not by an insertion, nor by growth.  *)
LEMMA CreateLeavesUncut ==
  ASSUME HTP!HtInv, Uncut, LongKey = {}, NEW k \in Key, NEW q \in Queue, HT!CreateQueue(k, q)
  PROVE  Uncut'
  <1>1. /\ HTP!Sound(ht) /\ HTP!CreateQueue(k, q)
        /\ CUT \notin Key /\ CUT \notin {NULL, JUNK}
    BY SameSteps, TableAssumptions DEF HTP!HtInv, HTP!NullAssumption
  <1>2. PICK t \in HTP!Room(ht) : ht' \in HTP!Insert(t, k, q)
    BY <1>1 DEF HTP!CreateQueue
  <1>3. t \in HTP!TableType
    BY <1>1, <1>2, TableAssumptions, HTP!RoomSound DEF HTP!Sound
  <1>4. \A b \in HTP!Bucket : t.key[b] # CUT
    <2>1. CASE t \in HTP!Grown(ht)
      <3>1. \A b \in HTP!Bucket : t.key[b] \in {ht.key[b], JUNK, NULL}
        BY <2>1 DEF HTP!Grown
      <3> QED
        BY <1>1, <3>1 DEF Uncut
    <2>2. CASE t = ht
      BY <2>2 DEF Uncut
    <2> QED
      BY <1>2, <2>1, <2>2 DEF HTP!Room
  <1>5. \A b \in HTP!Bucket : ht'.key[b] \in {t.key[b], k}
    <2>1. PICK c, l : HTP!Fills(t, ht', k, q, c, l)
      BY <1>1, <1>2, TableAssumptions, HTP!InsertFills DEF HTP!CreateQueue
    <2>2. ht'.key = [t.key EXCEPT ![c] = k]
      BY <2>1 DEF HTP!Fills, HTP!Stored
    <2> QED
      BY <1>3, <2>2 DEF HTP!TableType
  <1> QED
    BY <1>1, <1>4, <1>5 DEF Uncut

(* So every name in the table is short from the start.                     *)
LEMMA InitUncut == Init => Uncut
  <1> SUFFICES ASSUME Init PROVE Uncut
    OBVIOUS
  <1>1. PICK n \in Sizes : ht = HT!Table(n)
    BY DEF Init, HT!Init
  <1> QED
    BY <1>1, TableAssumptions DEF HT!Table, HT!Bucket, HTP!Bucket, Uncut, HTP!NullAssumption

(* What a step does to the table.                                          *)
LEMMA TableSteps ==
  ASSUME [Next]_vars
  PROVE  \/ UNCHANGED <<ht, intact>>
         \/ \E k \in Key, q \in Queue : HT!CreateQueue(k, q)
         \/ \E k \in Key : HT!DelQueue(k)
  <1>1. CASE UNCHANGED vars
    BY <1>1 DEF vars, tvars
  <1>2. CASE StartServing
    BY <1>2 DEF StartServing, tvars
  <1>3. ASSUME NEW fd \in Fd, StrayQueues(fd) PROVE UNCHANGED <<ht, intact>>
    BY <1>3 DEF StrayQueues
  <1>4. ASSUME NEW fd \in Fd, NEW n \in Chunks,
               Queues(fd, n) \/ Status(fd, n) \/ BadName(fd, n) \/ Malformed(fd, n)
        PROVE  UNCHANGED <<ht, intact>>
    BY <1>4 DEF Queues, Status, BadName, Malformed, tvars
  <1>5. ASSUME NEW fd \in Fd, NEW k \in Key, PopNoValue(fd, k) \/ Stray(fd, k)
        PROVE  UNCHANGED <<ht, intact>>
    BY <1>5 DEF PopNoValue, Stray, HT!Crash
  <1>6. ASSUME NEW k \in Key, NEW q \in Queue, GetQueue(k, q)
        PROVE  UNCHANGED <<ht, intact>> \/ HT!CreateQueue(k, q)
    BY <1>6 DEF GetQueue, tvars
  <1>7. ASSUME NEW fd \in Fd, NEW k \in Key, NEW n \in Chunks, NEW v \in Value \cup {NULL},
               Push(fd, k, v, n) \/ PopEmpty(fd, k, n) \/ Pop(fd, k, n)
        PROVE  \E q \in Queue : GetQueue(k, q)
    BY <1>7 DEF Push, PopEmpty, Pop
  <1>8. ASSUME NEW fd \in Fd, NEW k \in Key, NEW n \in Chunks,
               QueryQueue(fd, k, n) \/ DelMissing(fd, k, n)
        PROVE  UNCHANGED <<ht, intact>>
    BY <1>8 DEF QueryQueue, DelMissing, tvars
  <1>9. ASSUME NEW fd \in Fd, NEW k \in Key, NEW n \in Chunks, DelQueue(fd, k, n)
        PROVE  HT!DelQueue(k)
    BY <1>9 DEF DelQueue
  <1> QED
    BY <1>1, <1>2, <1>3, <1>4, <1>5, <1>6, <1>7, <1>8, <1>9 DEF Next

(* And stays so.                                                           *)
LEMMA NextUncut ==
  ASSUME CmdInv, Uncut, LongKey = {}, [Next]_vars
  PROVE  Uncut'
  <1>1. \/ ht' = ht
        \/ \E k \in Key, q \in Queue : HT!CreateQueue(k, q)
        \/ \E k \in Key : HT!DelQueue(k)
    BY TableSteps
  <1>2. CASE ht' = ht
    BY <1>2 DEF Uncut
  <1>3. ASSUME NEW k \in Key, NEW q \in Queue, HT!CreateQueue(k, q) PROVE Uncut'
    BY <1>3, CmdInvFacts, CreateLeavesUncut
  <1>4. ASSUME NEW k \in Key, HT!DelQueue(k) PROVE Uncut'
    <2>1. ht \in HTP!TableType /\ NULL # CUT
      BY CmdInvFacts, TableAssumptions DEF HTP!HtInv, HTP!Sound, HTP!NullAssumption
    <2>2. PICK b : ht' = [ht EXCEPT !.total = @ - 1,
                                    !.key[b] = NULL, !.value[b] = NULL, !.next[b] = NULL]
      BY <1>4 DEF HT!DelQueue
    <2>3. ht'.key = [ht.key EXCEPT ![b] = NULL]
      BY <2>1, <2>2 DEF HTP!TableType
    <2> QED
      BY <2>1, <2>3 DEF Uncut, HTP!TableType
  <1> QED
    BY <1>1, <1>2, <1>3, <1>4

(* The names the array lists are those that were given queues, and total   *)
(* counts them.                                                            *)
LEMMA NamesInTable ==
  ASSUME HTP!HtInv, intact, Uncut, LongKey = {}
  PROVE  /\ ht.total = Cardinality({k \in Key : map[k] # NULL})
         /\ JUNK \notin Keys => Keys = {k \in Key : map[k] # NULL}
         /\ ~(ht.total > 0) => {k \in Key : map[k] # NULL} = {}
  <1> DEFINE N == {k \in Key : map[k] # NULL}
             f == [b \in HTP!Held |-> ht.key[b]]
  <1>1. /\ HTP!Sound(ht) /\ HTP!Whole
        /\ HTP!Held = HTP!InUse(ht) /\ ht \in HTP!TableType
    BY DEF HTP!HtInv, HTP!Held, HTP!InUse, HTP!Sound
  <1>2. \A b \in HTP!Bucket : ht.key[b] \in Key <=> b \in HTP!Held
    BY <1>1 DEF Uncut, HTP!Sound, HTP!Owning
  <1>3. \A b \in HTP!Held : b \in HTP!Bucket /\ ht.value[b] # NULL
    BY DEF HTP!Held
  <1>4. \A b \in HTP!Held : map[ht.key[b]] = ht.value[b]
    BY <1>1, <1>2, <1>3 DEF HTP!Whole, HTP!Named
  <1>5. \A k \in N : \E b \in HTP!Held : ht.key[b] = k
    BY <1>1 DEF HTP!Whole, HTP!Kept
  <1>6. f \in Bijection(HTP!Held, N)
    <2>1. f \in [HTP!Held -> N]
      BY <1>2, <1>3, <1>4
    <2>2. \A b, c \in HTP!Held : f[b] = f[c] => b = c
      BY <1>1, <1>4 DEF HTP!Sound, HTP!Owning
    <2>3. \A k \in N : \E b \in HTP!Held : f[b] = k
      BY <1>5
    <2> HIDE DEF f, N
    <2> QED
      BY <2>1, <2>2, <2>3 DEF Bijection, Injection, Surjection, IsInjective
  <1>7. ht.total = Cardinality(HTP!Held) /\ IsFiniteSet(HTP!Held)
    <2>1. ht.total = HTP!Cardinality(HTP!Held)
      BY <1>1 DEF HTP!Sound, HTP!Counted
    <2>2. HTP!Cardinality(HTP!Held) = Cardinality(HTP!Held)
      BY Zenon DEF HTP!Cardinality, Cardinality, HTP!IsFiniteSet, IsFiniteSet
    <2>3. IsFiniteSet(0..(MaxSize - 1))
      BY TableAssumptions, FS_Interval DEF HTP!SizeAssumption
    <2>4. HTP!Held \subseteq 0..(MaxSize - 1)
      BY <1>3 DEF HTP!Bucket
    <2> QED
      BY <2>1, <2>2, <2>3, <2>4, FS_Subset
  <1>8. ht.total = Cardinality(N)
    BY <1>6, <1>7, FS_Bijection DEF ExistsBijection
  <1>9. ASSUME JUNK \notin Keys PROVE Keys = N
    <2>1. ASSUME NEW k \in Keys PROVE k \in N
      <3>1. PICK b \in HTP!Bucket : ht.key[b] = k /\ k # NULL
        BY DEF Keys, HT!Bucket, HTP!Bucket
      <3>2. k \in Key
        BY <1>1, <1>9, <3>1 DEF HTP!TableType, Uncut
      <3> QED
        BY <1>2, <1>3, <1>4, <3>1, <3>2
    <2>2. ASSUME NEW k \in N PROVE k \in Keys
      <3>1. PICK b \in HTP!Held : ht.key[b] = k
        BY <1>5
      <3>2. k # NULL
        BY TableAssumptions DEF HTP!NullAssumption
      <3> QED
        BY <1>3, <3>1, <3>2 DEF Keys, HT!Bucket, HTP!Bucket
    <2> QED
      BY <2>1, <2>2
  <1>10. ASSUME ~(ht.total > 0) PROVE N = {}
    <2>1. ht.total \in Nat
      BY <1>1 DEF HTP!TableType
    <2>2. ht.total = 0
      BY <1>10, <2>1
    <2>3. HTP!Held = {}
      BY <1>7, <2>2, FS_EmptySet
    <2> QED
      BY <1>5, <2>3
  <1> QED
    BY <1>8, <1>9, <1>10

-----------------------------------------------------------------------------
(* The handlers do what AoqService says.                                   *)

(* One name's queue changes, and no other name has that queue.             *)
LEMMA StoreUpdated ==
  ASSUME NEW k \in Key, NEW q \in Queue, NEW s,
         map' = [map EXCEPT ![k] = q], \A j \in Key \ {k} : map[j] # q,
         map \in [Key -> Queue \cup {NULL}], items \in ItemMap,
         items' = [items EXCEPT ![q] = s]
  PROVE  Store' = [Store EXCEPT ![k] = View(s)]
  <1>1. q # NULL
    BY TableAssumptions DEF HTP!NullAssumption
  <1>2. map' \in [Key -> Queue \cup {NULL}] /\ map'[k] = q /\ items'[q] = s
    BY DEF ItemMap
  <1>3. \A j \in Key \ {k} : map'[j] = map[j] /\ (map[j] # NULL => items'[map[j]] = items[map[j]])
    BY DEF ItemMap
  <1>4. \A j \in Key :
          Store'[j] = IF map'[j] = NULL THEN NULL ELSE View(items'[map'[j]])
    BY DEF Store, View, EntryOf
  <1>5. \A j \in Key : Store[j] = IF map[j] = NULL THEN NULL ELSE View(items[map[j]])
    BY StoreIsView
  <1>6. DOMAIN Store = Key /\ DOMAIN Store' = Key
    BY DEF Store
  <1>7. Store'[k] = View(s)
    BY <1>1, <1>2, <1>4
  <1>8. \A j \in Key \ {k} : Store'[j] = Store[j]
    BY <1>3, <1>4, <1>5
  <1>9. Store = [j \in Key |-> Store[j]] /\ Store' = [j \in Key |-> Store'[j]]
    BY DEF Store
  <1> QED
    BY <1>6, <1>7, <1>8, <1>9

(* The queue of a name is deleted.                                         *)
LEMMA StoreDeleted ==
  ASSUME NEW k \in Key, NEW q \in Queue,
         map' = [map EXCEPT ![k] = NULL], \A j \in Key \ {k} : map[j] # q,
         map \in [Key -> Queue \cup {NULL}], items \in ItemMap,
         items' = [items EXCEPT ![q] = <<>>]
  PROVE  Store' = [Store EXCEPT ![k] = NULL]
  <1>1. map'[k] = NULL
    OBVIOUS
  <1>2. \A j \in Key \ {k} : map'[j] = map[j] /\ (map[j] # NULL => items'[map[j]] = items[map[j]])
    BY DEF ItemMap
  <1>3. \A j \in Key :
          Store'[j] = IF map'[j] = NULL THEN NULL ELSE View(items'[map'[j]])
    BY DEF Store, View, EntryOf
  <1>4. \A j \in Key : Store[j] = IF map[j] = NULL THEN NULL ELSE View(items[map[j]])
    BY StoreIsView
  <1>5. Store'[k] = NULL /\ \A j \in Key \ {k} : Store'[j] = Store[j]
    BY <1>1, <1>2, <1>3, <1>4
  <1>6. Store = [j \in Key |-> Store[j]] /\ Store' = [j \in Key |-> Store'[j]]
    BY DEF Store
  <1> QED
    BY <1>5, <1>6

(* Nothing a client can see changes.                                       *)
LEMMA StoreUntouched ==
  ASSUME map' = map, items' = items
  PROVE  Store' = Store
  BY DEF Store

(* What the steps need of a state in which the promise stands.             *)
LEMMA ReliableFacts ==
  ASSUME CmdInv, intact, LongKey = {}
  PROVE  /\ Reliable
         /\ map \in [Key -> Queue \cup {NULL}] /\ items \in ItemMap
         /\ \A k \in Key : map[k] # NULL => map[k] \in Queue
         /\ \A q \in Queue : items[q] \in Seq(Item) /\ q # NULL
         /\ \A q \in Queue \ queues : items[q] = <<>>
  <1>1. HTP!HtInv /\ items \in ItemMap /\ \A q \in Queue \ queues : items[q] = <<>>
    BY CmdInvParts
  <1>2. map \in [Key -> Queue \cup {NULL}]
    BY <1>1, TableTypes DEF HT!TypeOK
  <1>3. Reliable
    BY <1>1, IntactIsReliable
  <1> QED
    BY <1>1, <1>2, <1>3, TableAssumptions DEF ItemMap, HTP!NullAssumption

(* The queue a handler gets is the name's and no other's.                  *)
LEMMA GetsOwn ==
  ASSUME CmdInv, intact, LongKey = {}, NEW k \in Key, NEW q \in Queue, GetQueue(k, q)
  PROVE  /\ map' = [map EXCEPT ![k] = q]
         /\ \A j \in Key \ {k} : map[j] # q
         /\ Service!Items(Store, k) = View(items[q])
         /\ items[q] # <<>> => map[k] = q
  <1>1. /\ Reliable /\ map \in [Key -> Queue \cup {NULL}]
        /\ \A r \in Queue : items[r] \in Seq(Item) /\ r # NULL
        /\ \A r \in Queue \ queues : items[r] = <<>>
    BY ReliableFacts
  <1>2. View(<<>>) = <<>>
    BY ViewIsSeq, EmptySeq
  <1>3. View(items[q]) # NULL
    BY <1>1, ViewIsSeq
  <1>4. CASE Found(k) /\ q = QueueOf(k) /\ UNCHANGED tvars
    <2>1. map[k] # NULL /\ map[k] = q
      BY <1>1, <1>4 DEF Reliable, Found
    <2>2. map' = [map EXCEPT ![k] = q]
      BY <1>1, <1>4, <2>1 DEF tvars
    <2>3. Store[k] = View(items[q])
      BY <2>1, StoreIsView
    <2> QED
      BY <1>1, <1>3, <2>1, <2>2, <2>3 DEF Reliable, Service!Items
  <1>5. CASE HT!CreateQueue(k, q)
    <2>1. HT!Find(k).how = "miss" /\ q \notin queues /\ map' = [map EXCEPT ![k] = q]
      BY <1>5 DEF HT!CreateQueue
    <2>2. map[k] = NULL
      BY <1>1, <2>1 DEF Reliable, Found
    <2>3. \A j \in Key : map[j] # q
      BY <1>1, <2>1 DEF Reliable
    <2>4. items[q] = <<>>
      BY <1>1, <2>1
    <2>5. Store[k] = NULL
      BY <2>2, StoreIsView
    <2> QED
      BY <1>2, <2>1, <2>3, <2>4, <2>5 DEF Service!Items
  <1> QED
    BY <1>4, <1>5 DEF GetQueue

(* push.                                                                   *)
LEMMA PushServes ==
  ASSUME CmdInv, intact, LongKey = {}, NEW fd \in Fd, NEW k \in Key,
         NEW v \in Value \cup {NULL}, NEW n \in Chunks, Push(fd, k, v, n)
  PROVE  Service!Push(fd, k, v)
  <1>1. PICK q \in Queue :
          /\ GetQueue(k, q)
          /\ IF Len(items[q]) > AoqMaxSize THEN UNCHANGED items
             ELSE items' = [items EXCEPT ![q] =
                    Append(@, [id |-> NextId(@), value |-> v, chunks |-> n])]
    BY DEF Push
  <1> DEFINE s == items[q]
             e == [id |-> NextId(s), value |-> v, chunks |-> n]
             t == IF Len(s) > AoqMaxSize THEN s ELSE Append(s, e)
  <1>2. /\ s \in Seq(Item) /\ map \in [Key -> Queue \cup {NULL}] /\ items \in ItemMap
    BY ReliableFacts
  <1>3. /\ map' = [map EXCEPT ![k] = q] /\ \A j \in Key \ {k} : map[j] # q
        /\ Service!Items(Store, k) = View(s)
    BY <1>1, GetsOwn
  <1>4. items' = [items EXCEPT ![q] = t]
    BY <1>1, <1>2 DEF ItemMap
  <1>5. Store' = [Store EXCEPT ![k] = View(t)]
    <2> HIDE DEF t
    <2> QED
      BY <1>2, <1>3, <1>4, StoreUpdated
  <1>6. e \in Item /\ EntryOf(e) = [id |-> NextId(s), value |-> v]
    <2>1. NextId(s) \in Nat
      BY <1>2, NextIdType
    <2> HIDE DEF s
    <2> QED
      BY <2>1 DEF Item, EntryOf
  <1>7. View(t) = IF Len(View(s)) > AoqMaxSize THEN View(s)
                  ELSE Append(View(s), [id |-> Service!NextId(View(s)), value |-> v])
    <2>1. Len(View(s)) = Len(s) /\ Service!NextId(View(s)) = NextId(s)
      BY <1>2, ViewIsSeq, ViewTellsAll
    <2>2. View(Append(s, e)) = Append(View(s), EntryOf(e))
      BY <1>2, <1>6, ViewOfAppend
    <2> QED
      BY <1>6, <2>1, <2>2
  <1>8. Service!Answer(fd, "push", <<k, v>>, 1)
    BY DEF Push, Reply, Exchange, Service!Answer, Service!Exchange
  <1> HIDE DEF s, e, t
  <1> QED
    BY <1>3, <1>5, <1>7, <1>8 DEF Service!Push

(* pop of an empty queue.                                                  *)
LEMMA PopEmptyServes ==
  ASSUME CmdInv, intact, LongKey = {}, NEW fd \in Fd, NEW k \in Key, NEW n \in Chunks,
         PopEmpty(fd, k, n)
  PROVE  Service!PopEmpty(fd, k)
  <1>1. PICK q \in Queue : GetQueue(k, q) /\ items[q] = <<>> /\ items' = items
    BY DEF PopEmpty
  <1>2. /\ map' = [map EXCEPT ![k] = q] /\ \A j \in Key \ {k} : map[j] # q
        /\ Service!Items(Store, k) = View(<<>>)
    BY <1>1, GetsOwn
  <1>3. View(<<>>) = <<>>
    BY ViewIsSeq, EmptySeq
  <1>4. map \in [Key -> Queue \cup {NULL}] /\ items \in ItemMap
    BY ReliableFacts
  <1>5. items' = [items EXCEPT ![q] = <<>>]
    BY <1>1, <1>4 DEF ItemMap
  <1>6. Store' = [Store EXCEPT ![k] = <<>>]
    BY <1>2, <1>3, <1>4, <1>5, StoreUpdated
  <1>7. Service!Answer(fd, "pop", <<k>>, NULL)
    BY DEF PopEmpty, Reply, Exchange, Service!Answer, Service!Exchange
  <1> QED
    BY <1>2, <1>3, <1>6, <1>7 DEF Service!PopEmpty

(* pop.                                                                    *)
LEMMA PopServes ==
  ASSUME CmdInv, intact, LongKey = {}, NEW fd \in Fd, NEW k \in Key, NEW n \in Chunks,
         Pop(fd, k, n)
  PROVE  Service!Pop(fd, k)
  <1>1. PICK q \in Queue :
          /\ GetQueue(k, q) /\ items[q] # <<>>
          /\ items' = [items EXCEPT ![q] = Tail(@)]
          /\ Reply(fd, "pop", <<k>>, Head(items[q]).value)
    BY DEF Pop
  <1>2. /\ map' = [map EXCEPT ![k] = q] /\ \A j \in Key \ {k} : map[j] # q
        /\ Service!Items(Store, k) = View(items[q])
        /\ map[k] = q
    BY <1>1, GetsOwn
  <1>3. /\ items[q] \in Seq(Item) /\ q # NULL
        /\ map \in [Key -> Queue \cup {NULL}] /\ items \in ItemMap
    BY ReliableFacts
  <1>4. Store[k] = View(items[q])
    BY <1>2, <1>3, StoreIsView
  <1>5. /\ View(items[q]) # <<>>
        /\ View(Tail(items[q])) = Tail(View(items[q]))
        /\ Head(View(items[q])).value = Head(items[q]).value
    BY <1>1, <1>3, ViewIsSeq, ViewOfTail DEF EntryOf
  <1>6. items' = [items EXCEPT ![q] = Tail(items[q])]
    BY <1>1, <1>3 DEF ItemMap
  <1>7. Store' = [Store EXCEPT ![k] = View(Tail(items[q]))]
    <2> DEFINE t == Tail(items[q])
    <2>1. items' = [items EXCEPT ![q] = t]
      BY <1>6
    <2> HIDE DEF t
    <2>2. Store' = [Store EXCEPT ![k] = View(t)]
      BY <1>2, <1>3, <2>1, StoreUpdated
    <2> QED
      BY <2>2 DEF t
  <1>8. Service!Answer(fd, "pop", <<k>>, Head(Store[k]).value)
    BY <1>1, <1>4, <1>5 DEF Reply, Exchange, Service!Answer, Service!Exchange
  <1>9. Store' = [Store EXCEPT ![k] = Tail(Store[k])]
    BY <1>4, <1>5, <1>7
  <1> QED
    BY <1>2, <1>5, <1>8, <1>9 DEF Service!Pop

(* queue.                                                                  *)
LEMMA QueryServes ==
  ASSUME CmdInv, intact, LongKey = {}, NEW fd \in Fd, NEW k \in Key, NEW n \in Chunks,
         QueryQueue(fd, k, n)
  PROVE  Service!Query(fd, k)
  <1>1. Store' = Store
    BY StoreUntouched DEF QueryQueue, tvars
  <1>2. /\ IF map[k] = NULL THEN HT!Find(k).how = "miss"
           ELSE Found(k) /\ QueueOf(k) = map[k] /\ map[k] \in Queue
        /\ \A q \in Queue : items[q] \in Seq(Item)
    BY ReliableFacts DEF Reliable
  <1>3. (IF Found(k) THEN Describe(items[QueueOf(k)]) ELSE NULL)
        = IF Store[k] = NULL THEN NULL ELSE Service!Describe(Store[k])
    <2>1. CASE map[k] = NULL
      BY <1>2, <2>1, StoreIsView DEF Found
    <2>2. CASE map[k] # NULL
      <3>1. Store[k] = View(items[map[k]]) /\ items[map[k]] \in Seq(Item)
        BY <1>2, <2>2, StoreIsView
      <3>2. Store[k] # NULL /\ Service!Describe(Store[k]) = Describe(items[map[k]])
        BY <3>1, ViewIsSeq, ViewTellsAll
      <3> QED
        BY <1>2, <2>2, <3>2
    <2> QED
      BY <2>1, <2>2
  <1> QED
    BY <1>1, <1>3 DEF QueryQueue, Reply, Exchange, Service!Query, Service!Answer, Service!Exchange

(* delqueue.                                                               *)
LEMMA DelQueueServes ==
  ASSUME CmdInv, intact, LongKey = {}, NEW fd \in Fd, NEW k \in Key, NEW n \in Chunks,
         DelQueue(fd, k, n) \/ DelMissing(fd, k, n)
  PROVE  Service!DelQueue(fd, k)
  <1>1. /\ Reliable /\ map \in [Key -> Queue \cup {NULL}] /\ items \in ItemMap
        /\ \A j \in Key : map[j] # NULL => map[j] \in Queue
        /\ \A q \in Queue : items[q] \in Seq(Item)
    BY ReliableFacts
  <1>2. CASE DelQueue(fd, k, n)
    <2>1. Found(k) /\ map' = [map EXCEPT ![k] = NULL] /\ items' = [items EXCEPT ![QueueOf(k)] = <<>>]
      BY <1>2 DEF DelQueue, HT!DelQueue, Found
    <2>2. map[k] # NULL /\ QueueOf(k) = map[k]
      BY <1>1, <2>1 DEF Reliable, Found
    <2>3. \A j \in Key \ {k} : map[j] # map[k]
      BY <1>1, <2>2 DEF Reliable
    <2>4. Store' = [Store EXCEPT ![k] = NULL]
      BY <1>1, <2>1, <2>2, <2>3, StoreDeleted
    <2>5. Store[k] # NULL
      BY <1>1, <2>2, StoreIsView, ViewIsSeq
    <2> QED
      BY <1>2, <2>4, <2>5 DEF DelQueue, Exchange, Service!DelQueue, Service!Exchange
  <1>3. CASE DelMissing(fd, k, n)
    <2>1. map[k] = NULL
      BY <1>1, <1>3 DEF DelMissing, Reliable, Found
    <2>2. Store[k] = NULL /\ Store' = Store
      BY <1>3, <2>1, StoreIsView, StoreUntouched DEF DelMissing, tvars
    <2>3. Store' = [Store EXCEPT ![k] = NULL]
      BY <2>2 DEF Store
    <2> QED
      BY <1>3, <2>2, <2>3 DEF DelMissing, Exchange, Service!DelQueue, Service!Exchange
  <1> QED
    BY <1>2, <1>3

(* Requests that are not about one name.                                   *)
LEMMA OthersServe ==
  ASSUME CmdInv, intact, Uncut, LongKey = {}, NEW fd \in Fd, NEW n \in Chunks,
         Queues(fd, n) \/ Status(fd, n) \/ BadName(fd, n) \/ Malformed(fd, n)
  PROVE  \/ Service!Queues(fd) \/ Service!Status(fd) \/ Service!Refuse(fd) \/ Service!Ignore(fd)
  <1>1. Store' = Store
    BY StoreUntouched DEF Queues, Status, BadName, Malformed, tvars
  <1>2. Service!Names = {k \in Key : map[k] # NULL}
    <2>1. \A k \in Key : Store[k] # NULL <=> map[k] # NULL
      <3>1. /\ \A k \in Key : map[k] # NULL => map[k] \in Queue
            /\ \A q \in Queue : items[q] \in Seq(Item)
        BY ReliableFacts
      <3>2. \A k \in Key : map[k] # NULL => View(items[map[k]]) # NULL
        BY <3>1, ViewIsSeq
      <3> QED
        BY <3>2, StoreIsView
    <2> QED
      BY <2>1 DEF Service!Names
  <1>3. /\ ht.total = Cardinality(Service!Names)
        /\ JUNK \notin Keys => Keys = Service!Names
        /\ ~(ht.total > 0) => Service!Names = {}
    BY <1>2, CmdInvFacts, NamesInTable
  <1>4. ASSUME Queues(fd, n) PROVE Service!Queues(fd)
    <2>1. fd # 0 => (IF ht.total > 0 THEN Keys ELSE {}) = Service!Names
      BY <1>3, <1>4 DEF Queues
    <2>2. Service!Answer(fd, "queues", <<>>, Service!Names)
      BY <1>4, <2>1 DEF Queues, Reply, Exchange, Service!Answer, Service!Exchange
    <2> QED
      BY <1>1, <2>2 DEF Service!Queues
  <1>5. ASSUME Status(fd, n) PROVE Service!Status(fd)
    <2>1. Service!Cardinality(Service!Names) = Cardinality(Service!Names)
      BY Zenon DEF Service!Cardinality, Cardinality, Service!IsFiniteSet, IsFiniteSet
    <2>2. ht.total = Service!Cardinality(Service!Names)
      BY <1>3, <2>1
    <2>3. Service!Answer(fd, "status", <<>>, Service!Cardinality(Service!Names))
      BY <1>5, <2>2 DEF Status, Reply, Exchange, Service!Answer, Service!Exchange
    <2> QED
      BY <1>1, <2>3 DEF Service!Status
  <1>6. ASSUME BadName(fd, n) PROVE Service!Refuse(fd)
    BY <1>1, <1>6 DEF BadName, Reply, Exchange, Service!Refuse, Service!Answer, Service!Exchange
  <1>7. ASSUME Malformed(fd, n) PROVE Service!Ignore(fd)
    BY <1>1, <1>7 DEF Malformed, Exchange, Service!Ignore, Service!Exchange
  <1> QED
    BY <1>4, <1>5, <1>6, <1>7

(* No step makes the promise stand again.                                  *)
LEMMA PromiseFalls ==
  ASSUME CmdInv, Next, intact', ~dead'
  PROVE  intact /\ ~dead
  <1>1. ~dead
    <2>1. CASE StartServing
      BY <2>1 DEF StartServing
    <2>2. ASSUME NEW fd \in Fd, From(fd) PROVE ~dead
      BY <2>2 DEF From
    <2>3. ASSUME NEW fd \in Fd, NEW n \in Chunks,
                 Queues(fd, n) \/ Status(fd, n) \/ BadName(fd, n) \/ Malformed(fd, n)
          PROVE  From(fd)
      BY <2>3 DEF Queues, Status, BadName, Malformed
    <2>4. ASSUME NEW fd \in Fd, NEW k \in Key,
                 StrayQueues(fd) \/ PopNoValue(fd, k) \/ Stray(fd, k)
          PROVE  From(fd)
      BY <2>4 DEF StrayQueues, PopNoValue, Stray
    <2>5. ASSUME NEW fd \in Fd, NEW k \in Key, NEW n \in Chunks, NEW v \in Value \cup {NULL},
                 \/ Push(fd, k, v, n) \/ PopEmpty(fd, k, n) \/ Pop(fd, k, n)
                 \/ QueryQueue(fd, k, n) \/ DelQueue(fd, k, n) \/ DelMissing(fd, k, n)
          PROVE  From(fd)
      BY <2>5 DEF Push, PopEmpty, Pop, QueryQueue, DelQueue, DelMissing
    <2>6. ASSUME NEW fd \in Fd, StrayQueues(fd) PROVE From(fd)
      BY <2>6 DEF StrayQueues
    <2> QED
      BY <2>1, <2>2, <2>3, <2>4, <2>5, <2>6 DEF Next
  <1>2. \/ UNCHANGED <<ht, intact>>
        \/ \E k \in Key, q \in Queue : HT!CreateQueue(k, q)
        \/ \E k \in Key : HT!DelQueue(k)
    BY TableSteps
  <1>3. intact
    BY <1>2 DEF HT!CreateQueue, HT!DelQueue
  <1> QED
    BY <1>1, <1>3

(* Every step is one of the service.                                       *)
LEMMA NextServes ==
  ASSUME CmdInv, Uncut, LongKey = {}, [Next]_vars
  PROVE  [Service!Next]_(Service!vars)
  <1>1. CASE UNCHANGED vars
    <2>1. Store' = Store
      BY <1>1, StoreUntouched DEF vars, tvars
    <2> QED
      BY <1>1, <2>1 DEF vars, tvars, Service!vars
  <1>2. CASE ~(intact' /\ ~dead')
    BY <1>2 DEF Service!Next
  <1>3. CASE Next /\ intact' /\ ~dead'
    <2>1. intact /\ ~dead
      BY <1>3, PromiseFalls
    <2>2. Service!Serve
      <3>1. CASE StartServing
        <4>1. Store' = Store
          BY <3>1, StoreUntouched DEF StartServing, tvars
        <4>2. Service!Ignore(0)
          BY <3>1, <4>1 DEF StartServing, Exchange, Service!Ignore, Service!Exchange
        <4> QED
          BY <4>2, FdAssumption DEF Service!Serve
      <3>2. ASSUME NEW fd \in Fd, NEW n \in Chunks,
                   Queues(fd, n) \/ Status(fd, n) \/ BadName(fd, n) \/ Malformed(fd, n)
            PROVE  Service!Serve
        BY <2>1, <3>2, OthersServe DEF Service!Serve
      <3>3. ASSUME NEW fd \in Fd, NEW k \in Key, NEW n \in Chunks, NEW v \in Value \cup {NULL},
                   Push(fd, k, v, n)
            PROVE  Service!Serve
        BY <2>1, <3>3, PushServes DEF Service!Serve
      <3>4. ASSUME NEW fd \in Fd, NEW k \in Key, NEW n \in Chunks,
                   \/ PopEmpty(fd, k, n) \/ Pop(fd, k, n) \/ QueryQueue(fd, k, n)
                   \/ DelQueue(fd, k, n) \/ DelMissing(fd, k, n)
            PROVE  Service!Serve
        <4>1. Service!PopEmpty(fd, k) \/ Service!Pop(fd, k) \/ Service!Query(fd, k) \/ Service!DelQueue(fd, k)
          BY <2>1, <3>4, PopEmptyServes, PopServes, QueryServes, DelQueueServes
        <4> QED
          BY <4>1 DEF Service!Serve
      <3>5. ASSUME NEW fd \in Fd, StrayQueues(fd) PROVE FALSE
        BY <1>3, <3>5 DEF StrayQueues
      <3>6. ASSUME NEW fd \in Fd, NEW k \in Key, PopNoValue(fd, k) \/ Stray(fd, k) PROVE FALSE
        BY <1>3, <3>6 DEF PopNoValue, Stray, HT!Crash
      <3> QED
        BY <1>3, <3>1, <3>2, <3>3, <3>4, <3>5, <3>6 DEF Next
    <2>3. UNCHANGED (intact /\ ~dead /\ LongKey = {})
      BY <1>3, <2>1
    <2> QED
      BY <2>2, <2>3 DEF Service!Next
  <1> QED
    BY <1>1, <1>2, <1>3

-----------------------------------------------------------------------------
(* The theorems.                                                           *)

(* The variables of the handlers have their types; in particular the       *)
(* number of chunks in use is never taken below zero by handlers that free *)
(* a request of their own and those of the items they take.                *)
THEOREM TypeCorrect == Spec => []TypeOK
  <1>1. CmdInv => TypeOK
    BY CmdInvFacts, TableTypes DEF TypeOK, ItemMap
  <1> QED
    BY <1>1, CmdInvariant, PTL

(* Each request is freed once, by whoever has it last: what is in use is   *)
(* in the queues that exist or was lost with a refused push, whatever      *)
(* names the table has lost and wherever in a handler the server dies.     *)
THEOREM EveryChunkIsOwned == Spec => []ChunksOwned
  <1>1. CmdInv => ChunksOwned
    BY DEF CmdInv
  <1> QED
    BY <1>1, CmdInvariant, PTL

(* The handlers over the hash table implement AoqService, if no name is    *)
(* too long for the table: as long as it has not grown or lost a link of a *)
(* chain, and no item without a value was popped, every request is         *)
(* answered as one first-in first-out queue for each name would answer it. *)
THEOREM CommandsImplementService ==
  ASSUME LongKey = {}
  PROVE  Spec => ImplementsService
  <1>1. Init => Service!Init
    <2> SUFFICES ASSUME Init PROVE Service!Init
      OBVIOUS
    <2>1. map = [k \in Key |-> NULL] /\ intact /\ ~dead
      BY DEF Init, HT!Init
    <2>2. Store = [k \in Key |-> NULL]
      BY <2>1 DEF Store
    <2> QED
      BY <2>1, <2>2 DEF Init, Service!Init
  <1>2. Init => Uncut
    BY InitUncut
  <1>3. CmdInv /\ Uncut /\ [Next]_vars => Uncut' /\ [Service!Next]_(Service!vars)
    BY NextUncut, NextServes
  <1> QED
    BY <1>1, <1>2, <1>3, CmdInvariant, PTL DEF Spec, ImplementsService, Service!Spec

=============================================================================

--------------------------- MODULE AoqQueueProofs ---------------------------
(***************************************************************************)
(* Proofs about AoqQueueList, for every set of nodes and arguments and for *)
(* every limit.                                                            *)
(***************************************************************************)
EXTENDS AoqQueueList, SequenceTheorems, TLAPS

(* What push appends to the list of nodes: everything that was there, in   *)
(* its place, and the new node behind it.                                  *)
LEMMA AppendChain ==
  ASSUME NEW S, NEW s \in Seq(S), NEW e \in S
  PROVE  /\ Append(s, e) \in Seq(S)
         /\ Append(s, e) # <<>>
         /\ Len(Append(s, e)) = Len(s) + 1
         /\ \A i \in 1..Len(s) : Append(s, e)[i] = s[i]
         /\ Append(s, e)[Len(s) + 1] = e
         /\ Range(Append(s, e)) = Range(s) \cup {e}
<1>1. Append(s, e) \in Seq(S) /\ Len(Append(s, e)) = Len(s) + 1
  OBVIOUS
<1>2. \A i \in 1..Len(s) : Append(s, e)[i] = s[i]
  BY LenProperties
<1>3. Append(s, e)[Len(s) + 1] = e
  BY LenProperties
<1>4. Append(s, e) # <<>>
  BY <1>1, LenProperties, EmptySeq
<1>5. Range(Append(s, e)) = Range(s) \cup {e}
  <2>1. DOMAIN Append(s, e) = 1..(Len(s) + 1) /\ DOMAIN s = 1..Len(s)
    BY <1>1, LenProperties
  <2>2. ASSUME NEW i \in 1..(Len(s) + 1)
        PROVE  Append(s, e)[i] \in Range(s) \cup {e}
    BY <1>2, <1>3, <2>1, LenProperties DEF Range
  <2>3. Range(Append(s, e)) \subseteq Range(s) \cup {e}
    BY <2>1, <2>2 DEF Range
  <2>4. ASSUME NEW i \in 1..Len(s)
        PROVE  s[i] \in Range(Append(s, e))
    <3>1. i \in DOMAIN Append(s, e) /\ s[i] = Append(s, e)[i]
      BY <1>2, <2>1, LenProperties
    <3> QED BY <3>1 DEF Range
  <2>5. e \in Range(Append(s, e))
    <3>1. Len(s) + 1 \in DOMAIN Append(s, e)
      BY <2>1, LenProperties
    <3> QED BY <3>1, <1>3 DEF Range
  <2> QED BY <2>1, <2>3, <2>4, <2>5 DEF Range
<1> QED BY <1>1, <1>2, <1>3, <1>4, <1>5

(* What pop leaves of a list without repetitions: everything but its first *)
(* node, one place further ahead.                                          *)
LEMMA TailChain ==
  ASSUME NEW S, NEW s \in Seq(S), s # <<>>,
         \A i, j \in 1..Len(s) : i # j => s[i] # s[j]
  PROVE  /\ Tail(s) \in Seq(S)
         /\ Len(s) \in Nat \ {0}
         /\ Len(Tail(s)) = Len(s) - 1
         /\ \A i \in 1..Len(Tail(s)) : Tail(s)[i] = s[i + 1]
         /\ s[1] \in S
         /\ s[1] \in Range(s)
         /\ Range(Tail(s)) = Range(s) \ {s[1]}
<1>1. /\ Tail(s) \in Seq(S)
      /\ Len(Tail(s)) = Len(s) - 1
      /\ \A i \in 1..Len(Tail(s)) : Tail(s)[i] = s[i + 1]
  BY HeadTailProperties
<1>2. Len(s) \in Nat \ {0}
  BY EmptySeq
<1>3. DOMAIN s = 1..Len(s) /\ DOMAIN Tail(s) = 1..(Len(s) - 1)
  BY <1>1, LenProperties
<1>4. s[1] \in Range(s) /\ s[1] \in S
  BY <1>2, <1>3, ElementOfSeq DEF Range
<1>5. ASSUME NEW i \in 1..(Len(s) - 1)
      PROVE  Tail(s)[i] \in Range(s) \ {s[1]}
  <2>1. i + 1 \in DOMAIN s /\ i + 1 # 1 /\ 1 \in DOMAIN s
    BY <1>2, <1>3
  <2>2. Tail(s)[i] = s[i + 1]
    BY <1>1
  <2>3. s[i + 1] # s[1]
    BY <2>1, <1>3
  <2> QED BY <2>1, <2>2, <2>3 DEF Range
<1>6. ASSUME NEW k \in 1..Len(s), s[k] # s[1]
      PROVE  s[k] \in Range(Tail(s))
  <2>1. k - 1 \in 1..(Len(s) - 1)
    BY <1>2, <1>6
  <2>2. Tail(s)[k - 1] = s[k]
    BY <2>1, <1>1
  <2> QED BY <2>1, <2>2, <1>3 DEF Range
<1>7. Range(Tail(s)) = Range(s) \ {s[1]}
  BY <1>3, <1>5, <1>6 DEF Range
<1> QED BY <1>1, <1>2, <1>4, <1>7

-----------------------------------------------------------------------------
(* The invariant the proofs carry through every step: the list is exact,   *)
(* and accounts for the heap.  Neither half is inductive alone: a push     *)
(* relies on the fresh node not being on the list, and freeing the head    *)
(* relies on it being there once.                                          *)
ListInv == TypeOK /\ ListExact /\ NodesAccounted

LEMMA InitListInv == LInit => ListInv
<1> SUFFICES ASSUME LInit PROVE ListInv
  OBVIOUS
<1>1. TypeOK
  <2>1. chain \in Seq(Node) /\ leaked \subseteq Node
    BY EmptySeq DEF LInit
  <2>2. /\ uniqid \in [Node -> 0..AoqMaxSize]
        /\ total \in 0..(AoqMaxSize + 1)
    BY MaxSizeAssumption DEF LInit, Init
  <2>3. /\ arg \in [Node -> Arg \cup {NULL}]
        /\ next \in [Node -> Pointer]
        /\ head \in Pointer
        /\ tail \in Pointer
        /\ live \subseteq Node
        /\ exists \in BOOLEAN
        /\ deleting \in BOOLEAN
    BY DEF LInit, Init, Pointer
  <2>4. out \in [code : {-1, 0, 1}, arg : Arg \cup {NULL}]
    BY DEF LInit, Init, Result
  <2> QED BY <2>1, <2>2, <2>3, <2>4 DEF TypeOK
<1>2. ListExact
  BY DEF LInit, Init, ListExact, ChainDistinct, ChainLinked, Ready
<1>3. NodesAccounted
  BY DEF LInit, Init, NodesAccounted, Range
<1> QED BY <1>1, <1>2, <1>3 DEF ListInv

(* The first node of a list that is not empty.                             *)
LEMMA HeadOfChain ==
  ASSUME ListInv, exists, head # NULL
  PROVE  /\ chain # <<>>
         /\ head = chain[1]
         /\ head \in Node
         /\ head \in live
         /\ head \notin leaked
         /\ next[head] = NULL <=> Len(chain) = 1
         /\ Len(chain) > 1 => next[head] = chain[2]
<1>1. chain # <<>> /\ head = chain[1]
  BY DEF ListInv, ListExact
<1>2. chain \in Seq(Node)
  BY DEF ListInv, TypeOK
<1>3. head \in Node /\ head \in Range(chain) /\ Len(chain) \in Nat \ {0}
  BY <1>1, <1>2, TailChain DEF ListInv, ListExact, ChainDistinct
<1>4. next[head] = IF 1 = Len(chain) THEN NULL ELSE chain[2]
  <2>1. 1 \in 1..Len(chain) /\ 1 + 1 = 2
    BY <1>3
  <2>2. next[chain[1]] = IF 1 = Len(chain) THEN NULL ELSE chain[1 + 1]
    BY <2>1, Zenon DEF ListInv, ListExact, ChainLinked
  <2> QED BY <1>1, <2>1, <2>2
<1>5. Len(chain) > 1 => chain[2] \in Node
  BY <1>2, <1>3, ElementOfSeq
<1> QED BY <1>1, <1>3, <1>4, <1>5, NullAssumption
        DEF ListInv, NodesAccounted

(* A push is made on a list whose tail is its last node, if it has one.    *)
LEMMA PushListInv ==
  ASSUME ListInv, NEW n \in Node, NEW a \in Arg, LPush(n, a)
  PROVE  ListInv'
<1> USE DEF ListInv
<1>1. /\ Ready
      /\ n \notin live
      /\ live' = live \cup {n}
      /\ arg' = [arg EXCEPT ![n] = a]
      /\ tail' = n
      /\ total' = total + 1
      /\ total <= AoqMaxSize
      /\ out' = Result(1, NULL)
      /\ chain' = Append(chain, n)
      /\ UNCHANGED <<exists, deleting, leaked>>
  BY MaxSizeAssumption DEF LPush, PushFirst, PushLast, NewQnode, TypeOK
<1>2. chain \in Seq(Node) /\ total = Len(chain) /\ Len(chain) \in Nat
  BY <1>1, LenProperties DEF TypeOK, ListExact
<1>3. /\ chain' \in Seq(Node)
      /\ chain' # <<>>
      /\ Len(chain') = Len(chain) + 1
      /\ \A i \in 1..Len(chain) : chain'[i] = chain[i]
      /\ chain'[Len(chain) + 1] = n
      /\ Range(chain') = Range(chain) \cup {n}
  BY <1>1, <1>2, AppendChain
<1>4. \A i \in 1..Len(chain) :
        chain[i] \in Node /\ chain[i] \in Range(chain) /\ chain[i] # n
  <2>1. \A i \in 1..Len(chain) : chain[i] \in Node /\ chain[i] \in Range(chain)
    BY <1>2, LenProperties, ElementOfSeq DEF Range
  <2> QED BY <2>1, <1>1 DEF NodesAccounted
<1>5. total = 0 => chain = <<>>
  BY <1>2, EmptySeq
<1>6. total # 0 => tail = chain[Len(chain)] /\ Len(chain) \in 1..Len(chain)
  BY <1>1, <1>2, EmptySeq DEF ListExact
<1>7. TypeOK'
  <2>1. /\ total' \in 0..(AoqMaxSize + 1)
        /\ arg' \in [Node -> Arg \cup {NULL}]
        /\ out' \in [code : {-1, 0, 1}, arg : Arg \cup {NULL}]
    BY <1>1, MaxSizeAssumption DEF TypeOK, Result
  <2>2. uniqid' \in [Node -> 0..AoqMaxSize]
    <3>1. CASE total = 0
      BY <3>1, MaxSizeAssumption DEF LPush, PushFirst, PushLast, TypeOK
    <3>2. CASE total # 0
      <4>1. uniqid[tail] \in Nat
        BY <3>2, <1>4, <1>6 DEF TypeOK
      <4>2. (uniqid[tail] + 1) % AoqMaxSize \in 0..AoqMaxSize
        BY <4>1, MaxSizeAssumption
      <4>3. uniqid' = [uniqid EXCEPT ![n] = (uniqid[tail] + 1) % AoqMaxSize]
        BY <3>2 DEF LPush, PushFirst, PushLast
      <4> QED BY <4>2, <4>3 DEF TypeOK
    <3> QED BY <3>1, <3>2
  <2>3. next' \in [Node -> Pointer] /\ head' \in Pointer /\ tail' \in Pointer
    <3>1. /\ \/ next' = [next EXCEPT ![n] = NULL]
             \/ next' = [next EXCEPT ![n] = NULL, ![tail] = n]
          /\ head' \in {head, n}
          /\ tail' = n
      BY DEF LPush, PushFirst, PushLast
    <3>2. head' \in Pointer /\ tail' \in Pointer
      BY <3>1 DEF TypeOK, Pointer
    <3>3. NULL \in Pointer /\ n \in Pointer /\ next \in [Node -> Pointer]
      BY DEF TypeOK, Pointer
    <3> QED BY <3>1, <3>2, <3>3
  <2> QED BY <1>1, <1>3, <2>1, <2>2, <2>3 DEF TypeOK
<1>8. ListExact'
  <2>1. head' = chain'[1]
    <3>1. CASE total = 0
      BY <3>1, <1>2, <1>3 DEF LPush, PushFirst, PushLast
    <3>2. CASE total # 0
      <4>1. head = chain[1] /\ head' = head
        BY <3>2, <1>1, <1>2, EmptySeq DEF LPush, PushFirst, PushLast, ListExact, Ready
      <4> QED BY <4>1, <3>2, <1>2, <1>3
    <3> QED BY <3>1, <3>2
  <2>2. ChainDistinct'
    BY <1>2, <1>3, <1>4 DEF ListExact, ChainDistinct
  <2>3. ChainLinked'
    <3>1. CASE total = 0
      <4>1. next'[n] = NULL
        BY <3>1 DEF LPush, PushFirst, PushLast, TypeOK
      <4> QED BY <3>1, <4>1, <1>2, <1>3 DEF ChainLinked
    <3>2. CASE total # 0
      <4>1. next' = [next EXCEPT ![n] = NULL, ![tail] = n]
        BY <3>2 DEF LPush, PushFirst, PushLast
      <4>2. next'[n] = NULL /\ next'[tail] = n
        BY <4>1, <3>2, <1>4, <1>6 DEF TypeOK
      <4>3. ASSUME NEW i \in 1..Len(chain), i # Len(chain)
            PROVE  next'[chain[i]] = chain[i + 1]
        <5>1. chain[i] # tail /\ chain[i] # n /\ chain[i] \in Node
          BY <3>2, <4>3, <1>2, <1>4, <1>6 DEF ListExact, ChainDistinct
        <5>2. next'[chain[i]] = next[chain[i]]
          BY <4>1, <5>1 DEF TypeOK
        <5> QED BY <5>2, <4>3 DEF ListExact, ChainLinked
      <4> QED BY <4>2, <4>3, <1>2, <1>3, <1>6 DEF ChainLinked
    <3> QED BY <3>1, <3>2
  <2> QED BY <1>1, <1>2, <1>3, <2>1, <2>2, <2>3 DEF ListExact, Ready
<1>9. NodesAccounted'
  BY <1>1, <1>3 DEF NodesAccounted
<1> QED BY <1>7, <1>8, <1>9

(* Taking the head off the list and freeing it, which pop and every        *)
(* iteration of deleteQueue do.                                            *)
LEMMA FreeHead ==
  ASSUME ListInv, exists, head # NULL,
         Free(head), chain' = Tail(chain), leaked' = leaked
  PROVE  /\ uniqid' \in [Node -> 0..AoqMaxSize]
         /\ arg' \in [Node -> Arg \cup {NULL}]
         /\ next' \in [Node -> Pointer]
         /\ live' \subseteq Node
         /\ chain' \in Seq(Node)
         /\ Len(chain) \in Nat \ {0}
         /\ Len(chain') = Len(chain) - 1
         /\ chain' = <<>> <=> Len(chain) = 1
         /\ Len(chain) > 1 =>
              chain'[1] = next[head] /\ chain'[Len(chain')] = chain[Len(chain)]
         /\ ChainDistinct'
         /\ ChainLinked'
         /\ NodesAccounted'
<1> USE DEF ListInv
<1>1. /\ chain # <<>>
      /\ head = chain[1]
      /\ head \in Node
      /\ head \notin leaked
      /\ Len(chain) > 1 => next[head] = chain[2]
  BY HeadOfChain
<1>2. chain \in Seq(Node)
  BY DEF TypeOK
<1>3. /\ chain' \in Seq(Node)
      /\ Len(chain) \in Nat \ {0}
      /\ Len(chain') = Len(chain) - 1
      /\ \A i \in 1..Len(chain') : chain'[i] = chain[i + 1]
      /\ Range(chain') = Range(chain) \ {head}
  BY <1>1, <1>2, TailChain DEF ListExact, ChainDistinct
<1>4. /\ uniqid' \in [Node -> 0..AoqMaxSize]
      /\ arg' \in [Node -> Arg \cup {NULL}]
      /\ next' \in [Node -> Pointer]
      /\ live' \subseteq Node
  BY MaxSizeAssumption DEF Free, TypeOK, Pointer
<1>5. chain' = <<>> <=> Len(chain) = 1
  <2>1. chain' # <<>> => Len(chain') \in Nat \ {0}
    BY <1>3, EmptySeq
  <2>2. chain' = <<>> => Len(chain') = 0
    BY EmptySeq
  <2> QED BY <2>1, <2>2, <1>3
<1>6. Len(chain) > 1 =>
        chain'[1] = next[head] /\ chain'[Len(chain')] = chain[Len(chain)]
  BY <1>1, <1>3
<1>7. ChainDistinct'
  BY <1>3 DEF ListExact, ChainDistinct
<1>8. ChainLinked'
  <2>1. ASSUME NEW i \in 1..Len(chain')
        PROVE  next'[chain'[i]] = IF i = Len(chain') THEN NULL ELSE chain'[i + 1]
    <3>1. i + 1 \in 1..Len(chain) /\ chain'[i] = chain[i + 1] /\ i + 1 # 1
      BY <1>3
    <3>2. chain[i + 1] # head /\ chain[i + 1] \in Node
      BY <3>1, <1>1, <1>2, <1>3, ElementOfSeq DEF ListExact, ChainDistinct
    <3>3. next'[chain[i + 1]] = next[chain[i + 1]]
      BY <3>2 DEF Free, TypeOK
    <3>4. next[chain[i + 1]] =
            IF i + 1 = Len(chain) THEN NULL ELSE chain[i + 1 + 1]
      BY <3>1 DEF ListExact, ChainLinked
    <3>5. CASE i = Len(chain')
      <4>1. i + 1 = Len(chain)
        BY <3>5, <1>3
      <4> QED BY <4>1, <3>1, <3>3, <3>4, <3>5
    <3>6. CASE i # Len(chain')
      <4>1. i + 1 # Len(chain) /\ i + 1 \in 1..Len(chain')
        <5>1. i \in Nat /\ 1 <= i /\ i <= Len(chain') /\ Len(chain') \in Nat
          BY <1>3
        <5>2. Len(chain') = Len(chain) - 1 /\ Len(chain) \in Nat
          BY <1>3
        <5> QED BY <5>1, <5>2, <3>6
      <4>2. chain'[i + 1] = chain[i + 1 + 1]
        BY <4>1, <1>3
      <4> QED BY <4>1, <4>2, <3>1, <3>3, <3>4, <3>6
    <3> QED BY <3>5, <3>6
  <2> QED BY <2>1 DEF ChainLinked
<1>9. NodesAccounted'
  BY <1>1, <1>3 DEF Free, NodesAccounted
<1> QED BY <1>3, <1>4, <1>5, <1>6, <1>7, <1>8, <1>9

LEMMA PopListInv ==
  ASSUME ListInv, LPop
  PROVE  ListInv'
<1> USE DEF ListInv
<1>1. /\ Ready
      /\ head # NULL
      /\ total # 0
      /\ Free(head)
      /\ chain' = Tail(chain)
      /\ total' = total - 1
      /\ out' = Result(1, arg[head])
      /\ UNCHANGED <<exists, deleting, leaked>>
      /\ IF next[head] = NULL
           THEN head' = NULL /\ tail' = NULL
           ELSE head' = next[head] /\ tail' = tail
  BY DEF LPop, PopHead
<1>2. /\ uniqid' \in [Node -> 0..AoqMaxSize]
      /\ arg' \in [Node -> Arg \cup {NULL}]
      /\ next' \in [Node -> Pointer]
      /\ live' \subseteq Node
      /\ chain' \in Seq(Node)
      /\ Len(chain) \in Nat \ {0}
      /\ Len(chain') = Len(chain) - 1
      /\ chain' = <<>> <=> Len(chain) = 1
      /\ Len(chain) > 1 =>
           chain'[1] = next[head] /\ chain'[Len(chain')] = chain[Len(chain)]
      /\ ChainDistinct'
      /\ ChainLinked'
      /\ NodesAccounted'
  BY <1>1, FreeHead DEF Ready
<1>3. head \in Node /\ (next[head] = NULL <=> Len(chain) = 1)
  BY <1>1, HeadOfChain DEF Ready
<1>4. TypeOK'
  <2>1. total' \in 0..(AoqMaxSize + 1)
    BY <1>1, MaxSizeAssumption DEF TypeOK
  <2>2. out' \in [code : {-1, 0, 1}, arg : Arg \cup {NULL}]
    BY <1>1, <1>3 DEF TypeOK, Result
  <2>3. head' \in Pointer /\ tail' \in Pointer
    BY <1>1, <1>3 DEF TypeOK, Pointer
  <2> QED BY <1>1, <1>2, <2>1, <2>2, <2>3 DEF TypeOK
<1>5. head' = IF chain' = <<>> THEN NULL ELSE chain'[1]
  <2>1. CASE Len(chain) = 1
    BY <2>1, <1>1, <1>2, <1>3
  <2>2. CASE Len(chain) # 1
    <3>1. Len(chain) > 1
      BY <2>2, <1>2
    <3>2. chain'[1] = next[head] /\ chain' # <<>>
      BY <2>2, <3>1, <1>2
    <3>3. head' = next[head]
      BY <2>2, <1>1, <1>3
    <3> QED BY <3>2, <3>3
  <2> QED BY <2>1, <2>2
<1>6. tail' = IF chain' = <<>> THEN NULL ELSE chain'[Len(chain')]
  <2>1. tail = chain[Len(chain)]
    BY <1>1, HeadOfChain DEF ListExact, Ready
  <2> QED BY <2>1, <1>1, <1>2, <1>3
<1>7. total' = Len(chain')
  BY <1>1, <1>2 DEF ListExact
<1> QED BY <1>1, <1>2, <1>4, <1>5, <1>6, <1>7 DEF ListExact, Ready

LEMMA DeleteNodeListInv ==
  ASSUME ListInv, LDeleteNode
  PROVE  ListInv'
<1> USE DEF ListInv
<1>1. /\ deleting
      /\ exists
      /\ head # NULL
      /\ Free(head)
      /\ chain' = Tail(chain)
      /\ UNCHANGED <<out, leaked>>
  BY DEF LDeleteNode, DeleteNode, DeleteLast, ListExact
<1>2. /\ uniqid' \in [Node -> 0..AoqMaxSize]
      /\ arg' \in [Node -> Arg \cup {NULL}]
      /\ next' \in [Node -> Pointer]
      /\ live' \subseteq Node
      /\ chain' \in Seq(Node)
      /\ Len(chain) \in Nat \ {0}
      /\ Len(chain') = Len(chain) - 1
      /\ chain' = <<>> <=> Len(chain) = 1
      /\ Len(chain) > 1 => chain'[1] = next[head]
      /\ ChainDistinct'
      /\ ChainLinked'
      /\ NodesAccounted'
  BY <1>1, FreeHead
<1>3. head \in Node /\ (next[head] = NULL <=> Len(chain) = 1)
  BY <1>1, HeadOfChain
<1>4. CASE DeleteNode
  <2>1. /\ next[head] # NULL
        /\ head' = next[head]
        /\ UNCHANGED <<exists, deleting, total, tail>>
    BY <1>4 DEF DeleteNode
  <2>2. TypeOK'
    <3>1. head' \in Pointer
      BY <1>3, <2>1 DEF TypeOK, Pointer
    <3>2. /\ out' \in [code : {-1, 0, 1}, arg : Arg \cup {NULL}]
          /\ total' \in 0..(AoqMaxSize + 1)
          /\ tail' \in Pointer
          /\ exists' \in BOOLEAN
          /\ deleting' \in BOOLEAN
          /\ leaked' \subseteq Node
      BY <1>1, <2>1 DEF TypeOK
    <3> QED BY <1>2, <3>1, <3>2 DEF TypeOK
  <2>3. ListExact'
    <3>1. Len(chain) > 1
      BY <1>2, <1>3, <2>1
    <3>2. head' = chain'[1] /\ chain' # <<>>
      BY <3>1, <1>2, <2>1
    <3> QED BY <1>1, <1>2, <2>1, <3>2 DEF ListExact, Ready
  <2> QED BY <1>2, <2>2, <2>3
<1>5. CASE DeleteLast
  <2>1. /\ next[head] = NULL
        /\ exists' = FALSE
        /\ deleting' = FALSE
        /\ total' = 0
        /\ head' = NULL
        /\ tail' = NULL
    BY <1>5 DEF DeleteLast, FreeAoq
  <2>2. TypeOK'
    <3>1. /\ out' \in [code : {-1, 0, 1}, arg : Arg \cup {NULL}]
          /\ leaked' \subseteq Node
      BY <1>1 DEF TypeOK
    <3>2. total' \in 0..(AoqMaxSize + 1)
      BY <2>1, MaxSizeAssumption
    <3>3. head' \in Pointer /\ tail' \in Pointer
      BY <2>1 DEF Pointer
    <3>4. exists' \in BOOLEAN /\ deleting' \in BOOLEAN
      BY <2>1
    <3> QED BY <1>2, <3>1, <3>2, <3>3, <3>4 DEF TypeOK
  <2>3. ListExact'
    BY <1>2, <1>3, <2>1 DEF ListExact, Ready
  <2> QED BY <1>2, <2>2, <2>3
<1> QED BY <1>4, <1>5 DEF LDeleteNode

LEMMA RefuseListInv ==
  ASSUME ListInv, NEW n \in Node, NEW a \in Arg, LRefuse(n, a)
  PROVE  ListInv'
<1> USE DEF ListInv
<1>1. /\ Ready
      /\ n \notin live
      /\ live' = live \cup {n}
      /\ arg' = [arg EXCEPT ![n] = a]
      /\ uniqid' = [uniqid EXCEPT ![n] = 0]
      /\ next' = [next EXCEPT ![n] = NULL]
      /\ out' = Result(-1, NULL)
      /\ leaked' = leaked \cup {n}
      /\ UNCHANGED <<exists, total, head, tail, deleting, chain>>
  BY DEF LRefuse, PushRefused, NewQnode, aoq
<1>2. TypeOK'
  <2>1. /\ arg' \in [Node -> Arg \cup {NULL}]
        /\ uniqid' \in [Node -> 0..AoqMaxSize]
        /\ next' \in [Node -> Pointer]
    BY <1>1, MaxSizeAssumption DEF TypeOK, Pointer
  <2>2. out' \in [code : {-1, 0, 1}, arg : Arg \cup {NULL}]
    BY <1>1 DEF Result
  <2> QED BY <1>1, <2>1, <2>2 DEF TypeOK
<1>3. ListExact'
  <2>1. chain \in Seq(Node)
    BY DEF TypeOK
  <2>2. ASSUME NEW i \in 1..Len(chain)
        PROVE  next'[chain[i]] = next[chain[i]]
    <3>1. chain[i] \in Node /\ chain[i] \in Range(chain)
      BY <2>1, ElementOfSeq, LenProperties DEF Range
    <3>2. chain[i] # n
      BY <3>1, <1>1 DEF NodesAccounted
    <3> QED BY <3>1, <3>2, <1>1 DEF TypeOK
  <2>3. ChainLinked'
    BY <2>2, <1>1 DEF ListExact, ChainLinked
  <2> QED BY <2>3, <1>1 DEF ListExact, ChainDistinct, Ready
<1>4. NodesAccounted'
  BY <1>1 DEF NodesAccounted, TypeOK
<1> QED BY <1>2, <1>3, <1>4

(* Every step keeps the list exact and the heap accounted for.             *)
LEMMA NextListInv == ListInv /\ [LNext]_lvars => ListInv'
<1> SUFFICES ASSUME ListInv, [LNext]_lvars PROVE ListInv'
  OBVIOUS
<1> USE DEF ListInv
<1>1. CASE LCreate
  <2>1. /\ ~exists /\ exists' = TRUE /\ total' = 0 /\ head' = NULL /\ tail' = NULL
        /\ UNCHANGED <<uniqid, arg, next, live, deleting, out, chain, leaked>>
    BY <1>1 DEF LCreate, CreateQueue, node
  <2>2. TypeOK'
    <3>1. head' \in Pointer /\ tail' \in Pointer
      BY <2>1 DEF Pointer
    <3>2. total' \in 0..(AoqMaxSize + 1) /\ exists' \in BOOLEAN
      BY <2>1, MaxSizeAssumption
    <3> QED BY <2>1, <3>1, <3>2 DEF TypeOK
  <2>3. ListExact'
    BY <2>1, EmptySeq DEF ListExact, ChainDistinct, ChainLinked, Ready
  <2> QED BY <2>1, <2>2, <2>3 DEF NodesAccounted
<1>2. CASE \E n \in Node, a \in Arg : LPush(n, a) \/ LRefuse(n, a)
  BY <1>2, PushListInv, RefuseListInv
<1>3. CASE LPopEmpty
  <2>1. /\ out' = Result(-1, NULL)
        /\ UNCHANGED <<uniqid, arg, next, live, exists, total, head, tail,
                       deleting, chain, leaked>>
    BY <1>3 DEF LPopEmpty, PopEmpty, node, aoq
  <2>2. out' \in [code : {-1, 0, 1}, arg : Arg \cup {NULL}]
    BY <2>1 DEF Result
  <2>3. TypeOK'
    BY <2>1, <2>2 DEF TypeOK
  <2> QED BY <2>1, <2>3 DEF ListExact, ChainDistinct, ChainLinked, Ready,
                          NodesAccounted
<1>4. CASE LPop
  BY <1>4, PopListInv
<1>5. CASE LDelete
  <2>1. /\ Ready
        /\ deleting' = TRUE
        /\ UNCHANGED <<uniqid, arg, next, live, exists, total, head, tail,
                       out, chain, leaked>>
    BY <1>5 DEF LDelete, DeleteQueue, node, aoq
  <2> QED BY <2>1 DEF TypeOK, ListExact, ChainDistinct, ChainLinked, Ready,
                      NodesAccounted
<1>6. CASE LDeleteNode
  BY <1>6, DeleteNodeListInv
<1>7. CASE LDeleteEmpty
  <2>1. /\ deleting /\ head = NULL
        /\ exists' = FALSE /\ deleting' = FALSE /\ total' = 0
        /\ head' = NULL /\ tail' = NULL
        /\ UNCHANGED <<uniqid, arg, next, live, out, chain, leaked>>
    BY <1>7 DEF LDeleteEmpty, DeleteEmpty, FreeAoq, node
  <2>2. chain = <<>>
    <3>1. SUFFICES ASSUME chain # <<>> PROVE FALSE
      OBVIOUS
    <3>2. head = chain[1] /\ exists
      BY <3>1, <2>1 DEF ListExact
    <3>3. chain[1] \in Node
      BY <3>1, EmptySeq, ElementOfSeq DEF TypeOK
    <3> QED BY <3>2, <3>3, <2>1, NullAssumption
  <2>3. TypeOK'
    <3>1. head' \in Pointer /\ tail' \in Pointer
      BY <2>1 DEF Pointer
    <3>2. total' \in 0..(AoqMaxSize + 1)
      BY <2>1, MaxSizeAssumption
    <3>3. exists' \in BOOLEAN /\ deleting' \in BOOLEAN
      BY <2>1
    <3> QED BY <2>1, <3>1, <3>2, <3>3 DEF TypeOK
  <2>4. ListExact'
    BY <2>1, <2>2 DEF ListExact, ChainDistinct, ChainLinked, Ready
  <2> QED BY <2>1, <2>3, <2>4 DEF NodesAccounted
<1>8. CASE UNCHANGED lvars
  BY <1>8 DEF lvars, vars, TypeOK, ListExact, ChainDistinct, ChainLinked,
              Ready, NodesAccounted
<1> QED BY <1>1, <1>2, <1>3, <1>4, <1>5, <1>6, <1>7, <1>8 DEF LNext

(* The list invariant holds of every behaviour of the queue.               *)
THEOREM ListInvariant == Spec => []ListInv
<1>1. LInit => ListInv
  BY InitListInv
<1>2. ListInv /\ [LNext]_lvars => ListInv'
  BY NextListInv
<1> QED BY <1>1, <1>2, PTL DEF Spec

(* For every limit and every set of nodes, the variables keep their types: *)
(* total never passes AoqMaxSize + 1, and no number passes AoqMaxSize.     *)
THEOREM TypeCorrect == Spec => []TypeOK
<1>1. ListInv => TypeOK
  BY DEF ListInv
<1> QED BY <1>1, ListInvariant, PTL

(* For every limit, head, tail, total and the links describe one list.     *)
THEOREM ListIsExact == Spec => []ListExact
<1>1. ListInv => ListExact
  BY DEF ListInv
<1> QED BY <1>1, ListInvariant, PTL

(* For every limit, nothing on the list is freed and nothing else is kept, *)
(* apart from what refused pushes leave behind.                            *)
THEOREM HeapAccounted == Spec => []NodesAccounted
<1>1. ListInv => NodesAccounted
  BY DEF ListInv
<1> QED BY <1>1, ListInvariant, PTL

-----------------------------------------------------------------------------
(* How the numbers of a queue relate.  Two items a distance below the      *)
(* limit apart differ by that distance, modulo the limit; with a limit     *)
(* above 1 every number is below the limit.  IdsDistinct follows, and is   *)
(* not inductive: a new number is only known from the one before it.       *)
Advance(id, d) == IF id + d < AoqMaxSize THEN id + d ELSE id + d - AoqMaxSize

IdsAdvance ==
  AoqMaxSize > 1 =>
    /\ \A i \in 1..Len(chain) : uniqid[chain[i]] \in 0..(AoqMaxSize - 1)
    /\ \A i, j \in 1..Len(chain) :
         i < j /\ j - i < AoqMaxSize =>
           uniqid[chain[j]] = Advance(uniqid[chain[i]], j - i)

IdsInv == ListInv /\ IdsAdvance

(* The number pushQueue computes is the next one, modulo the limit.        *)
LEMMA AdvanceByOne ==
  ASSUME AoqMaxSize > 1, NEW id \in 0..(AoqMaxSize - 1)
  PROVE  (id + 1) % AoqMaxSize = Advance(id, 1)
<1>1. AoqMaxSize \in Nat \ {0}
  BY MaxSizeAssumption
<1>2. CASE id + 1 < AoqMaxSize
  <2>1. (id + 1) % AoqMaxSize = id + 1
    BY <1>1, <1>2
  <2> QED BY <1>2, <2>1 DEF Advance
<1>3. CASE ~(id + 1 < AoqMaxSize)
  <2>1. id + 1 = AoqMaxSize
    BY <1>1, <1>3
  <2>2. AoqMaxSize % AoqMaxSize = 0
    BY <1>1
  <2> QED BY <1>1, <1>3, <2>1, <2>2 DEF Advance
<1> QED BY <1>2, <1>3

LEMMA PushIdsAdvance ==
  ASSUME IdsInv, NEW n \in Node, NEW a \in Arg, LPush(n, a)
  PROVE  IdsAdvance'
<1> SUFFICES ASSUME AoqMaxSize > 1
             PROVE  /\ \A i \in 1..Len(chain') :
                          uniqid'[chain'[i]] \in 0..(AoqMaxSize - 1)
                    /\ \A i, j \in 1..Len(chain') :
                         i < j /\ j - i < AoqMaxSize =>
                           uniqid'[chain'[j]] = Advance(uniqid'[chain'[i]], j - i)
  BY DEF IdsAdvance, Advance
<1>1. /\ chain' = Append(chain, n)
      /\ n \notin live
      /\ Ready
      /\ chain \in Seq(Node)
      /\ uniqid \in [Node -> 0..AoqMaxSize]
      /\ AoqMaxSize \in Nat
  BY MaxSizeAssumption DEF LPush, PushFirst, PushLast, NewQnode, IdsInv, ListInv, TypeOK
<1>2. /\ Len(chain) \in Nat
      /\ Len(chain') = Len(chain) + 1
      /\ \A i \in 1..Len(chain) : chain'[i] = chain[i]
      /\ chain'[Len(chain) + 1] = n
  BY <1>1, AppendChain, LenProperties
<1>3. ASSUME NEW i \in 1..Len(chain)
      PROVE  chain[i] \in Node /\ chain[i] # n
  <2>1. chain[i] \in Node /\ chain[i] \in Range(chain)
    BY <1>1, LenProperties, ElementOfSeq DEF Range
  <2> QED BY <2>1, <1>1 DEF IdsInv, ListInv, NodesAccounted
<1>4. total = Len(chain)
  BY <1>1 DEF IdsInv, ListInv, ListExact
<1>5. /\ \A i \in 1..Len(chain) : uniqid[chain[i]] \in 0..(AoqMaxSize - 1)
      /\ \A i, j \in 1..Len(chain) :
           i < j /\ j - i < AoqMaxSize =>
             uniqid[chain[j]] = Advance(uniqid[chain[i]], j - i)
  BY DEF IdsInv, IdsAdvance
<1>6. CASE total = 0
  <2>1. uniqid' = [uniqid EXCEPT ![n] = 1]
    BY <1>6 DEF LPush, PushFirst, PushLast
  <2>2. uniqid'[n] = 1 /\ 1..Len(chain') = {1} /\ chain'[1] = n
    BY <2>1, <1>1, <1>2, <1>4, <1>6
  <2> QED BY <2>2, <1>1
<1>7. CASE total # 0
  <2> DEFINE last == uniqid[chain[Len(chain)]]
  <2>1. Len(chain) \in 1..Len(chain) /\ tail = chain[Len(chain)]
    BY <1>1, <1>2, <1>4, <1>7, EmptySeq DEF IdsInv, ListInv, ListExact
  <2>2. uniqid' = [uniqid EXCEPT ![n] = (uniqid[tail] + 1) % AoqMaxSize]
    BY <1>7 DEF LPush, PushFirst, PushLast
  <2>3. last \in 0..(AoqMaxSize - 1)
    BY <1>5, <2>1
  <2>4. uniqid'[n] = Advance(last, 1)
    BY <1>1, <2>1, <2>2, <2>3, AdvanceByOne
  <2>5. Advance(last, 1) \in 0..(AoqMaxSize - 1)
    BY <1>1, <2>3 DEF Advance
  <2>6. \A i \in 1..Len(chain) : uniqid'[chain'[i]] = uniqid[chain[i]]
    BY <1>1, <1>2, <1>3, <2>2
  <2>7. \A i \in 1..Len(chain') : uniqid'[chain'[i]] \in 0..(AoqMaxSize - 1)
    <3>1. ASSUME NEW i \in 1..Len(chain')
          PROVE  uniqid'[chain'[i]] \in 0..(AoqMaxSize - 1)
      <4>1. CASE i = Len(chain')
        BY <4>1, <1>2, <2>4, <2>5
      <4>2. CASE i # Len(chain')
        <5>1. i \in 1..Len(chain)
          BY <4>2, <1>2
        <5> QED BY <5>1, <1>5, <2>6
      <4> QED BY <4>1, <4>2
    <3> QED BY <3>1
  <2>8. ASSUME NEW i \in 1..Len(chain'), NEW j \in 1..Len(chain'),
               i < j, j - i < AoqMaxSize
        PROVE  uniqid'[chain'[j]] = Advance(uniqid'[chain'[i]], j - i)
    <3>1. i \in 1..Len(chain)
      BY <2>8, <1>2
    <3>2. CASE j # Len(chain')
      <4>1. j \in 1..Len(chain)
        BY <3>2, <1>2
      <4> QED BY <2>8, <3>1, <4>1, <1>5, <2>6
    <3>3. CASE j = Len(chain')
      <4>1. uniqid'[chain'[j]] = Advance(last, 1) /\ j = Len(chain) + 1
        BY <3>3, <1>2, <2>4
      <4>2. uniqid'[chain'[i]] = uniqid[chain[i]]
        BY <3>1, <2>6
      <4>3. CASE i = Len(chain)
        BY <4>1, <4>2, <4>3, <1>2
      <4>4. CASE i # Len(chain)
        <5> DEFINE id == uniqid[chain[i]]
                   d == Len(chain) - i
        <5>1. i < Len(chain) /\ Len(chain) - i < AoqMaxSize
          BY <4>1, <4>4, <3>1, <2>8, <1>1, <1>2
        <5>2. last = Advance(id, d)
          BY <5>1, <3>1, <2>1, <1>5
        <5>3. id \in 0..(AoqMaxSize - 1) /\ d \in Nat /\ d + 1 < AoqMaxSize
          BY <1>1, <1>2, <1>5, <2>8, <3>1, <4>1, <5>1
        <5>4. j - i = d + 1
          BY <4>1, <3>1, <1>2
        <5> HIDE DEF id, d, last
        <5>5. Advance(Advance(id, d), 1) = Advance(id, d + 1)
          BY <1>1, <5>3 DEF Advance
        <5> QED BY <4>1, <4>2, <5>2, <5>4, <5>5 DEF id
      <4> QED BY <4>3, <4>4
    <3> QED BY <3>2, <3>3
  <2> QED BY <2>7, <2>8
<1> QED BY <1>6, <1>7

(* Taking the head away shifts the others one place ahead and leaves their *)
(* numbers and distances alone.                                            *)
LEMMA FreeHeadIdsAdvance ==
  ASSUME IdsInv, exists, head # NULL, Free(head), chain' = Tail(chain)
  PROVE  IdsAdvance'
<1>1. chain # <<>> /\ head = chain[1] /\ chain \in Seq(Node)
  BY HeadOfChain DEF IdsInv, ListInv, TypeOK
<1>2. /\ Len(chain) \in Nat \ {0}
      /\ Len(chain') = Len(chain) - 1
      /\ \A i \in 1..Len(chain') : chain'[i] = chain[i + 1]
  BY <1>1, HeadTailProperties, EmptySeq
<1>3. ASSUME NEW i \in 1..Len(chain')
      PROVE  /\ i + 1 \in 1..Len(chain)
             /\ uniqid'[chain'[i]] = uniqid[chain[i + 1]]
  <2>1. i + 1 \in 1..Len(chain) /\ i + 1 # 1 /\ 1 \in 1..Len(chain)
    BY <1>2
  <2>2. chain[i + 1] # head /\ chain[i + 1] \in Node
    BY <2>1, <1>1, ElementOfSeq DEF IdsInv, ListInv, ListExact, ChainDistinct
  <2> QED BY <2>1, <2>2, <1>2 DEF Free, IdsInv, ListInv, TypeOK
<1>4. ASSUME AoqMaxSize > 1,
             NEW i \in 1..Len(chain'), NEW j \in 1..Len(chain'),
             i < j, j - i < AoqMaxSize
      PROVE  uniqid'[chain'[j]] = Advance(uniqid'[chain'[i]], j - i)
  <2>1. i + 1 < j + 1 /\ (j + 1) - (i + 1) < AoqMaxSize /\ (j + 1) - (i + 1) = j - i
    BY <1>2, <1>4
  <2>2. uniqid[chain[j + 1]] = Advance(uniqid[chain[i + 1]], (j + 1) - (i + 1))
    BY <2>1, <1>3, <1>4 DEF IdsInv, IdsAdvance
  <2> QED BY <2>1, <2>2, <1>3
<1>5. ASSUME AoqMaxSize > 1, NEW i \in 1..Len(chain')
      PROVE  uniqid'[chain'[i]] \in 0..(AoqMaxSize - 1)
  BY <1>3, <1>5 DEF IdsInv, IdsAdvance
<1> QED BY <1>4, <1>5 DEF IdsAdvance, Advance

LEMMA NextIdsAdvance == IdsInv /\ [LNext]_lvars => IdsAdvance'
<1> SUFFICES ASSUME IdsInv, [LNext]_lvars PROVE IdsAdvance'
  OBVIOUS
<1>1. ASSUME NEW n \in Node, NEW a \in Arg, LPush(n, a)
      PROVE  IdsAdvance'
  BY <1>1, PushIdsAdvance
<1>2. ASSUME NEW n \in Node, NEW a \in Arg, LRefuse(n, a)
      PROVE  IdsAdvance'
  <2>1. chain \in Seq(Node) /\ chain' = chain /\ n \notin live
        /\ uniqid' = [uniqid EXCEPT ![n] = 0] /\ uniqid \in [Node -> 0..AoqMaxSize]
    BY <1>2 DEF LRefuse, PushRefused, NewQnode, IdsInv, ListInv, TypeOK
  <2>2. ASSUME NEW i \in 1..Len(chain)
        PROVE  uniqid'[chain'[i]] = uniqid[chain[i]]
    <3>1. chain[i] \in Node /\ chain[i] \in Range(chain)
      BY <2>1, LenProperties, ElementOfSeq DEF Range
    <3>2. chain[i] # n
      BY <2>1, <3>1 DEF IdsInv, ListInv, NodesAccounted
    <3> QED BY <2>1, <3>1, <3>2
  <2> QED BY <2>1, <2>2 DEF IdsInv, IdsAdvance, Advance
<1>3. CASE LPop
  BY <1>3, FreeHeadIdsAdvance DEF LPop, PopHead, Ready
<1>4. CASE LDeleteNode
  <2>1. deleting /\ head # NULL /\ Free(head) /\ chain' = Tail(chain)
    BY <1>4 DEF LDeleteNode, DeleteNode, DeleteLast
  <2>2. exists
    BY <2>1 DEF IdsInv, ListInv, ListExact
  <2> QED BY <2>1, <2>2, FreeHeadIdsAdvance
<1>5. CASE LCreate \/ LPopEmpty \/ LDelete \/ LDeleteEmpty \/ UNCHANGED lvars
  <2>1. UNCHANGED <<chain, uniqid>>
    BY <1>5 DEF LCreate, LPopEmpty, LDelete, LDeleteEmpty, CreateQueue, PopEmpty,
                DeleteQueue, DeleteEmpty, node, lvars, vars
  <2> QED BY <2>1 DEF IdsInv, IdsAdvance, Advance
<1> QED BY <1>1, <1>2, <1>3, <1>4, <1>5 DEF LNext

(* For every limit, items less than the limit apart in a queue have        *)
(* different numbers, through every wrap of the numbering.                 *)
THEOREM NumbersDistinct == Spec => []IdsDistinct
<1>1. LInit => IdsInv
  BY InitListInv, EmptySeq DEF LInit, IdsInv, IdsAdvance
<1>2. IdsInv /\ [LNext]_lvars => IdsInv'
  BY NextListInv, NextIdsAdvance DEF IdsInv
<1>3. IdsInv => IdsDistinct
  <2> SUFFICES ASSUME IdsInv, NEW i \in 1..Len(chain), NEW j \in 1..Len(chain),
                      i < j, j - i < AoqMaxSize
               PROVE  uniqid[chain[i]] # uniqid[chain[j]]
    BY DEF IdsDistinct
  <2>1. AoqMaxSize \in Nat /\ AoqMaxSize > 1 /\ j - i \in Nat \ {0}
    BY MaxSizeAssumption
  <2>2. /\ uniqid[chain[i]] \in 0..(AoqMaxSize - 1)
        /\ uniqid[chain[j]] = Advance(uniqid[chain[i]], j - i)
    BY <2>1 DEF IdsInv, IdsAdvance
  <2> QED BY <2>1, <2>2 DEF Advance
<1> QED BY <1>1, <1>2, <1>3, PTL DEF Spec

-----------------------------------------------------------------------------
(* The refinement.  items is what the mapping of AoqQueueList puts in the  *)
(* place of the items of AoqFifo.                                          *)
items == IF deleting THEN <<>> ELSE queued

QueuedItem == [id : Nat, arg : Arg \cup {NULL}]

QueuedFacts ==
  /\ queued \in Seq(QueuedItem)
  /\ Len(queued) = Len(chain)
  /\ Len(chain) \in Nat
  /\ \A i \in 1..Len(chain) :
       queued[i] = [id |-> uniqid[chain[i]], arg |-> arg[chain[i]]]
  /\ queued = <<>> <=> Len(chain) = 0

LEMMA QueuedIsSeq == ListInv => QueuedFacts
<1> SUFFICES ASSUME ListInv PROVE QueuedFacts
  OBVIOUS
<1>1. chain \in Seq(Node) /\ Len(chain) \in Nat
  BY LenProperties DEF ListInv, TypeOK
<1>2. ASSUME NEW i \in 1..Len(chain)
      PROVE  [id |-> uniqid[chain[i]], arg |-> arg[chain[i]]] \in QueuedItem
  <2>1. chain[i] \in Node
    BY <1>1, ElementOfSeq
  <2>2. uniqid[chain[i]] \in Nat /\ arg[chain[i]] \in Arg \cup {NULL}
    BY <2>1, MaxSizeAssumption DEF ListInv, TypeOK
  <2> QED BY <2>2 DEF QueuedItem
<1>3. queued \in [1..Len(chain) -> QueuedItem]
  BY <1>2 DEF queued
<1>4. queued \in Seq(QueuedItem)
  BY <1>1, <1>3, SeqDef
<1>5. DOMAIN queued = 1..Len(chain)
  BY DEF queued
<1>6. Len(queued) = Len(chain)
  BY <1>1, <1>4, <1>5, LenProperties
<1>7. \A i \in 1..Len(chain) :
        queued[i] = [id |-> uniqid[chain[i]], arg |-> arg[chain[i]]]
  BY DEF queued
<1>8. queued = <<>> <=> Len(chain) = 0
  BY <1>4, <1>6, EmptySeq
<1> QED BY <1>1, <1>4, <1>6, <1>7, <1>8 DEF QueuedFacts

LEMMA QueuedIsSeqNext == ListInv' => QueuedFacts'
BY QueuedIsSeq, PTL

LEMMA InitRefines == LInit => Fifo!Init
<1> SUFFICES ASSUME LInit PROVE Fifo!Init
  OBVIOUS
<1>1. ListInv
  BY InitListInv
<1>2. queued = <<>>
  BY <1>1, QueuedIsSeq, EmptySeq DEF LInit, QueuedFacts
<1> QED BY <1>2 DEF Fifo!Init, LInit, Init, Ready, Result, Fifo!Result

(* A push adds its item behind the others, with the number after theirs.   *)
LEMMA PushRefines ==
  ASSUME ListInv, ListInv', NEW n \in Node, NEW a \in Arg, LPush(n, a)
  PROVE  Fifo!Push(a)
<1>1. /\ Ready /\ Ready' /\ ~deleting /\ ~deleting'
      /\ n \notin live
      /\ arg' = [arg EXCEPT ![n] = a]
      /\ out' = Result(1, NULL)
      /\ chain' = Append(chain, n)
      /\ chain \in Seq(Node)
      /\ total = Len(chain)
      /\ total <= AoqMaxSize
      /\ AoqMaxSize \in Nat
  BY MaxSizeAssumption
  DEF LPush, PushFirst, PushLast, NewQnode, ListInv, TypeOK, ListExact, Ready
<1>2. /\ Len(chain) \in Nat
      /\ Len(chain') = Len(chain) + 1
      /\ \A i \in 1..Len(chain) : chain'[i] = chain[i]
      /\ chain'[Len(chain) + 1] = n
  BY <1>1, AppendChain, LenProperties
<1>3. ASSUME NEW i \in 1..Len(chain)
      PROVE  chain[i] \in Node /\ chain[i] # n
  <2>1. chain[i] \in Node /\ chain[i] \in Range(chain)
    BY <1>1, LenProperties, ElementOfSeq DEF Range
  <2> QED BY <2>1, <1>1 DEF ListInv, NodesAccounted
<1> DEFINE id == IF queued = <<>> THEN 1
                 ELSE (queued[Len(queued)].id + 1) % AoqMaxSize
<1>4. uniqid' = [uniqid EXCEPT ![n] = id]
  <2>1. CASE total = 0
    <3>1. queued = <<>>
      BY <2>1, <1>1, QueuedIsSeq DEF QueuedFacts
    <3> QED BY <2>1, <3>1 DEF LPush, PushFirst, PushLast
  <2>2. CASE total # 0
    <3>1. queued # <<>> /\ Len(chain) \in 1..Len(chain) /\ Len(queued) = Len(chain)
      BY <2>2, <1>1, QueuedIsSeq DEF QueuedFacts
    <3>2. tail = chain[Len(chain)]
      BY <3>1, <1>1, EmptySeq DEF ListInv, ListExact
    <3>3. queued[Len(queued)].id = uniqid[tail]
      <4>1. queued[Len(chain)] =
              [id |-> uniqid[chain[Len(chain)]], arg |-> arg[chain[Len(chain)]]]
        BY <3>1, QueuedIsSeq DEF QueuedFacts
      <4> QED BY <4>1, <3>1, <3>2
    <3>4. uniqid' = [uniqid EXCEPT ![n] = (uniqid[tail] + 1) % AoqMaxSize]
      BY <2>2 DEF LPush, PushFirst, PushLast
    <3> QED BY <3>1, <3>3, <3>4
  <2> QED BY <2>1, <2>2
<1>5. uniqid'[n] = id /\ arg'[n] = a
  BY <1>1, <1>4 DEF ListInv, TypeOK
<1>6. ASSUME NEW i \in 1..Len(chain)
      PROVE  uniqid'[chain[i]] = uniqid[chain[i]] /\ arg'[chain[i]] = arg[chain[i]]
  BY <1>1, <1>3, <1>4 DEF ListInv, TypeOK
<1>7. QueuedFacts /\ QueuedFacts'
  BY QueuedIsSeq, QueuedIsSeqNext
<1>8. queued' = Append(queued, [id |-> id, arg |-> a])
  <2> DEFINE new == [id |-> id, arg |-> a]
  <2>1. id \in Nat
    BY <1>5, MaxSizeAssumption DEF ListInv, TypeOK
  <2>2. new \in QueuedItem
    BY <2>1 DEF QueuedItem
  <2>3. queued \in Seq(QueuedItem) /\ Len(queued) = Len(chain)
    BY <1>7 DEF QueuedFacts
  <2> HIDE DEF new
  <2>4. /\ Append(queued, new) \in Seq(QueuedItem)
        /\ Len(Append(queued, new)) = Len(chain) + 1
        /\ \A i \in 1..Len(chain) : Append(queued, new)[i] = queued[i]
        /\ Append(queued, new)[Len(chain) + 1] = new
    BY <2>2, <2>3, AppendChain
  <2>5. Len(queued') = Len(chain) + 1 /\ queued' \in Seq(QueuedItem)
    BY <1>2, <1>7 DEF QueuedFacts
  <2>6. ASSUME NEW i \in 1..Len(queued')
        PROVE  queued'[i] = Append(queued, new)[i]
    <3>1. i \in 1..Len(chain')
      BY <2>5, <1>2
    <3>2. queued'[i] = [id |-> uniqid'[chain'[i]], arg |-> arg'[chain'[i]]]
      BY <3>1, <1>7 DEF QueuedFacts
    <3>3. CASE i = Len(chain) + 1
      <4>1. queued'[i] = new
        BY <3>2, <3>3, <1>2, <1>5 DEF new
      <4> QED BY <4>1, <3>3, <2>4
    <3>4. CASE i # Len(chain) + 1
      <4>1. i \in 1..Len(chain)
        BY <3>4, <2>5, <1>2
      <4>2. queued'[i] = [id |-> uniqid[chain[i]], arg |-> arg[chain[i]]]
        BY <4>1, <3>2, <1>2, <1>6
      <4>3. queued[i] = [id |-> uniqid[chain[i]], arg |-> arg[chain[i]]]
        BY <4>1, <1>7 DEF QueuedFacts
      <4> QED BY <4>1, <4>2, <4>3, <2>4
    <3> QED BY <3>3, <3>4
  <2> QED BY <2>4, <2>5, <2>6, SeqEqual DEF new
<1>9. Len(queued) = Len(chain)
  BY <1>7 DEF QueuedFacts
<1> QED BY <1>1, <1>8, <1>9
        DEF Fifo!Push, Fifo!NextId, Fifo!Result, Result

(* Freeing the head takes the first item away and leaves the others.       *)
LEMMA FreeHeadQueued ==
  ASSUME ListInv, ListInv', exists, head # NULL, Free(head), chain' = Tail(chain)
  PROVE  /\ queued # <<>>
         /\ Head(queued).arg = arg[head]
         /\ queued' = Tail(queued)
<1>1. chain # <<>> /\ head = chain[1] /\ chain \in Seq(Node)
  BY HeadOfChain DEF ListInv, TypeOK
<1>2. /\ Len(chain) \in Nat \ {0}
      /\ Len(chain') = Len(chain) - 1
      /\ \A i \in 1..Len(chain') : chain'[i] = chain[i + 1]
  BY <1>1, HeadTailProperties, EmptySeq
<1>3. QueuedFacts /\ QueuedFacts'
  BY QueuedIsSeq, QueuedIsSeqNext
<1>4. queued # <<>> /\ queued \in Seq(QueuedItem)
  BY <1>2, <1>3 DEF QueuedFacts
<1>5. Head(queued).arg = arg[head]
  <2>1. queued[1] = [id |-> uniqid[chain[1]], arg |-> arg[chain[1]]]
    BY <1>2, <1>3 DEF QueuedFacts
  <2>2. Head(queued) = queued[1]
    BY <1>4
  <2> QED BY <2>1, <2>2, <1>1
<1>6. /\ Tail(queued) \in Seq(QueuedItem)
      /\ Len(Tail(queued)) = Len(queued) - 1
      /\ \A i \in 1..Len(Tail(queued)) : Tail(queued)[i] = queued[i + 1]
  BY <1>4, HeadTailProperties
<1>7. /\ queued' \in Seq(QueuedItem)
      /\ Len(queued') = Len(chain')
      /\ Len(Tail(queued)) = Len(chain')
  BY <1>2, <1>3, <1>6 DEF QueuedFacts
<1>8. ASSUME NEW i \in 1..Len(queued')
      PROVE  queued'[i] = Tail(queued)[i]
  <2>1. i + 1 \in 1..Len(chain) /\ i + 1 # 1 /\ 1 \in 1..Len(chain)
        /\ i \in 1..Len(chain') /\ i \in 1..Len(Tail(queued))
    BY <1>2, <1>7
  <2>2. chain[i + 1] # head /\ chain[i + 1] \in Node
    BY <2>1, <1>1, ElementOfSeq DEF ListInv, ListExact, ChainDistinct
  <2>3. /\ uniqid'[chain[i + 1]] = uniqid[chain[i + 1]]
        /\ arg'[chain[i + 1]] = arg[chain[i + 1]]
    BY <2>2 DEF Free, ListInv, TypeOK
  <2>4. queued'[i] = [id |-> uniqid'[chain'[i]], arg |-> arg'[chain'[i]]]
    BY <2>1, <1>3 DEF QueuedFacts
  <2>5. queued[i + 1] = [id |-> uniqid[chain[i + 1]], arg |-> arg[chain[i + 1]]]
    BY <2>1, <1>3 DEF QueuedFacts
  <2> QED BY <2>1, <2>3, <2>4, <2>5, <1>2, <1>6
<1>9. queued' = Tail(queued)
  BY <1>6, <1>7, <1>8, SeqEqual
<1> QED BY <1>4, <1>5, <1>9

(* Every step of the list is a step of the abstract queue, or a stutter.   *)
LEMMA NextRefines ==
  ListInv /\ ListInv' /\ [LNext]_lvars => [Fifo!Next]_Fifo!vars
<1> SUFFICES ASSUME ListInv, ListInv', [LNext]_lvars
             PROVE  [Fifo!Next]_Fifo!vars
  OBVIOUS
<1>1. CASE LCreate
  <2>1. /\ ~exists /\ exists' /\ ~deleting /\ ~deleting'
        /\ chain = <<>> /\ chain' = <<>> /\ out' = out
    BY <1>1 DEF LCreate, CreateQueue, ListInv, ListExact
  <2>2. queued' = <<>>
    BY <2>1, QueuedIsSeqNext, EmptySeq DEF QueuedFacts
  <2>3. Fifo!Create
    BY <2>1, <2>2 DEF Fifo!Create, Ready
  <2> QED BY <2>3 DEF Fifo!Next
<1>2. ASSUME NEW n \in Node, NEW a \in Arg, LPush(n, a)
      PROVE  [Fifo!Next]_Fifo!vars
  BY <1>2, PushRefines DEF Fifo!Next
<1>3. ASSUME NEW n \in Node, NEW a \in Arg, LRefuse(n, a)
      PROVE  [Fifo!Next]_Fifo!vars
  <2>1. /\ Ready /\ total > AoqMaxSize /\ n \notin live
        /\ arg' = [arg EXCEPT ![n] = a]
        /\ uniqid' = [uniqid EXCEPT ![n] = 0]
        /\ out' = Result(-1, NULL)
        /\ UNCHANGED <<exists, deleting, chain>>
    BY <1>3 DEF LRefuse, PushRefused, NewQnode, aoq
  <2>2. ASSUME NEW i \in 1..Len(chain)
        PROVE  uniqid'[chain[i]] = uniqid[chain[i]] /\ arg'[chain[i]] = arg[chain[i]]
    <3>1. chain[i] \in Node /\ chain[i] \in Range(chain)
      BY ElementOfSeq, LenProperties DEF Range, ListInv, TypeOK
    <3>2. chain[i] # n
      BY <3>1, <2>1 DEF ListInv, NodesAccounted
    <3> QED BY <3>1, <3>2, <2>1 DEF ListInv, TypeOK
  <2>3. queued' = queued
    BY <2>1, <2>2 DEF queued
  <2>4. Len(queued) = total
    BY <2>1, QueuedIsSeq DEF QueuedFacts, ListInv, ListExact
  <2>5. Fifo!Refuse
    BY <2>1, <2>3, <2>4 DEF Fifo!Refuse, Fifo!Result, Result, Ready
  <2> QED BY <2>5 DEF Fifo!Next
<1>4. CASE LPopEmpty
  <2>1. /\ Ready /\ (total = 0 \/ head = NULL)
        /\ out' = Result(-1, NULL)
        /\ UNCHANGED <<uniqid, arg, exists, deleting, chain>>
    BY <1>4 DEF LPopEmpty, PopEmpty, node, aoq
  <2>2. Len(chain) = 0
    <3>1. CASE total = 0
      BY <3>1, <2>1 DEF ListInv, ListExact
    <3>2. CASE head = NULL
      <4>1. chain # <<>> => chain[1] \in Node
        BY EmptySeq, ElementOfSeq DEF ListInv, TypeOK
      <4>2. chain # <<>> => head = chain[1]
        BY <2>1 DEF ListInv, ListExact, Ready
      <4>3. chain = <<>>
        BY <4>1, <4>2, <3>2, NullAssumption
      <4> QED BY <4>3, EmptySeq
    <3> QED BY <2>1, <3>1, <3>2
  <2>3. queued = <<>> /\ queued' = queued
    BY <2>1, <2>2, QueuedIsSeq DEF QueuedFacts, queued
  <2>4. Fifo!PopNothing
    BY <2>1, <2>3 DEF Fifo!PopNothing, Fifo!Result, Result, Ready
  <2> QED BY <2>4 DEF Fifo!Next
<1>5. CASE LPop
  <2>1. /\ Ready /\ exists /\ ~deleting /\ head # NULL /\ Free(head)
        /\ chain' = Tail(chain)
        /\ out' = Result(1, arg[head])
        /\ UNCHANGED <<exists, deleting>>
    BY <1>5 DEF LPop, PopHead, Ready
  <2>2. queued # <<>> /\ Head(queued).arg = arg[head] /\ queued' = Tail(queued)
    BY <2>1, FreeHeadQueued
  <2>3. Fifo!Pop
    BY <2>1, <2>2 DEF Fifo!Pop, Fifo!Result, Result, Ready
  <2> QED BY <2>3 DEF Fifo!Next
<1>6. CASE LDelete
  <2>1. Ready /\ ~deleting /\ deleting' /\ out' = out
    BY <1>6 DEF LDelete, DeleteQueue, Ready
  <2>2. Fifo!Delete
    BY <2>1 DEF Fifo!Delete, Ready
  <2> QED BY <2>2 DEF Fifo!Next
<1>7. CASE LDeleteNode \/ LDeleteEmpty
  <2>1. deleting /\ out' = out /\ (deleting' \/ ~exists')
    BY <1>7 DEF LDeleteNode, DeleteNode, DeleteLast, LDeleteEmpty, DeleteEmpty, FreeAoq
  <2>2. ~Ready /\ ~Ready'
    BY <2>1 DEF Ready
  <2>3. items = <<>> /\ items' = <<>>
    <3>1. CASE deleting'
      BY <2>1, <3>1 DEF items
    <3>2. CASE ~deleting'
      <4>1. chain' = <<>>
        BY <2>1, <3>2 DEF ListInv, ListExact
      <4>2. queued' = <<>>
        BY <4>1, QueuedIsSeqNext, EmptySeq DEF QueuedFacts
      <4> QED BY <2>1, <3>2, <4>2 DEF items
    <3> QED BY <3>1, <3>2
  <2> QED BY <2>1, <2>2, <2>3 DEF Fifo!vars, items, Ready
<1>8. CASE UNCHANGED lvars
  BY <1>8 DEF lvars, vars, Fifo!vars, Ready, queued
<1> QED BY <1>1, <1>2, <1>3, <1>4, <1>5, <1>6, <1>7, <1>8 DEF LNext

(* For every limit and every set of nodes, the linked list implements the  *)
(* first-in first-out queue.                                               *)
THEOREM ListRefinesFifo == Spec => ImplementsFifo
<1>1. LInit => Fifo!Init
  BY InitRefines
<1>2. ListInv /\ ListInv' /\ [LNext]_lvars => [Fifo!Next]_Fifo!vars
  BY NextRefines
<1> QED BY <1>1, <1>2, ListInvariant, PTL DEF Spec, ImplementsFifo, Fifo!Spec

-----------------------------------------------------------------------------
(* The loop of deleteQueue, for any list: as long as it runs nothing else  *)
(* touches the queue, and every iteration leaves a shorter list or none at *)
(* all, with the structure freed.                                          *)
THEOREM DeletionShrinks ==
  Spec => [][deleting => \/ deleting' /\ Len(chain') < Len(chain)
                         \/ ~deleting' /\ ~exists' /\ chain' = <<>>]_lvars
<1> DEFINE Shrinks == deleting => \/ deleting' /\ Len(chain') < Len(chain)
                                  \/ ~deleting' /\ ~exists' /\ chain' = <<>>
<1>1. ListInv /\ ListInv' /\ [LNext]_lvars => [Shrinks]_lvars
  <2> SUFFICES ASSUME ListInv, ListInv', LNext, deleting PROVE Shrinks
    OBVIOUS
  <2>1. ~Ready /\ exists
    BY DEF Ready, ListInv, ListExact
  <2>2. LDeleteNode \/ LDeleteEmpty
    BY <2>1 DEF LNext, LCreate, CreateQueue, LPush, PushFirst, PushLast, NewQnode,
                LRefuse, PushRefused, LPopEmpty, PopEmpty, LPop, PopHead, LDelete, DeleteQueue
  <2>3. CASE LDeleteNode
    <3>1. head # NULL /\ Free(head) /\ chain' = Tail(chain) /\ leaked' = leaked
      BY <2>3 DEF LDeleteNode, DeleteNode, DeleteLast
    <3>2. Len(chain) \in Nat /\ Len(chain') = Len(chain) - 1
      BY <2>1, <3>1, FreeHead
    <3>3. CASE DeleteNode
      BY <3>2, <3>3 DEF DeleteNode
    <3>4. CASE DeleteLast
      BY <3>4 DEF DeleteLast, FreeAoq, ListInv, ListExact
    <3> QED BY <2>3, <3>3, <3>4 DEF LDeleteNode
  <2>4. CASE LDeleteEmpty
    BY <2>4 DEF LDeleteEmpty, DeleteEmpty, FreeAoq, ListInv, ListExact
  <2> QED BY <2>2, <2>3, <2>4
<1> HIDE DEF Shrinks
<1>2. Spec => [][Shrinks]_lvars
  <2>1. ListInv /\ [LNext]_lvars => ListInv'
    BY NextListInv
  <2> QED BY <1>1, <2>1, InitListInv, PTL DEF Spec
<1> QED BY <1>2 DEF Shrinks

=============================================================================

----------------------------- MODULE AoqWireProofs -----------------------------
(***************************************************************************)
(* Proofs about AoqWire for any requests, any chunk size and any bounds:   *)
(* for both clients, what the buffers hold, where a write stands and that  *)
(* what is executed began a line of what was sent; for aoq.php, what lies  *)
(* in the queues, and what a client that waits for its answers hears.      *)
(***************************************************************************)
EXTENDS AoqWire, AoqFacts

-----------------------------------------------------------------------------
(* What goes through the socket, and what the server keeps and says.       *)
Token == Letter \cup Heads \cup {NL, NUL}
Item == [len : Nat, text : Seq(Token)]
Said == Token \cup {ONE, ZERO}

Streams ==
  /\ asked \in Seq(Request) /\ done \in Seq(Heads)
  /\ wire \in Seq(Token) /\ buf \in Seq(Token) /\ sent \in Seq(Token)
  /\ out \in Seq(Said)

(* The table and the items in it.                                          *)
Kept ==
  /\ queues \in 0..HtSize
  /\ \A name \in DOMAIN held : held[name] \in Seq(Item)

(* The callback that has not returned, and what it has to do.              *)
Turn ==
  /\ pc \in {"idle", "read", "write", "dead"}
  /\ (buf # <<>>) = (pc = "read")
  /\ buf # <<>> => Last(buf) # NL
  /\ pc = "write" => total \in -blocks..Len(out) - 1

(* No answer is counted before its request was executed.                   *)
Counts ==
  /\ served \in Nat /\ blocks \in 0..MaxBlocks /\ eager \in BOOLEAN
  /\ Len(asked) <= MaxAsks
  /\ served + (IF pc = "write" THEN 1 ELSE 0) <= Len(done)

Inv == Streams /\ Kept /\ Turn /\ Counts

-----------------------------------------------------------------------------
(* Requests and their frames.                                              *)

(* What is known of a request.                                             *)
LEMMA RequestType ==
  ASSUME NEW q \in Request
  PROVE  /\ q.op \in {"push", "pop"} \cup Unnamed
         /\ q.args \in Seq(Seq(Letter)) /\ Len(q.args) \in Nat
         /\ DOMAIN q.args = 1..Len(q.args)
         /\ \A i \in 1..Len(q.args) : q.args[i] \in Seq(Letter) /\ Len(q.args[i]) \in Nat
         /\ Len(q.args) = IF q.op = "push" THEN 2 ELSE IF q.op = "pop" THEN 1 ELSE 0
<1>1. /\ q \in [op : {"push", "pop"} \cup Unnamed, args : Seq(Seq(Letter))]
      /\ Len(q.args) = IF q.op = "push" THEN 2 ELSE IF q.op = "pop" THEN 1 ELSE 0
  BY RequestAssumption
<1>2. q.args \in Seq(Seq(Letter)) /\ q.op \in {"push", "pop"} \cup Unnamed  BY <1>1
<1>3. Len(q.args) \in Nat /\ DOMAIN q.args = 1..Len(q.args)  BY <1>2, LenProperties
<1>4. \A i \in 1..Len(q.args) : q.args[i] \in Seq(Letter)  BY <1>2, ElementOfSeq
<1>5. \A i \in 1..Len(q.args) : Len(q.args[i]) \in Nat  BY <1>4, LenProperties
<1> QED  BY <1>1, <1>2, <1>3, <1>4, <1>5

(* Its head tells the command and the lengths of its arguments.            *)
LEMMA HeadType ==
  ASSUME NEW q \in Request
  PROVE  /\ HeadOf(q) \in Heads
         /\ HeadOf(q)[1] = q.op
         /\ HeadOf(q)[2] \in [1..Len(q.args) -> Nat]
         /\ \A i \in 1..Len(q.args) : HeadOf(q)[2][i] = Len(q.args[i])
<1>2. /\ HeadOf(q) = <<q.op, [i \in DOMAIN q.args |-> Len(q.args[i])]>>
      /\ HeadOf(q)[1] = q.op /\ HeadOf(q)[2] = [i \in DOMAIN q.args |-> Len(q.args[i])]
  BY DEF HeadOf
<1>3. HeadOf(q)[2] = [i \in 1..Len(q.args) |-> Len(q.args[i])]
  <2>1. DOMAIN q.args = 1..Len(q.args)  BY RequestType
  <2> QED  BY <1>2, <2>1
<1>4. \A i \in 1..Len(q.args) : Len(q.args[i]) \in Nat  BY RequestType
<1>5. HeadOf(q) \in Heads
  <2>1. Len(q.args) \in Nat /\ q.op \in {"push", "pop"} \cup Unnamed  BY RequestType
  <2>2. [i \in 1..Len(q.args) |-> Len(q.args[i])] \in Seq(Nat)  BY <1>4, <2>1
  <2>3. HeadOf(q)[2] \in Seq(Nat)  BY <1>3, <2>2
  <2> QED  BY <1>2, <2>1, <2>3 DEF Heads
<1> QED  BY <1>2, <1>3, <1>4, <1>5

(* The arguments in a row.                                                 *)
LEMMA FramedType ==
  ASSUME NEW q \in Request
  PROVE  /\ FlattenSeq(q.args) \in Seq(Letter)
         /\ <<HeadOf(q)>> \in Seq(Token) /\ Framed(q) \in Seq(Token)
<1>1. FlattenSeq(q.args) \in Seq(Letter)  BY RequestType, FlattenType
<1>2. FlattenSeq(q.args) \in Seq(Token)
  <2>1. Letter \subseteq Token  BY DEF Token
  <2> QED  BY <1>1, <2>1, SeqMonotonic
<1>3. HeadOf(q) \in Token  BY HeadType DEF Token
<1>4. <<HeadOf(q)>> \in Seq(Token)  BY <1>3
<1> QED  BY <1>1, <1>2, <1>4, ConcatProperties DEF Framed

(* What either client sends behind them.                                   *)
Behind(q) ==
  IF Tool = "aoq.php" THEN <<NL>>
  ELSE CASE q.op = "push" -> <<NL, NL, NUL>>
         [] q.op = "pop" -> <<NL, NUL>>
         [] q.op = "status" -> <<NL>>
         [] q.op = "queues" -> <<NUL>>

(* A request on the wire is a sequence of tokens.                          *)
LEMMA FrameType ==
  ASSUME NEW q \in Request
  PROVE  /\ Frame(q) = Framed(q) \o Behind(q)
         /\ Behind(q) \in Seq({NL, NUL}) /\ Frame(q) \in Seq(Token)
<1>1. q.op \in {"push", "pop", "status", "queues"}  BY RequestType DEF Unnamed
<1>2. Behind(q) \in Seq({NL, NUL})
  <2>1. /\ <<NL, NL, NUL>> \in Seq({NL, NUL}) /\ <<NL, NUL>> \in Seq({NL, NUL})
        /\ <<NL>> \in Seq({NL, NUL}) /\ <<NUL>> \in Seq({NL, NUL})
    OBVIOUS
  <2> QED  BY <1>1, <2>1 DEF Behind
<1>3. Frame(q) = Framed(q) \o Behind(q)
  BY <1>1 DEF Frame, PhpFrame, ClientFrame, Behind
<1>4. Behind(q) \in Seq(Token)
  <2>1. {NL, NUL} \subseteq Token  BY DEF Token
  <2> QED  BY <1>2, <2>1, SeqMonotonic
<1> QED  BY <1>2, <1>3, <1>4, FramedType, ConcatProperties

-----------------------------------------------------------------------------
(* What was read and how it is split.                                      *)

(* The least of some numbers.                                              *)
LEMMA MinOf ==
  ASSUME NEW T, T \subseteq Nat, T # {}
  PROVE  Min(T) \in T /\ \A x \in T : Min(T) <= x
<1>1. \E x \in T : \A y \in T : x <= y  BY Least
<1> QED  BY <1>1 DEF Min

(* Of two numbers.                                                         *)
LEMMA MinOfTwo == \A x, y \in Nat : Min({x, y}) = IF x <= y THEN x ELSE y
<1> SUFFICES ASSUME NEW x \in Nat, NEW y \in Nat
             PROVE  Min({x, y}) = IF x <= y THEN x ELSE y
  OBVIOUS
<1> DEFINE T == {x, y}
<1>1. T \subseteq Nat /\ T # {} /\ x \in T /\ y \in T  OBVIOUS
<1> HIDE DEF T
<1>2. Min(T) \in T /\ \A z \in T : Min(T) <= z  BY <1>1, MinOf
<1>3. Min(T) \in {x, y} /\ Min(T) <= x /\ Min(T) <= y  BY <1>1, <1>2 DEF T
<1> QED  BY <1>3 DEF T

(* The end of a sequence that is not empty is its last element.            *)
LEMMA LastOf ==
  ASSUME NEW S, NEW s \in Seq(S), s # <<>>
  PROVE  Len(s) \in Nat \ {0} /\ Last(s) = s[Len(s)] /\ Last(s) \in S
<1>1. Len(s) # 0 /\ Len(s) \in Nat  BY EmptySeq, LenProperties
<1>2. Len(s) \in 1..Len(s)  BY <1>1
<1> QED  BY <1>1, <1>2, ElementOfSeq DEF Last

(* A part of a sequence, element by element.                               *)
LEMMA PartOf ==
  ASSUME NEW S, NEW s \in Seq(S), NEW lo \in Nat \ {0}, NEW hi \in lo - 1..Len(s)
  PROVE  /\ SubSeq(s, lo, hi) \in Seq(S) /\ Len(SubSeq(s, lo, hi)) = hi - lo + 1
         /\ \A i \in 1..hi - lo + 1 : SubSeq(s, lo, hi)[i] = s[lo + i - 1]
<1>1. Len(s) \in Nat /\ \A i \in lo..hi : s[i] \in S
  <2>1. Len(s) \in Nat  BY LenProperties
  <2>2. \A i \in lo..hi : i \in 1..Len(s)  BY <2>1
  <2> QED  BY <2>1, <2>2, ElementOfSeq
<1>2. /\ SubSeq(s, lo, hi) \in Seq(S)
      /\ Len(SubSeq(s, lo, hi)) = IF lo <= hi THEN hi - lo + 1 ELSE 0
      /\ \A i \in 1..hi - lo + 1 : SubSeq(s, lo, hi)[i] = s[lo + i - 1]
  BY <1>1, SubSeqProperties
<1> QED  BY <1>1, <1>2

(* A chunk that begins in the buffer is not empty.                         *)
LEMMA ChunkType ==
  ASSUME NEW S, NEW b \in Seq(S), NEW k \in Nat \ {0}, (k - 1) * W < Len(b)
  PROVE  /\ (k - 1) * W \in Nat /\ Min({k * W, Len(b)}) \in (k - 1) * W + 1..Len(b)
         /\ Min({k * W, Len(b)}) = IF k * W <= Len(b) THEN k * W ELSE Len(b)
         /\ Chunk(b, k) \in Seq(S)
         /\ Len(Chunk(b, k)) = Min({k * W, Len(b)}) - (k - 1) * W
         /\ Len(Chunk(b, k)) \in Nat \ {0}
         /\ \A i \in 1..Len(Chunk(b, k)) : Chunk(b, k)[i] = b[(k - 1) * W + i]
         /\ Last(Chunk(b, k)) = b[Min({k * W, Len(b)})]
<1> DEFINE lo == (k - 1) * W
           hi == Min({k * W, Len(b)})
<1>1. Len(b) \in Nat /\ W \in Nat \ {0}  BY LenProperties, WidthAssumption
<1>2. lo \in Nat /\ k * W \in Nat /\ k * W = lo + W  BY <1>1
<1>3. hi = IF k * W <= Len(b) THEN k * W ELSE Len(b)  BY <1>1, <1>2, MinOfTwo
<1>4. lo < Len(b)  OBVIOUS
<1> HIDE DEF lo, hi
<1>5. hi \in lo + 1..Len(b) /\ hi = IF k * W <= Len(b) THEN k * W ELSE Len(b)
  BY <1>1, <1>2, <1>3, <1>4
<1>6. Chunk(b, k) = SubSeq(b, lo + 1, hi)  BY DEF Chunk, lo, hi
<1>7. lo + 1 \in Nat \ {0} /\ hi \in (lo + 1) - 1..Len(b) /\ hi - (lo + 1) + 1 = hi - lo
  BY <1>1, <1>2, <1>5
<1>8. /\ Chunk(b, k) \in Seq(S) /\ Len(Chunk(b, k)) = hi - lo
      /\ \A i \in 1..hi - lo : Chunk(b, k)[i] = b[(lo + 1) + i - 1]
  BY <1>6, <1>7, PartOf
<1>9. \A i \in 1..hi - lo : Chunk(b, k)[i] = b[lo + i]
  <2>1. ASSUME NEW i \in 1..hi - lo PROVE Chunk(b, k)[i] = b[lo + i]
    <3>1. (lo + 1) + i - 1 = lo + i  BY <1>2, <1>5
    <3> QED  BY <1>8, <3>1
  <2> QED  BY <2>1
<1>10. hi - lo \in Nat \ {0} /\ hi - lo \in 1..hi - lo /\ lo + (hi - lo) = hi
  BY <1>1, <1>2, <1>5
<1>11. Last(Chunk(b, k)) = b[hi]
  <2>1. Last(Chunk(b, k)) = Chunk(b, k)[hi - lo]  BY <1>8 DEF Last
  <2>2. Chunk(b, k)[hi - lo] = b[lo + (hi - lo)]  BY <1>9, <1>10
  <2> QED  BY <1>10, <2>1, <2>2
<1> QED  BY <1>2, <1>5, <1>8, <1>9, <1>10, <1>11 DEF lo, hi

(* Into chunks 1 to SplitEnd(b): what ends with a newline has a chunk that *)
(* does.                                                                   *)
Ends(b) == {k \in 1..Len(b) : (k - 1) * W < Len(b) /\ Last(Chunk(b, k)) = NL}
SplitEnd(b) == Min(Ends(b))

(* A split buffer is its chunks up to the first that ends with a newline.  *)
LEMMA SplitType ==
  ASSUME NEW S, NEW b \in Seq(S), b # <<>>, Last(b) = NL
  PROVE  /\ SplitEnd(b) \in Nat \ {0} /\ SplitEnd(b) \in Ends(b)
         /\ \A k \in Ends(b) : SplitEnd(b) <= k
         /\ Split(b) = [k \in 1..SplitEnd(b) |-> Chunk(b, k)]
         /\ Split(b) \in Seq(Seq(S)) /\ Len(Split(b)) = SplitEnd(b)
         /\ \A k \in 1..SplitEnd(b) : (k - 1) * W < Len(b) /\ Split(b)[k] = Chunk(b, k)
         /\ Split(b)[1][1] = b[1]
<1>1. Len(b) \in Nat \ {0} /\ Last(b) = b[Len(b)] /\ W \in Nat \ {0}
  BY LastOf, WidthAssumption
<1>2. Ends(b) # {}
  <2> DEFINE k == (Len(b) + W - 1) \div W
  <2>1. k \in Nat \ {0} /\ (k - 1) * W < Len(b) /\ Len(b) <= k * W /\ k <= Len(b)
    BY <1>1
  <2> HIDE DEF k
  <2>2. Min({k * W, Len(b)}) = IF k * W <= Len(b) THEN k * W ELSE Len(b)  BY <2>1, ChunkType, ZenonT(60)
  <2>3. k * W \in Nat  BY <1>1, <2>1
  <2>4. Min({k * W, Len(b)}) = Len(b)  BY <1>1, <2>1, <2>2, <2>3
  <2>5. Last(Chunk(b, k)) = b[Len(b)]  BY <2>1, <2>4, ChunkType, ZenonT(60)
  <2>6. k \in 1..Len(b)  BY <1>1, <2>1
  <2> QED  BY <1>1, <2>1, <2>5, <2>6 DEF Ends
<1>3. Ends(b) \subseteq 1..Len(b) /\ Ends(b) \subseteq Nat  BY DEF Ends
<1>4. SplitEnd(b) \in Ends(b) /\ \A k \in Ends(b) : SplitEnd(b) <= k
  BY <1>2, <1>3, MinOf DEF SplitEnd
<1>5. SplitEnd(b) \in 1..Len(b) /\ SplitEnd(b) \in Nat \ {0} /\ (SplitEnd(b) - 1) * W < Len(b)
  BY <1>1, <1>3, <1>4 DEF Ends
<1>6. Split(b) = [k \in 1..SplitEnd(b) |-> Chunk(b, k)]  BY DEF Split, SplitEnd, Ends
<1> DEFINE e == SplitEnd(b)
<1> HIDE DEF e
<1>7. ASSUME NEW k \in 1..e
      PROVE  /\ k \in Nat \ {0} /\ (k - 1) * W < Len(b) /\ Chunk(b, k) \in Seq(S)
             /\ Len(Chunk(b, k)) \in Nat \ {0} /\ Chunk(b, k)[1] = b[(k - 1) * W + 1]
  <2>1. k \in Nat \ {0} /\ k <= e /\ e \in Nat \ {0} /\ (e - 1) * W < Len(b)  BY <1>5 DEF e
  <2>2. (k - 1) * W <= (e - 1) * W  BY <1>1, <2>1
  <2>3. (k - 1) * W < Len(b)  BY <1>1, <2>1, <2>2
  <2> HIDE DEF e
  <2>a. k \in Nat \ {0}  BY <2>1
  <2>4. /\ Chunk(b, k) \in Seq(S) /\ Len(Chunk(b, k)) \in Nat \ {0}
        /\ \A i \in 1..Len(Chunk(b, k)) : Chunk(b, k)[i] = b[(k - 1) * W + i]
    BY <2>a, <2>3, ChunkType, ZenonT(60)
  <2>5. 1 \in 1..Len(Chunk(b, k))  BY <2>4
  <2> QED  BY <2>1, <2>3, <2>4, <2>5
<1>8. Split(b) \in Seq(Seq(S)) /\ Len(Split(b)) = e
  <2>1. e \in Nat /\ Split(b) = [k \in 1..e |-> Chunk(b, k)]  BY <1>5, <1>6 DEF e
  <2> QED  BY <1>7, <2>1
<1>9. \A k \in 1..e : Split(b)[k] = Chunk(b, k)  BY <1>6 DEF e
<1>10. Split(b)[1][1] = b[1]
  <2>1. 1 \in 1..e /\ (1 - 1) * W + 1 = 1  BY <1>1, <1>5 DEF e
  <2>2. Chunk(b, 1)[1] = b[(1 - 1) * W + 1]  BY <1>7, <2>1
  <2> QED  BY <1>9, <2>1, <2>2
<1> QED  BY <1>4, <1>5, <1>6, <1>7, <1>8, <1>9, <1>10 DEF e

(* The string in a chunk is a part of it.                                  *)
LEMMA TextType ==
  ASSUME NEW S, NEW s \in Seq(S)
  PROVE  Text(s) \in Seq(S)
<1> DEFINE nuls == {i \in DOMAIN s : s[i] = NUL}
<1>1. CASE nuls = {}  BY <1>1 DEF Text
<1>2. CASE nuls # {}
  <2>1. Len(s) \in Nat /\ DOMAIN s = 1..Len(s)  BY LenProperties
  <2>2. nuls \subseteq 1..Len(s) /\ nuls \subseteq Nat  BY <2>1
  <2>3. Text(s) = SubSeq(s, 1, Min(nuls) - 1)  BY <1>2 DEF Text
  <2> HIDE DEF nuls
  <2>4. Min(nuls) \in nuls  BY <1>2, <2>2, MinOf
  <2> DEFINE m == Min(nuls)
  <2>5. m \in 1..Len(s)  BY <2>2, <2>4
  <2> HIDE DEF m
  <2>6. 1 \in Nat \ {0} /\ m - 1 \in 1 - 1..Len(s)  BY <2>1, <2>5
  <2>7. SubSeq(s, 1, m - 1) \in Seq(S)  BY <2>6, PartOf
  <2> QED  BY <2>3, <2>7 DEF m
<1> QED  BY <1>1, <1>2

(* What is gathered from the slab is made of what is in it.                *)
LEMMA FromType ==
  ASSUME NEW S, NEW slab \in Seq(Seq(S)), slab # <<>>, NEW n \in Nat
  PROVE  From(slab, MoveCursor(slab, n)) \in Seq(S)
<1> DEFINE cursor == MoveCursor(slab, n)
           rest == SubSeq(slab[cursor.from], cursor.ptr + 1, Len(slab[cursor.from]))
           part(k) == IF k = cursor.node THEN Text(rest) ELSE Text(slab[k])
           few == Len(slab) - cursor.node + 1
           parts == [i \in 1..few |-> part(cursor.node + i - 1)]
<1>1. Len(slab) \in Nat \ {0} /\ \A k \in 1..Len(slab) : slab[k] \in Seq(S)
  BY LastOf, ElementOfSeq
<1>2. /\ cursor.node \in Nat \ {0} /\ cursor.ptr \in Nat
      /\ cursor.from = cursor.node \/ cursor.from = 1
  <2> DEFINE at == n + 1
             node == (at + W - 1) \div W
             size == (Len(slab) - 1) * W + Len(Last(slab))
  <2>1. \/ cursor = [node |-> node, from |-> node, ptr |-> at - (node - 1) * W]
        \/ cursor = [node |-> Len(slab), from |-> 1, ptr |-> 1]
    <3>1. cursor = IF at <= size THEN [node |-> node, from |-> node, ptr |-> at - (node - 1) * W]
                   ELSE [node |-> Len(slab), from |-> 1, ptr |-> 1]
      BY Zenon DEF MoveCursor
    <3> HIDE DEF cursor, at, size, node
    <3> QED  BY <3>1
  <2>2. at \in Nat \ {0} /\ W \in Nat \ {0}  BY WidthAssumption
  <2> HIDE DEF at
  <2>3. node \in Nat \ {0} /\ (node - 1) * W < at  BY <2>2
  <2> HIDE DEF node
  <2>4. (node - 1) * W \in Nat  BY <2>2, <2>3
  <2>5. at - (node - 1) * W \in Nat  BY <2>2, <2>3, <2>4
  <2> HIDE DEF cursor
  <2> QED  BY <1>1, <2>1, <2>3, <2>5
<1> HIDE DEF cursor
<1>3. ASSUME NEW k \in 1..Len(slab) PROVE part(k) \in Seq(S)
  <2>1. slab[k] \in Seq(S) /\ Text(slab[k]) \in Seq(S)  BY <1>1, TextType
  <2>2. ASSUME k = cursor.node PROVE Text(rest) \in Seq(S)
    <3> DEFINE from == slab[cursor.from]
    <3>1. cursor.from \in 1..Len(slab)  BY <1>1, <1>2, <2>2
    <3>2. from \in Seq(S) /\ Len(from) \in Nat  BY <1>1, <3>1, LenProperties
    <3> HIDE DEF from
    <3>3. SubSeq(from, cursor.ptr + 1, Len(from)) \in Seq(S)
      <4>1. CASE cursor.ptr <= Len(from)
        <5>1. cursor.ptr + 1 \in Nat \ {0} /\ Len(from) \in (cursor.ptr + 1) - 1..Len(from)
          BY <1>2, <3>2, <4>1
        <5> QED  BY <3>2, <5>1, PartOf
      <4>2. CASE ~(cursor.ptr <= Len(from))
        <5>1. /\ cursor.ptr + 1 \in Int /\ Len(from) \in Int
              /\ \A i \in cursor.ptr + 1..Len(from) : from[i] \in S
          BY <1>2, <3>2, <4>2
        <5> QED  BY <5>1, SubSeqProperties
      <4> QED  BY <4>1, <4>2
    <3>4. rest \in Seq(S)  BY <3>3 DEF from
    <3> HIDE DEF rest
    <3> QED  BY <3>4, TextType
  <2> HIDE DEF rest
  <2> QED  BY <2>1, <2>2
<1>4. From(slab, cursor) = FlattenSeq(parts)  BY DEF From
<1>5. parts \in Seq(Seq(S))
  <2> DEFINE d == IF few > 0 THEN few ELSE 0
  <2>1. d \in Nat /\ 1..few = 1..d  BY <1>1, <1>2
  <2>2. \A i \in 1..d : cursor.node + i - 1 \in 1..Len(slab)  BY <1>1, <1>2
  <2> HIDE DEF few
  <2>3. parts = [i \in 1..d |-> part(cursor.node + i - 1)]  BY <2>1
  <2> HIDE DEF part, d, parts
  <2>4. \A i \in 1..d : part(cursor.node + i - 1) \in Seq(S)  BY <1>3, <2>2
  <2> QED  BY <2>1, <2>3, <2>4
<1>6. FlattenSeq(parts) \in Seq(S)
  <2> HIDE DEF parts
  <2> QED  BY <1>5, FlattenType
<1> QED  BY <1>4, <1>6 DEF cursor

-----------------------------------------------------------------------------
(* The request that begins the slab.                                       *)

(* An answer of which nothing is written.                                  *)
Answering == out' \in Seq(Said) /\ pc' = "write" /\ total' = 0 /\ out' # <<>>

(* So begins any answer.                                                   *)
LEMMA AnswerBegins ==
  ASSUME NEW tokens \in Seq(Said), tokens # <<>>, Answer(tokens)
  PROVE  Answering
BY DEF Answer, Answering

(* That of a push, status or queues.                                       *)
LEMMA SayBegins ==
  ASSUME NEW op \in {"push", "pop"} \cup Unnamed, NEW token \in {ONE, ZERO},
         Say(op, token)
  PROVE  Answering
<1> DEFINE tokens == << <<op, <<1>>>>, token, NL>>
<1>1. <<1>> \in Seq(Nat)  OBVIOUS
<1>2. <<op, <<1>>>> \in Said  BY <1>1 DEF Said, Token, Heads
<1>3. token \in Said /\ NL \in Said  BY DEF Said, Token
<1>4. tokens \in Seq(Said) /\ tokens # <<>>  BY <1>2, <1>3
<1>5. Answer(tokens)  BY DEF Say
<1> HIDE DEF tokens
<1> QED  BY <1>4, <1>5, AnswerBegins

(* That of a pop that finds nothing.                                       *)
LEMMA NothingBegins ==
  ASSUME SayNothing
  PROVE  Answering
<1> DEFINE tokens == << <<"pop", <<0>>>>, NL>>
<1>1. <<0>> \in Seq(Nat)  OBVIOUS
<1>2. <<"pop", <<0>>>> \in Said /\ NL \in Said  BY <1>1 DEF Said, Token, Heads
<1>3. tokens \in Seq(Said) /\ tokens # <<>>  BY <1>2
<1>4. Answer(tokens)  BY DEF SayNothing
<1> HIDE DEF tokens
<1> QED  BY <1>3, <1>4, AnswerBegins

(* The table after a queue was found or made.                              *)
LEMMA KeepType ==
  ASSUME Kept, NEW name, NEW known \in BOOLEAN, NEW items \in Seq(Item),
         Keep(name, known, items)
  PROVE  Kept'
<1>1. /\ known \/ queues < HtSize
      /\ queues' = IF known THEN queues ELSE queues + 1
      /\ \/ held' = [n \in DOMAIN held \cup {Key(name)} |-> IF n = Key(name) THEN items ELSE held[n]]
         \/ held' = held
  BY DEF Keep
<1>2. queues' \in 0..HtSize
  <2>1. HtSize \in Nat /\ queues \in 0..HtSize  BY SizeAssumption DEF Kept
  <2> QED  BY <1>1, <2>1
<1>3. \A n \in DOMAIN held' : held'[n] \in Seq(Item)  BY <1>1 DEF Kept
<1> QED  BY <1>2, <1>3 DEF Kept

(* And the items that were in it.                                          *)
LEMMA ItemsType ==
  ASSUME Kept, NEW name, NEW known \in BOOLEAN, Finds(name, known)
  PROVE  Items(name, known) \in Seq(Item)
<1>1. CASE known  BY <1>1 DEF Items, Finds, Kept
<1>2. CASE ~known
  <2>1. Items(name, known) = <<>>  BY <1>2 DEF Items
  <2> QED  BY <2>1, EmptySeq
<1> QED  BY <1>1, <1>2

(* What a push puts into a queue, and where.                               *)
PushItem(slab, argn) ==
  IF Len(argn) > 1 /\ argn[2] > 0
    THEN [len |-> argn[2], text |-> From(slab, MoveCursor(slab, argn[1]))]
    ELSE [len |-> 0, text |-> <<>>]

(* A push keeps queues of items in the table, and answers.                 *)
LEMMA PushType ==
  ASSUME NEW slab \in Seq(Seq(Token)), slab # <<>>, NEW argn \in Seq(Nat), Kept,
         Push(slab, argn)
  PROVE  Kept' /\ Answering
<1> DEFINE name == NameOf(slab, argn[1])
           item == PushItem(slab, argn)
<1>1. CASE ~HasName(slab, argn)
  <2>1. Say("push", ZERO) /\ UNCHANGED store  BY <1>1 DEF Push
  <2>2. Kept'  BY <2>1 DEF Kept, store
  <2> QED  BY <2>1, <2>2, SayBegins
<1>2. CASE HasName(slab, argn)
  <2>1. PICK known \in BOOLEAN :
          /\ Finds(name, known)
          /\ Keep(name, known, IF Len(Items(name, known)) <= AoqMaxSize
                                 THEN Append(Items(name, known), item)
                                 ELSE Items(name, known))
    BY <1>2, Zenon DEF Push, PushItem
  <2>2. Say("push", ONE)  BY <1>2 DEF Push
  <2>3. item \in Item
    <3>1. CASE Len(argn) > 1 /\ argn[2] > 0
      <4>1. argn[1] \in Nat /\ argn[2] \in Nat
        <5>1. 1 \in 1..Len(argn) /\ 2 \in 1..Len(argn)  BY <3>1, LenProperties
        <5> QED  BY <5>1, ElementOfSeq
      <4> DEFINE m == argn[1]
      <4>2. m \in Nat  BY <4>1
      <4>3. item = [len |-> argn[2], text |-> From(slab, MoveCursor(slab, m))]
        BY <3>1 DEF PushItem
      <4> HIDE DEF m, item
      <4>4. From(slab, MoveCursor(slab, m)) \in Seq(Token)  BY <4>2, FromType
      <4> QED  BY <4>1, <4>3, <4>4 DEF Item
    <3>2. CASE ~(Len(argn) > 1 /\ argn[2] > 0)
      <4>1. item = [len |-> 0, text |-> <<>>]  BY <3>2 DEF PushItem
      <4> HIDE DEF item
      <4>2. <<>> \in Seq(Token)  BY EmptySeq
      <4> QED  BY <4>1, <4>2 DEF Item
    <3> QED  BY <3>1, <3>2
  <2> HIDE DEF name, item
  <2> DEFINE items == Items(name, known)
             kept == IF Len(items) <= AoqMaxSize THEN Append(items, item) ELSE items
  <2>4. items \in Seq(Item)  BY <2>1, ItemsType
  <2>5. Keep(name, known, kept)  BY <2>1
  <2> HIDE DEF items
  <2>6. kept \in Seq(Item)  BY <2>3, <2>4, AppendProperties
  <2> HIDE DEF kept
  <2>7. Kept'  BY <2>5, <2>6, KeepType
  <2> QED  BY <2>2, <2>7, SayBegins
<1> QED  BY <1>1, <1>2

(* A pop answers, unless it is the end of the process.                     *)
LEMMA PopType ==
  ASSUME NEW slab, NEW argn, Kept, Pop(slab, argn)
  PROVE  /\ Kept'
         /\ (Answering \/ (pc' = "dead" /\ UNCHANGED reply))
<1> DEFINE name == NameOf(slab, argn[1])
<1>1. CASE ~HasName(slab, argn)
  <2>1. SayNothing /\ UNCHANGED store  BY <1>1 DEF Pop
  <2>2. Kept'  BY <2>1 DEF Kept, store
  <2> QED  BY <2>1, <2>2, NothingBegins
<1>2. CASE HasName(slab, argn)
  <2>1. PICK known \in BOOLEAN :
          LET items == Items(name, known) IN
            /\ Finds(name, known)
            /\ \/ items = <<>> /\ Keep(name, known, <<>>) /\ SayNothing
               \/ /\ items # <<>> /\ Head(items).len > 0
                  /\ Keep(name, known, Tail(items))
                  /\ Answer(<< <<"pop", <<Head(items).len>>>> >> \o Head(items).text)
               \/ /\ items # <<>> /\ Head(items).len = 0
                  /\ pc' = "dead" /\ UNCHANGED <<store, reply>>
    BY <1>2, Zenon DEF Pop
  <2> HIDE DEF name
  <2> DEFINE items == Items(name, known)
  <2>2. items \in Seq(Item)  BY <2>1, ItemsType
  <2>3. \/ items = <<>> /\ Keep(name, known, <<>>) /\ SayNothing
        \/ /\ items # <<>> /\ Keep(name, known, Tail(items))
           /\ Answer(<< <<"pop", <<Head(items).len>>>> >> \o Head(items).text)
        \/ pc' = "dead" /\ UNCHANGED <<store, reply>>
    BY <2>1
  <2> HIDE DEF items
  <2>4. CASE items = <<>> /\ Keep(name, known, <<>>) /\ SayNothing
    <3>1. <<>> \in Seq(Item)  BY EmptySeq
    <3>2. Kept'  BY <2>4, <3>1, KeepType
    <3> QED  BY <2>4, <3>2, NothingBegins
  <2>5. CASE /\ items # <<>> /\ Keep(name, known, Tail(items))
             /\ Answer(<< <<"pop", <<Head(items).len>>>> >> \o Head(items).text)
    <3> DEFINE item == Head(items)
               first == << <<"pop", <<item.len>>>> >>
               few == Tail(items)
    <3>1. item \in Item /\ few \in Seq(Item)  BY <2>2, <2>5, HeadTailProperties
    <3>2. Keep(name, known, few) /\ Answer(first \o item.text)  BY <2>5
    <3> HIDE DEF few, item
    <3>3. Kept'  BY <3>1, <3>2, KeepType
    <3>4. item.len \in Nat /\ item.text \in Seq(Token)  BY <3>1 DEF Item
    <3>5. <<item.len>> \in Seq(Nat)  BY <3>4
    <3>6. <<"pop", <<item.len>>>> \in Said  BY <3>5 DEF Said, Token, Heads
    <3>7. first \in Seq(Said) /\ Len(first) = 1  BY <3>6
    <3>8. item.text \in Seq(Said) /\ Len(item.text) \in Nat
      <4>1. Token \subseteq Said  BY DEF Said
      <4> QED  BY <3>4, <4>1, SeqMonotonic, LenProperties
    <3> HIDE DEF first
    <3>9. first \o item.text \in Seq(Said) /\ first \o item.text # <<>>
      <4>1. /\ first \o item.text \in Seq(Said)
            /\ Len(first \o item.text) = Len(first) + Len(item.text)
        BY <3>7, <3>8, ConcatProperties
      <4>2. Len(first \o item.text) # 0  BY <3>7, <3>8, <4>1
      <4> QED  BY <4>1, <4>2, EmptySeq
    <3>10. Answering  BY <3>2, <3>9, AnswerBegins
    <3> QED  BY <3>3, <3>10
  <2>6. CASE pc' = "dead" /\ UNCHANGED <<store, reply>>
    BY <2>6 DEF Kept, store
  <2> QED  BY <2>3, <2>4, <2>5, <2>6
<1> QED  BY <1>1, <1>2

(* It leaves queues of items, and nothing to do, or an answer of which     *)
(* nothing is written, or no process.                                      *)
LEMMA ExecuteType ==
  ASSUME NEW slab \in Seq(Seq(Token)), slab # <<>>, Streams, Kept, Execute(slab)
  PROVE  /\ Kept' /\ out' \in Seq(Said)
         /\ \/ pc' = "idle" /\ done' = done /\ ~IsHead(slab[1][1])
            \/ /\ pc' \in {"write", "dead"}
               /\ done' = Append(done, slab[1][1]) /\ IsHead(slab[1][1])
               /\ pc' = "write" => total' = 0 /\ out' # <<>>
<1> DEFINE head == slab[1][1]
<1>1. CASE ~IsHead(head)
  <2>1. pc' = "idle" /\ done' = done /\ UNCHANGED store /\ UNCHANGED reply
    BY <1>1 DEF Execute
  <2> QED  BY <1>1, <2>1 DEF Streams, reply, Kept, store
<1>2. CASE IsHead(head)
  <2>1. /\ head[1] \in {"push", "pop"} \cup Unnamed /\ head[2] \in Seq(Nat)
        /\ done' = Append(done, head)
        /\ head[1] = "push" => Push(slab, head[2])
        /\ head[1] = "pop" => Pop(slab, head[2])
        /\ head[1] \in Unnamed => Say(head[1], ONE) /\ UNCHANGED store
    <3>1. head[1] \in {"push", "pop"} \cup Unnamed /\ head[2] \in Seq(Nat)
      BY <1>2 DEF IsHead, Heads
    <3>2. /\ done' = Append(done, head)
          /\ CASE head[1] = "push" -> Push(slab, head[2])
               [] head[1] = "pop" -> Pop(slab, head[2])
               [] head[1] \in Unnamed -> Say(head[1], ONE) /\ UNCHANGED store
      BY <1>2 DEF Execute
    <3> HIDE DEF head
    <3> QED  BY <3>1, <3>2 DEF Unnamed
  <2> DEFINE argn == head[2]
             op == head[1]
  <2>2. op \in {"push", "pop"} \cup Unnamed /\ argn \in Seq(Nat)  BY <2>1
  <2>3. Kept' /\ (Answering \/ (pc' = "dead" /\ UNCHANGED reply))
    <3>1. CASE op = "push"
      <4>1. Push(slab, argn)  BY <2>1, <3>1
      <4> HIDE DEF argn
      <4> QED  BY <2>2, <4>1, PushType
    <3>2. CASE op = "pop"
      <4>1. Pop(slab, argn)  BY <2>1, <3>2
      <4> HIDE DEF argn
      <4> QED  BY <4>1, PopType
    <3>3. CASE op \in Unnamed
      <4>1. Say(op, ONE) /\ UNCHANGED store  BY <2>1, <3>3
      <4> HIDE DEF op
      <4>2. Answering  BY <2>2, <4>1, SayBegins
      <4> QED  BY <4>1, <4>2 DEF Kept, store
    <3> QED  BY <2>2, <3>1, <3>2, <3>3
  <2>4. out' \in Seq(Said) /\ pc' \in {"write", "dead"}
        /\ (pc' = "write" => total' = 0 /\ out' # <<>>)
    BY <2>3 DEF Answering, Streams, reply
  <2> QED  BY <1>2, <2>1, <2>3, <2>4
<1> QED  BY <1>1, <1>2

-----------------------------------------------------------------------------
(* The invariant.  At first all is empty.                                  *)
LEMMA InitInv == Init => Inv
<1> SUFFICES ASSUME Init PROVE Inv
  OBVIOUS
<1>1. MaxBlocks \in Nat /\ MaxAsks \in Nat  BY BoundAssumption
<1>2. Streams  BY EmptySeq DEF Init, Streams
<1>3. Kept
  <2>1. HtSize \in Nat  BY SizeAssumption
  <2> QED  BY <2>1 DEF Init, Kept
<1>4. Turn  BY DEF Init, Turn
<1>5. Counts
  <2>1. served = 0 /\ blocks = 0 /\ pc = "idle" /\ Len(asked) = 0 /\ Len(done) = 0
    BY EmptySeq DEF Init
  <2>2. eager \in BOOLEAN  BY DEF Init
  <2>3. served + (IF pc = "write" THEN 1 ELSE 0) <= Len(done)  BY <2>1
  <2> QED  BY <1>1, <2>1, <2>2, <2>3 DEF Counts
<1> QED  BY <1>2, <1>3, <1>4, <1>5 DEF Inv

(* A request is sent: only the socket and the histories change.            *)
LEMMA AskInv ==
  ASSUME Inv, NEW q \in Request, Ask(q)
  PROVE  Inv'
<1>1. /\ Len(asked) < MaxAsks /\ wire' = wire \o Frame(q) /\ asked' = Append(asked, q)
      /\ sent' = sent \o Frame(q) /\ eager' = (eager \/ served < Len(asked))
      /\ pc' = pc /\ buf' = buf /\ out' = out /\ total' = total
      /\ held' = held /\ queues' = queues
      /\ done' = done /\ served' = served /\ blocks' = blocks
  BY DEF Ask, reply, store
<1>2. Streams'
  <2>1. asked' \in Seq(Request)  BY <1>1, AppendProperties DEF Inv, Streams
  <2>2. wire' \in Seq(Token) /\ sent' \in Seq(Token)
    BY <1>1, FrameType, ConcatProperties DEF Inv, Streams
  <2> QED  BY <1>1, <2>1, <2>2 DEF Inv, Streams
<1>3. Kept'  BY <1>1 DEF Inv, Kept
<1>4. Turn'  BY <1>1 DEF Inv, Turn
<1>5. Counts'
  <2>1. asked \in Seq(Request) /\ MaxAsks \in Nat  BY BoundAssumption DEF Inv, Streams
  <2>2. Len(asked') = Len(asked) + 1 /\ Len(asked) \in Nat
    BY <1>1, <2>1, AppendProperties, LenProperties
  <2>3. Len(asked') <= MaxAsks  BY <1>1, <2>1, <2>2
  <2>4. eager' \in BOOLEAN  BY <1>1 DEF Inv, Counts
  <2> QED  BY <1>1, <2>3, <2>4 DEF Inv, Counts
<1> QED  BY <1>2, <1>3, <1>4, <1>5 DEF Inv

(* What is read goes on to the buffer or into the slab.                    *)
LEMMA ReadMeans ==
  ASSUME Streams, Read
  PROVE  \E k \in 1..Len(wire) :
           LET all == buf \o SubSeq(wire, 1, k)
               rest == SubSeq(wire, k + 1, Len(wire))
           IN  /\ all \in Seq(Token) /\ all # <<>> /\ rest \in Seq(Token)
               /\ all \o rest = buf \o wire /\ wire' = rest
               /\ IF Last(all) = NL
                    THEN buf' = <<>> /\ Execute(Split(all)) /\ Split(all) \in Seq(Seq(Token))
                         /\ Split(all) # <<>> /\ Split(all)[1][1] = all[1]
                    ELSE buf' = all /\ pc' = "read" /\ UNCHANGED <<done, store, reply>>
<1>1. PICK k \in 1..Len(wire) :
        LET all == buf \o SubSeq(wire, 1, k) IN
          /\ wire' = SubSeq(wire, k + 1, Len(wire))
          /\ IF Last(all) = NL
               THEN buf' = <<>> /\ \E slab \in {Split(all)} : Execute(slab)
               ELSE buf' = all /\ pc' = "read" /\ UNCHANGED <<done, store, reply>>
  BY DEF Read
<1> DEFINE part == SubSeq(wire, 1, k)
           rest == SubSeq(wire, k + 1, Len(wire))
           all == buf \o part
<1>2. wire \in Seq(Token) /\ buf \in Seq(Token) /\ Len(wire) \in Nat /\ Len(buf) \in Nat
  BY LenProperties DEF Streams
<1>3. part \in Seq(Token) /\ Len(part) = k /\ rest \in Seq(Token) /\ part \o rest = wire
  <2>1. k \in 0..Len(wire)  BY <1>2
  <2> QED  BY <1>2, <2>1, FirstOnes, CutInTwo
<1>4. /\ wire' = rest
      /\ Last(all) = NL => buf' = <<>> /\ \E slab \in {Split(all)} : Execute(slab)
      /\ Last(all) # NL => buf' = all /\ pc' = "read" /\ UNCHANGED <<done, store, reply>>
  BY <1>1
<1> HIDE DEF part, rest
<1>5. all \in Seq(Token) /\ all # <<>>
  <2>1. all \in Seq(Token) /\ Len(all) = Len(buf) + Len(part)  BY <1>2, <1>3, ConcatProperties
  <2>2. Len(all) # 0  BY <1>2, <1>3, <2>1
  <2> QED  BY <2>1, <2>2, EmptySeq
<1>6. all \o rest = buf \o wire
  <2>1. buf \in Seq(Token) /\ part \in Seq(Token) /\ rest \in Seq(Token)  BY <1>2, <1>3
  <2>2. buf \o (part \o rest) = (buf \o part) \o rest
    BY <2>1, ConcatAssociative, SMTT(30)
  <2> QED  BY <1>3, <2>2
<1> HIDE DEF all
<1>7. ASSUME Last(all) = NL
      PROVE  /\ Split(all) \in Seq(Seq(Token)) /\ Split(all)[1][1] = all[1]
             /\ Split(all) # <<>> /\ Execute(Split(all))
  <2>1. /\ Split(all) \in Seq(Seq(Token)) /\ Split(all)[1][1] = all[1]
        /\ Len(Split(all)) = SplitEnd(all) /\ SplitEnd(all) \in Nat \ {0}
    BY <1>5, <1>7, SplitType, ZenonT(60)
  <2>2. Split(all) # <<>>  BY <2>1, EmptySeq
  <2>3. PICK slab \in {Split(all)} : Execute(slab)  BY <1>4, <1>7
  <2>4. slab = Split(all)  OBVIOUS
  <2> QED  BY <2>1, <2>2, <2>3, <2>4
<1>8. /\ all \in Seq(Token) /\ all # <<>> /\ rest \in Seq(Token)
      /\ all \o rest = buf \o wire /\ wire' = rest
      /\ IF Last(all) = NL
           THEN buf' = <<>> /\ Execute(Split(all)) /\ Split(all) \in Seq(Seq(Token))
                /\ Split(all) # <<>> /\ Split(all)[1][1] = all[1]
           ELSE buf' = all /\ pc' = "read" /\ UNCHANGED <<done, store, reply>>
  BY <1>4, <1>5, <1>3, <1>6, <1>7
<1> QED  BY <1>8 DEF all, part, rest

(* Reading: either the request goes on, or nobody asked anything, or it is *)
(* executed and there is an answer to write.                               *)
LEMMA ReadInv ==
  ASSUME Inv, Read
  PROVE  Inv'
<1>1. PICK k \in 1..Len(wire) :
        LET all == buf \o SubSeq(wire, 1, k)
            rest == SubSeq(wire, k + 1, Len(wire))
        IN  /\ all \in Seq(Token) /\ all # <<>> /\ rest \in Seq(Token)
            /\ all \o rest = buf \o wire /\ wire' = rest
            /\ IF Last(all) = NL
                 THEN buf' = <<>> /\ Execute(Split(all)) /\ Split(all) \in Seq(Seq(Token))
                      /\ Split(all) # <<>> /\ Split(all)[1][1] = all[1]
                 ELSE buf' = all /\ pc' = "read" /\ UNCHANGED <<done, store, reply>>
  BY ReadMeans DEF Inv
<1> DEFINE all == buf \o SubSeq(wire, 1, k)
           rest == SubSeq(wire, k + 1, Len(wire))
           slab == Split(all)
<1>2. /\ all \in Seq(Token) /\ all # <<>> /\ rest \in Seq(Token) /\ wire' = rest
      /\ Last(all) = NL => buf' = <<>> /\ Execute(slab) /\ slab \in Seq(Seq(Token))
                           /\ slab # <<>> /\ slab[1][1] = all[1]
      /\ Last(all) # NL => buf' = all /\ pc' = "read" /\ UNCHANGED <<done, store, reply>>
  BY <1>1
<1>3. /\ asked' = asked /\ sent' = sent /\ eager' = eager /\ served' = served /\ blocks' = blocks
      /\ pc \in {"idle", "read"}
  BY DEF Read, client
<1> HIDE DEF all, rest
<1>4. CASE Last(all) # NL
  <2>1. Streams'  BY <1>2, <1>3, <1>4 DEF Inv, Streams, reply
  <2>2. Kept'  BY <1>2, <1>4 DEF Inv, Kept, store
  <2>3. Turn'  BY <1>2, <1>4 DEF Turn
  <2>4. Counts'  BY <1>2, <1>3, <1>4 DEF Inv, Counts
  <2> QED  BY <2>1, <2>2, <2>3, <2>4 DEF Inv
<1>5. CASE Last(all) = NL
  <2>1. /\ buf' = <<>> /\ Execute(slab) /\ slab \in Seq(Seq(Token)) /\ slab # <<>>
        /\ slab[1][1] = all[1]
    BY <1>2, <1>5
  <2> HIDE DEF slab
  <2>2. /\ Kept' /\ out' \in Seq(Said)
        /\ \/ pc' = "idle" /\ done' = done /\ ~IsHead(slab[1][1])
           \/ /\ pc' \in {"write", "dead"}
              /\ done' = Append(done, slab[1][1]) /\ IsHead(slab[1][1])
              /\ pc' = "write" => total' = 0 /\ out' # <<>>
    BY <2>1, ExecuteType DEF Inv
  <2>3. /\ asked \in Seq(Request) /\ done \in Seq(Heads) /\ Len(done) \in Nat
        /\ sent \in Seq(Token)
        /\ served \in Nat /\ blocks \in 0..MaxBlocks /\ MaxBlocks \in Nat
        /\ served <= Len(done)
    BY <1>3, LenProperties, BoundAssumption DEF Inv, Streams, Counts
  <2>4. done' \in Seq(Heads) /\ Len(done') = Len(done) + IF pc' = "idle" THEN 0 ELSE 1
    <3>1. CASE pc' = "idle"  BY <2>2, <2>3, <3>1
    <3>2. CASE pc' \in {"write", "dead"}
      <4>1. slab[1][1] \in Heads /\ done' = Append(done, slab[1][1])
        BY <2>2, <3>2 DEF IsHead
      <4> QED  BY <2>3, <3>2, <4>1, AppendProperties
    <3> QED  BY <2>2, <3>1, <3>2
  <2>5. Streams'
    <3>1. buf' \in Seq(Token)  BY <2>1, EmptySeq
    <3> QED  BY <1>2, <1>3, <2>2, <2>3, <2>4, <3>1 DEF Streams
  <2>6. Kept'  BY <2>2
  <2>7. Turn'
    <3>1. pc' = "write" => total' \in -blocks'..Len(out') - 1
      <4> HAVE pc' = "write"
      <4>1. Len(out') # 0 /\ Len(out') \in Nat  BY <2>2, EmptySeq, LenProperties
      <4> QED  BY <1>3, <2>2, <2>3, <4>1
    <3> QED  BY <2>1, <2>2, <3>1 DEF Turn
  <2>8. Counts'
    <3>1. served' + (IF pc' = "write" THEN 1 ELSE 0) <= Len(done')
      BY <1>3, <2>2, <2>3, <2>4
    <3> QED  BY <1>3, <3>1 DEF Inv, Counts
  <2> QED  BY <2>5, <2>6, <2>7, <2>8 DEF Inv
<1> QED  BY <1>4, <1>5

(* Writing: the position goes on, or back by one, within the answer.       *)
LEMMA WriteInv ==
  ASSUME Inv, Write \/ WriteBlocks
  PROVE  Inv'
<1>1. /\ wire' = wire /\ buf' = buf /\ out' = out /\ held' = held /\ queues' = queues
      /\ done' = done /\ asked' = asked /\ sent' = sent /\ eager' = eager /\ pc = "write"
  BY DEF Write, WriteBlocks, client, socket, store
<1>2. Streams'  BY <1>1 DEF Inv, Streams
<1>3. Kept'  BY <1>1 DEF Inv, Kept
<1>4. /\ total \in -blocks..Len(out) - 1 /\ blocks \in Nat /\ blocks <= MaxBlocks
      /\ Len(out) \in Nat /\ MaxBlocks \in Nat /\ served \in Nat
      /\ served + 1 <= Len(done) /\ Len(done) \in Nat /\ buf = <<>>
  BY <1>1, LenProperties, BoundAssumption DEF Inv, Turn, Counts, Streams
<1>5. CASE Write
  <2>1. PICK k \in 1..Len(out) - total : total' = total + k  BY <1>5 DEF Write
  <2>2. blocks' = blocks  BY <1>5 DEF Write
  <2>3. \/ total' = Len(out) /\ pc' = "idle" /\ served' = served + 1
        \/ total' # Len(out) /\ pc' = pc /\ served' = served
    BY <1>5 DEF Write
  <2>4. Turn'  BY <1>1, <1>4, <2>1, <2>2, <2>3 DEF Turn
  <2>5. Counts'  BY <1>1, <1>4, <2>2, <2>3 DEF Inv, Counts
  <2> QED  BY <1>2, <1>3, <2>4, <2>5 DEF Inv
<1>6. CASE WriteBlocks
  <2>1. /\ total' = total - 1 /\ blocks' = blocks + 1 /\ blocks < MaxBlocks
        /\ pc' = pc /\ served' = served
    BY <1>6 DEF WriteBlocks
  <2>2. Turn'  BY <1>1, <1>4, <2>1 DEF Turn
  <2>3. Counts'  BY <1>1, <1>4, <2>1 DEF Inv, Counts
  <2> QED  BY <1>2, <1>3, <2>2, <2>3 DEF Inv
<1> QED  BY <1>5, <1>6

(* Every step keeps it.                                                    *)
LEMMA NextInv == Inv /\ [Next]_vars => Inv'
<1> SUFFICES ASSUME Inv, [Next]_vars PROVE Inv'
  OBVIOUS
<1>1. ASSUME NEW q \in Request, Ask(q) PROVE Inv'  BY <1>1, AskInv
<1>2. CASE Read  BY <1>2, ReadInv
<1>3. CASE Write \/ WriteBlocks  BY <1>3, WriteInv
<1>4. CASE UNCHANGED vars
  BY <1>4 DEF vars, socket, reply, store, client, Inv, Streams, Kept, Turn, Counts
<1> QED  BY <1>1, <1>2, <1>3, <1>4 DEF Next

(* The buffer holds a request that has begun and not ended, the position   *)
(* of a write lies in the answer but for the writes that blocked, and no   *)
(* more answers are written than requests were executed: read_cmd,         *)
(* socket_read_cb and write_reply, however the socket cuts what goes       *)
(* through it.                                                             *)
THEOREM TypeCorrect == Spec => []TypeOK
<1>1. Inv => TypeOK
  <2> SUFFICES ASSUME Inv PROVE TypeOK
    OBVIOUS
  <2>1. Range(asked) \subseteq Request
    <3>1. asked \in Seq(Request)  BY DEF Inv, Streams
    <3> QED  BY <3>1, ElementOfSeq, LenProperties DEF Range
  <2>2. \A name \in DOMAIN held : \A i \in DOMAIN held[name] : held[name][i].len \in Nat
    <3>1. ASSUME NEW name \in DOMAIN held, NEW i \in DOMAIN held[name]
          PROVE  held[name][i].len \in Nat
      <4>1. held[name] \in Seq(Item)  BY DEF Inv, Kept
      <4>2. held[name][i] \in Item  BY <4>1, ElementOfSeq, LenProperties
      <4> QED  BY <4>2 DEF Item
    <3> QED  BY <3>1
  <2>3. served <= Len(done)
    <3>1. Len(done) \in Nat  BY LenProperties DEF Inv, Streams
    <3> QED  BY <3>1 DEF Inv, Counts
  <2>4. blocks \in 0..MaxBlocks /\ eager \in BOOLEAN /\ Len(asked) <= MaxAsks
    BY DEF Inv, Counts
  <2> QED  BY <2>1, <2>2, <2>3, <2>4 DEF Inv, Turn, Kept, TypeOK
<1> QED  BY InitInv, NextInv, <1>1, PTL DEF Spec

-----------------------------------------------------------------------------
(* Finding s in t, token by token, is a recursive function.                *)
FoundBody(s, t, found, n) ==
  IF n = 0 THEN 0
  ELSE LET m == found[n - 1] IN IF m < Len(s) /\ s[m + 1] = t[n] THEN m + 1 ELSE m

FoundUpTo(s, t) == CHOOSE found : found = [n \in 0..Len(t) |-> FoundBody(s, t, found, n)]

(* It is the function that its recursion says it is.                       *)
LEMMA FoundIsFoundUpTo ==
  ASSUME NEW s, NEW t
  PROVE  Found(s, t) = FoundUpTo(s, t)[Len(t)]
BY Zenon DEF Found, FoundUpTo, FoundBody

(* It satisfies its equation.                                              *)
LEMMA FoundEquation ==
  ASSUME NEW s, NEW t, Len(t) \in Nat
  PROVE  \A n \in 0..Len(t) : FoundUpTo(s, t)[n] = FoundBody(s, t, FoundUpTo(s, t), n)
<1> DEFINE Eq(h, m) == h = [n \in 0..m |-> FoundBody(s, t, h, n)]
           T == {m \in Nat : \E h : Eq(h, m)}
<1>1. 0 \in T
  <2> DEFINE h == [n \in 0..0 |-> FoundBody(s, t, <<>>, n)]
  <2>1. FoundBody(s, t, h, 0) = FoundBody(s, t, <<>>, 0)  BY DEF FoundBody
  <2>2. Eq(h, 0)  BY <2>1
  <2> QED  BY <2>2
<1>2. ASSUME NEW m \in Nat, m \in T PROVE m + 1 \in T
  <2>1. PICK h : Eq(h, m)  BY <1>2
  <2> DEFINE g == [n \in 0..(m + 1) |-> FoundBody(s, t, h, n)]
  <2>2. \A n \in 0..m : g[n] = h[n]  BY <2>1
  <2>3. ASSUME NEW n \in 0..(m + 1) PROVE FoundBody(s, t, g, n) = FoundBody(s, t, h, n)
    <3>1. CASE n = 0  BY <3>1 DEF FoundBody
    <3>2. CASE n # 0
      <4> HIDE DEF g
      <4>1. n - 1 \in 0..m  BY <3>2
      <4>2. g[n - 1] = h[n - 1]  BY <4>1, <2>2
      <4> QED  BY <4>2 DEF FoundBody
    <3> QED  BY <3>1, <3>2
  <2>4. Eq(g, m + 1)  BY <2>3
  <2>5. m + 1 \in Nat  OBVIOUS
  <2> HIDE DEF Eq, g
  <2> QED  BY <2>4, <2>5, Zenon
<1>3. Len(t) \in T
  <2> HIDE DEF T
  <2> QED  BY <1>1, <1>2, Induction
<1>4. \E h : Eq(h, Len(t))  BY <1>3
<1>5. FoundUpTo(s, t) = CHOOSE h : Eq(h, Len(t))  BY Zenon DEF FoundUpTo
<1>6. Eq(FoundUpTo(s, t), Len(t))
  <2> HIDE DEF Eq
  <2> QED  BY <1>4, <1>5, Zenon
<1> QED  BY <1>6

(* What is found does not depend on what follows.                          *)
LEMMA FoundPrefix ==
  ASSUME NEW s, NEW t, NEW u, Len(t) \in Nat, Len(u) \in Nat, Len(t) <= Len(u),
         \A i \in 1..Len(t) : t[i] = u[i]
  PROVE  FoundUpTo(s, u)[Len(t)] = FoundUpTo(s, t)[Len(t)]
<1> DEFINE T == {n \in Nat : n <= Len(t) => FoundUpTo(s, u)[n] = FoundUpTo(s, t)[n]}
<1>1. \A n \in 0..Len(t) : FoundUpTo(s, t)[n] = FoundBody(s, t, FoundUpTo(s, t), n)
  BY FoundEquation
<1>2. \A n \in 0..Len(t) : FoundUpTo(s, u)[n] = FoundBody(s, u, FoundUpTo(s, u), n)
  BY FoundEquation
<1>3. 0 \in T  BY <1>1, <1>2 DEF FoundBody
<1>4. ASSUME NEW n \in Nat, n \in T PROVE n + 1 \in T
  <2>1. CASE n + 1 <= Len(t)
    <3>1. n + 1 # 0 /\ n + 1 - 1 = n /\ n + 1 \in 0..Len(t) /\ t[n + 1] = u[n + 1]
      BY <2>1
    <3>2. FoundUpTo(s, u)[n] = FoundUpTo(s, t)[n]  BY <1>4, <2>1
    <3>3. FoundUpTo(s, t)[n + 1] = FoundBody(s, t, FoundUpTo(s, t), n + 1)  BY <1>1, <3>1
    <3>4. FoundUpTo(s, u)[n + 1] = FoundBody(s, u, FoundUpTo(s, u), n + 1)  BY <1>2, <3>1
    <3>5. FoundBody(s, t, FoundUpTo(s, t), n + 1) = FoundBody(s, u, FoundUpTo(s, u), n + 1)
      BY <3>1, <3>2 DEF FoundBody
    <3> QED  BY <3>3, <3>4, <3>5
  <2>2. CASE ~(n + 1 <= Len(t))  BY <2>2
  <2> QED  BY <2>1, <2>2
<1>5. Len(t) \in T
  <2> HIDE DEF T
  <2> QED  BY <1>3, <1>4, Induction
<1> QED  BY <1>5

(* Nothing of a sequence is found in an empty one.                         *)
LEMMA FoundInNone ==
  ASSUME NEW s
  PROVE  Found(s, <<>>) = 0
<1>1. Len(<<>>) = 0  BY EmptySeq
<1>2. Found(s, <<>>) = FoundUpTo(s, <<>>)[0]  BY <1>1, FoundIsFoundUpTo
<1> QED  BY <1>1, <1>2, FoundEquation DEF FoundBody

(* A token more.                                                           *)
LEMMA FoundInAppend ==
  ASSUME NEW s, NEW S, NEW t \in Seq(S), NEW x \in S
  PROVE  Found(s, Append(t, x)) =
           IF Found(s, t) < Len(s) /\ s[Found(s, t) + 1] = x
             THEN Found(s, t) + 1 ELSE Found(s, t)
<1> DEFINE u == Append(t, x)
<1>1. /\ Len(t) \in Nat /\ Len(u) = Len(t) + 1 /\ Len(u) \in Nat
      /\ u[Len(t) + 1] = x /\ \A i \in 1..Len(t) : u[i] = t[i]
  BY AppendProperties, LenProperties
<1> HIDE DEF u
<1>2. FoundUpTo(s, u)[Len(t)] = FoundUpTo(s, t)[Len(t)]  BY <1>1, FoundPrefix
<1>3. FoundUpTo(s, u)[Len(u)] = FoundBody(s, u, FoundUpTo(s, u), Len(u))  BY <1>1, FoundEquation
<1>4. Len(u) # 0 /\ Len(u) - 1 = Len(t) /\ u[Len(u)] = x  BY <1>1
<1> DEFINE m == Found(s, t)
<1>5. m = FoundUpTo(s, u)[Len(u) - 1]  BY <1>2, <1>4, FoundIsFoundUpTo
<1> HIDE DEF m
<1>6. FoundUpTo(s, u)[Len(u)] = IF m < Len(s) /\ s[m + 1] = x THEN m + 1 ELSE m
  BY <1>3, <1>4, <1>5 DEF FoundBody
<1> QED  BY <1>6, FoundIsFoundUpTo DEF u, m

(* No more is found than there is.                                         *)
LEMMA FoundType ==
  ASSUME NEW S, NEW s \in Seq(S), NEW U, NEW t \in Seq(U)
  PROVE  Found(s, t) \in 0..Len(s)
<1> DEFINE All == {g \in Seq(U) : Found(s, g) \in 0..Len(s)}
           G == [n \in 0..Len(t) |-> All]
<1>1. Len(s) \in Nat /\ Len(t) \in Nat  BY LenProperties
<1>2. <<>> \in Seq(U) /\ <<>> \in G[0]
  <2>1. <<>> \in Seq(U)  BY EmptySeq
  <2> QED  BY <1>1, <2>1, FoundInNone
<1>3. ASSUME NEW n \in 0..Len(t) - 1, NEW g \in Seq(U), g \in G[n]
      PROVE  Append(g, t[n + 1]) \in G[n + 1]
  <2>1. n \in 0..Len(t) /\ n + 1 \in 0..Len(t) /\ n + 1 \in 1..Len(t)  BY <1>1
  <2>2. t[n + 1] \in U  BY <2>1, ElementOfSeq
  <2>3. Append(g, t[n + 1]) \in Seq(U)  BY <2>2, AppendProperties
  <2> DEFINE m == Found(s, g)
  <2>4. m \in 0..Len(s)  BY <1>3, <2>1
  <2>5. Found(s, Append(g, t[n + 1])) =
          IF m < Len(s) /\ s[m + 1] = t[n + 1] THEN m + 1 ELSE m
    BY <2>2, FoundInAppend
  <2> HIDE DEF m
  <2>6. Found(s, Append(g, t[n + 1])) \in 0..Len(s)  BY <1>1, <2>4, <2>5
  <2> QED  BY <2>1, <2>3, <2>6
<1> HIDE DEF G
<1>4. <<>> \o t \in G[Len(t)]  BY <1>2, <1>3, GrowthKeeps
<1>5. <<>> \o t = t  BY ConcatEmptySeq
<1> QED  BY <1>1, <1>4, <1>5 DEF G

(* What is found of a sequence is found of a longer one.                   *)
LEMMA FoundLonger ==
  ASSUME NEW S, NEW s \in Seq(S), NEW r \in Seq(S), NEW U, NEW t \in Seq(U)
  PROVE  Found(s, t) <= Found(s \o r, t)
<1> DEFINE e == s \o r
           All == {g \in Seq(U) : Found(s, g) <= Found(e, g)}
           G == [n \in 0..Len(t) |-> All]
<1>1. /\ Len(s) \in Nat /\ Len(t) \in Nat /\ Len(r) \in Nat /\ e \in Seq(S)
      /\ Len(e) = Len(s) + Len(r)
      /\ \A i \in 1..Len(s) + Len(r) : e[i] = IF i <= Len(s) THEN s[i] ELSE r[i - Len(s)]
  BY LenProperties, ConcatProperties
<1> HIDE DEF e
<1>2. <<>> \in Seq(U) /\ <<>> \in G[0]
  <2>1. <<>> \in Seq(U)  BY EmptySeq
  <2>2. Found(s, <<>>) <= Found(e, <<>>)  BY FoundInNone
  <2> QED  BY <1>1, <2>1, <2>2
<1>3. ASSUME NEW n \in 0..Len(t) - 1, NEW g \in Seq(U), g \in G[n]
      PROVE  Append(g, t[n + 1]) \in G[n + 1]
  <2>1. n \in 0..Len(t) /\ n + 1 \in 0..Len(t) /\ n + 1 \in 1..Len(t)  BY <1>1
  <2>2. t[n + 1] \in U  BY <2>1, ElementOfSeq
  <2>3. Append(g, t[n + 1]) \in Seq(U)  BY <2>2, AppendProperties
  <2> DEFINE m == Found(s, g)
             k == Found(e, g)
  <2>4. m <= k  BY <1>3, <2>1
  <2>5. m \in 0..Len(s) /\ k \in 0..Len(e)  BY <1>1, FoundType
  <2>6. Found(s, Append(g, t[n + 1])) =
          IF m < Len(s) /\ s[m + 1] = t[n + 1] THEN m + 1 ELSE m
    BY <2>2, FoundInAppend
  <2>7. Found(e, Append(g, t[n + 1])) =
          IF k < Len(e) /\ e[k + 1] = t[n + 1] THEN k + 1 ELSE k
    BY <2>2, FoundInAppend
  <2> HIDE DEF m, k
  <2>8. ASSUME m = k, m < Len(s) PROVE k < Len(e) /\ e[k + 1] = s[m + 1]
    <3>1. m + 1 \in 1..Len(s) + Len(r) /\ m + 1 <= Len(s)  BY <1>1, <2>5, <2>8
    <3>2. e[m + 1] = s[m + 1]  BY <1>1, <3>1
    <3>3. k < Len(e)  BY <1>1, <2>5, <2>8
    <3> QED  BY <2>8, <3>2, <3>3
  <2>9. Found(s, Append(g, t[n + 1])) <= Found(e, Append(g, t[n + 1]))
    <3>1. CASE m = k
      <4>1. CASE m < Len(s) /\ s[m + 1] = t[n + 1]
        <5>1. k < Len(e) /\ e[k + 1] = t[n + 1]  BY <2>8, <3>1, <4>1
        <5> QED  BY <2>5, <2>6, <2>7, <3>1, <4>1, <5>1
      <4>2. CASE ~(m < Len(s) /\ s[m + 1] = t[n + 1])
        <5>1. Found(s, Append(g, t[n + 1])) = m  BY <2>6, <4>2
        <5>2. Found(e, Append(g, t[n + 1])) \in {k, k + 1}  BY <2>7
        <5> QED  BY <2>5, <3>1, <5>1, <5>2
      <4> QED  BY <4>1, <4>2
    <3>2. CASE m # k
      <4>1. Found(s, Append(g, t[n + 1])) \in {m, m + 1}  BY <2>6
      <4>2. Found(e, Append(g, t[n + 1])) \in {k, k + 1}  BY <2>7
      <4>3. m + 1 <= k  BY <1>1, <2>4, <2>5, <3>2
      <4> QED  BY <1>1, <2>5, <4>1, <4>2, <4>3
    <3> QED  BY <3>1, <3>2
  <2> QED  BY <2>1, <2>3, <2>9
<1> HIDE DEF G
<1>4. <<>> \o t \in G[Len(t)]  BY <1>2, <1>3, GrowthKeeps
<1>5. <<>> \o t = t  BY ConcatEmptySeq
<1>6. t \in All  BY <1>1, <1>4, <1>5 DEF G
<1> QED  BY <1>6 DEF e

(* What is found of the sequence, and of the sequence with a token more,   *)
(* when something that begins with that token follows.                     *)
LEMMA FoundOn ==
  ASSUME NEW S, NEW d \in Seq(S), NEW s \in Seq(S), NEW t \in Seq(S), t # <<>>,
         Found(d, s) = Len(d)
  PROVE  /\ Found(d, s \o t) = Len(d)
         /\ Found(Append(d, t[1]), s \o t) = Len(Append(d, t[1]))
<1>1. Len(t) \in Nat \ {0} /\ Len(s) \in Nat /\ Len(d) \in Nat  BY LastOf, LenProperties
<1> DEFINE m == Len(d)
           e == Append(d, t[1])
<1>2. t[1] \in S /\ e \in Seq(S) /\ Len(e) = m + 1 /\ e[m + 1] = t[1]
  <2>1. t[1] \in S
    <3>1. 1 \in 1..Len(t)  BY <1>1
    <3> QED  BY <3>1, ElementOfSeq
  <2> QED  BY <2>1, AppendProperties
<1>3. m \in Nat  BY <1>1
<1>4. Found(e, s) \in m..(m + 1)
  <2>1. e = d \o <<t[1]>> /\ <<t[1]>> \in Seq(S)  BY <1>2, AppendIsConcat
  <2> HIDE DEF e
  <2>2. Found(d, s) <= Found(e, s)  BY <2>1, FoundLonger
  <2>3. Found(e, s) \in 0..Len(e)  BY <1>2, FoundType
  <2> QED  BY <1>2, <1>3, <2>2, <2>3
<1> HIDE DEF m, e
<1> DEFINE G == [n \in 0..Len(t) |->
                   {g \in Seq(S) : /\ Found(d, g) = m
                                   /\ Found(e, g) \in m..(m + 1)
                                   /\ n > 0 => Found(e, g) = m + 1}]
<1>5. s \in G[0]
  <2>1. G[0] = {g \in Seq(S) : /\ Found(d, g) = m
                               /\ Found(e, g) \in m..(m + 1)
                               /\ 0 > 0 => Found(e, g) = m + 1}
    BY <1>1
  <2> HIDE DEF G
  <2> QED  BY <1>4, <2>1 DEF m
<1>6. ASSUME NEW n \in 0..Len(t) - 1, NEW g \in Seq(S), g \in G[n]
      PROVE  Append(g, t[n + 1]) \in G[n + 1]
  <2>1. n \in 0..Len(t) /\ n + 1 \in 0..Len(t) /\ n + 1 \in 1..Len(t) /\ n + 1 > 0  BY <1>1
  <2> DEFINE x == t[n + 1]
  <2>2. x \in S  BY <2>1, ElementOfSeq
  <2>3. Found(d, g) = m /\ Found(e, g) \in m..(m + 1) /\ (n > 0 => Found(e, g) = m + 1)
    BY <1>6, <2>1
  <2>4. n = 0 => x = t[1]  OBVIOUS
  <2> HIDE DEF x
  <2>5. Append(g, x) \in Seq(S)  BY <2>2, AppendProperties
  <2>6. Found(d, Append(g, x)) = m
    <3>1. Found(d, Append(g, x)) = IF Found(d, g) < Len(d) /\ d[Found(d, g) + 1] = x
                                     THEN Found(d, g) + 1 ELSE Found(d, g)
      BY <2>2, FoundInAppend
    <3>2. ~(Found(d, g) < Len(d))  BY <1>3, <2>3 DEF m
    <3> QED  BY <2>3, <3>1, <3>2
  <2>7. Found(e, Append(g, x)) = m + 1
    <3> DEFINE k == Found(e, g)
    <3>1. Found(e, Append(g, x)) = IF k < Len(e) /\ e[k + 1] = x THEN k + 1 ELSE k
      BY <2>2, FoundInAppend
    <3>2. k \in m..(m + 1) /\ (n > 0 => k = m + 1)  BY <2>3
    <3> HIDE DEF k
    <3>3. CASE k = m + 1
      <4>1. ~(k < Len(e))  BY <1>2, <1>3, <3>3
      <4> QED  BY <3>1, <3>3, <4>1
    <3>4. CASE k # m + 1
      <4>1. k = m /\ n = 0  BY <1>3, <2>1, <3>2, <3>4
      <4>2. k < Len(e) /\ e[k + 1] = x  BY <1>2, <1>3, <2>4, <4>1
      <4> QED  BY <3>1, <4>1, <4>2
    <3> QED  BY <3>3, <3>4
  <2>8. m + 1 \in m..(m + 1)  BY <1>3
  <2>9. Append(g, x) \in G[n + 1]  BY <2>1, <2>5, <2>6, <2>7, <2>8
  <2> QED  BY <2>9 DEF x
<1>7. s \o t \in G[Len(t)]
  <2> HIDE DEF G
  <2> QED  BY <1>5, <1>6, GrowthKeeps
<1>8. Found(d, s \o t) = m /\ Found(e, s \o t) = m + 1
  <2>1. Len(t) \in 0..Len(t) /\ Len(t) > 0  BY <1>1
  <2> QED  BY <1>7, <2>1
<1> QED  BY <1>2, <1>8 DEF m, e

-----------------------------------------------------------------------------
(* Lines.  What begins a line is known from what is before it.             *)
Fresh(text) == text = <<>> \/ Last(text) = NL

LineToken == Token \cup {JUNK}

(* What begins a line of tokens is a sequence of tokens.                   *)
LEMMA StartsType ==
  ASSUME NEW text \in Seq(Token)
  PROVE  /\ Starts(text) \in Seq(LineToken) /\ Len(Starts(text)) = Len(text)
         /\ Len(text) \in Nat
         /\ \A i \in 1..Len(text) : Starts(text)[i] = IF i = 1 \/ text[i - 1] = NL
                                                        THEN text[i] ELSE JUNK
<1>1. Len(text) \in Nat /\ DOMAIN text = 1..Len(text)  BY LenProperties
<1>2. \A i \in 1..Len(text) : text[i] \in Token  BY ElementOfSeq
<1>3. Starts(text) = [i \in 1..Len(text) |-> IF i = 1 \/ text[i - 1] = NL THEN text[i] ELSE JUNK]
  BY <1>1 DEF Starts
<1>4. \A i \in 1..Len(text) : (IF i = 1 \/ text[i - 1] = NL THEN text[i] ELSE JUNK) \in LineToken
  BY <1>2 DEF LineToken
<1> QED  BY <1>1, <1>3, <1>4

(* Nothing begins in nothing.                                              *)
LEMMA StartsOfNone == Starts(<<>>) = <<>>
<1>1. <<>> \in Seq(Token) /\ Len(<<>>) = 0  BY EmptySeq
<1>2. Starts(<<>>) \in Seq(LineToken) /\ Len(Starts(<<>>)) = 0  BY <1>1, StartsType
<1> QED  BY <1>2, EmptySeq

(* The starts of two texts one behind the other, if the second begins a    *)
(* line.                                                                   *)
LEMMA StartsOfTwo ==
  ASSUME NEW x \in Seq(Token), NEW y \in Seq(Token), Fresh(x)
  PROVE  Starts(x \o y) = Starts(x) \o Starts(y)
<1> DEFINE z == x \o y
           sz == Starts(z)
           sx == Starts(x)
           sy == Starts(y)
<1>1. /\ Len(x) \in Nat /\ Len(y) \in Nat /\ z \in Seq(Token) /\ Len(z) = Len(x) + Len(y)
      /\ \A i \in 1..Len(x) + Len(y) : z[i] = IF i <= Len(x) THEN x[i] ELSE y[i - Len(x)]
  BY LenProperties, ConcatProperties
<1> HIDE DEF z
<1>2. /\ sz \in Seq(LineToken) /\ Len(sz) = Len(x) + Len(y)
      /\ \A i \in 1..Len(x) + Len(y) : sz[i] = IF i = 1 \/ z[i - 1] = NL THEN z[i] ELSE JUNK
  BY <1>1, StartsType
<1>3. /\ sx \in Seq(LineToken) /\ Len(sx) = Len(x)
      /\ \A i \in 1..Len(x) : sx[i] = IF i = 1 \/ x[i - 1] = NL THEN x[i] ELSE JUNK
  BY StartsType
<1>4. /\ sy \in Seq(LineToken) /\ Len(sy) = Len(y)
      /\ \A i \in 1..Len(y) : sy[i] = IF i = 1 \/ y[i - 1] = NL THEN y[i] ELSE JUNK
  BY StartsType
<1> HIDE DEF sz, sx, sy
<1>5. /\ sx \o sy \in Seq(LineToken) /\ Len(sx \o sy) = Len(x) + Len(y)
      /\ \A i \in 1..Len(x) + Len(y) : (sx \o sy)[i] = IF i <= Len(x) THEN sx[i] ELSE sy[i - Len(x)]
  <2>1. sx \in Seq(LineToken) /\ sy \in Seq(LineToken)  BY <1>3, <1>4
  <2>2. /\ sx \o sy \in Seq(LineToken) /\ Len(sx \o sy) = Len(sx) + Len(sy)
        /\ \A i \in 1..Len(sx) + Len(sy) :
             (sx \o sy)[i] = IF i <= Len(sx) THEN sx[i] ELSE sy[i - Len(sx)]
    BY <2>1, ConcatProperties
  <2>3. Len(sx) = Len(x) /\ Len(sy) = Len(y)  BY <1>3, <1>4
  <2> QED  BY <2>2, <2>3
<1>6. Len(x) = 0 \/ x[Len(x)] = NL
  <2>1. CASE x = <<>>  BY <2>1, EmptySeq
  <2>2. CASE x # <<>>  BY <2>2, LastOf DEF Fresh
  <2> QED  BY <2>1, <2>2
<1>7. ASSUME NEW i \in 1..Len(x) + Len(y) PROVE sz[i] = (sx \o sy)[i]
  <2>1. CASE i <= Len(x)
    <3>1. i \in 1..Len(x) /\ (i # 1 => i - 1 \in 1..Len(x) + Len(y) /\ i - 1 <= Len(x))
      BY <1>1, <2>1
    <3>2. z[i] = x[i] /\ (i # 1 => z[i - 1] = x[i - 1])  BY <1>1, <2>1, <3>1
    <3>3. sz[i] = sx[i]  BY <1>2, <1>3, <3>1, <3>2
    <3> QED  BY <1>5, <2>1, <3>3
  <2>2. CASE ~(i <= Len(x))
    <3> DEFINE j == i - Len(x)
    <3>1. j \in 1..Len(y) /\ (sx \o sy)[i] = sy[j] /\ z[i] = y[j]  BY <1>1, <1>5, <2>2
    <3>2. CASE j = 1
      <4>1. sy[j] = y[j]  BY <1>4, <3>1, <3>2
      <4>2. i = 1 \/ z[i - 1] = NL
        <5>1. CASE Len(x) = 0  BY <3>2, <5>1
        <5>2. CASE Len(x) # 0
          <6>1. i - 1 = Len(x) /\ i - 1 \in 1..Len(x) + Len(y) /\ i - 1 <= Len(x)
            BY <1>1, <3>2, <5>2
          <6> QED  BY <1>1, <1>6, <5>2, <6>1
        <5> QED  BY <5>1, <5>2
      <4>3. sz[i] = z[i]  BY <1>2, <4>2
      <4> QED  BY <3>1, <4>1, <4>3
    <3>3. CASE j # 1
      <4>1. /\ i # 1 /\ i - 1 \in 1..Len(x) + Len(y) /\ ~(i - 1 <= Len(x))
            /\ (i - 1) - Len(x) = j - 1
        <5>1. Len(x) \in Nat /\ Len(y) \in Nat /\ i \in Nat /\ i <= Len(x) + Len(y)
              /\ i - Len(x) >= 1 /\ i - Len(x) # 1
          BY <1>1, <3>1, <3>3
        <5> QED  BY <5>1
      <4>2. z[i - 1] = y[j - 1]  BY <1>1, <4>1
      <4> HIDE DEF j
      <4>3. sz[i] = IF y[j - 1] = NL THEN y[j] ELSE JUNK  BY <1>2, <3>1, <4>1, <4>2
      <4>4. sy[j] = IF y[j - 1] = NL THEN y[j] ELSE JUNK  BY <1>4, <3>1, <3>3
      <4> QED  BY <3>1, <4>3, <4>4
    <3> QED  BY <3>2, <3>3
  <2> QED  BY <2>1, <2>2
<1>8. sz = sx \o sy  BY <1>2, <1>5, <1>7, SeqEqual
<1> QED  BY <1>8 DEF z, sz, sx, sy

(* What joins two texts of which the second ends a line.                   *)
LEMMA FreshOfTwo ==
  ASSUME NEW x \in Seq(Token), NEW y \in Seq(Token), y # <<>>, Last(y) = NL
  PROVE  Fresh(x \o y)
<1>1. /\ Len(x) \in Nat /\ Len(y) \in Nat \ {0} /\ x \o y \in Seq(Token)
      /\ Len(x \o y) = Len(x) + Len(y) /\ y[Len(y)] = NL
      /\ \A i \in 1..Len(x) + Len(y) : (x \o y)[i] = IF i <= Len(x) THEN x[i] ELSE y[i - Len(x)]
  BY LenProperties, ConcatProperties, LastOf
<1>2. /\ Len(x) + Len(y) \in 1..Len(x) + Len(y) /\ ~(Len(x) + Len(y) <= Len(x))
      /\ (Len(x) + Len(y)) - Len(x) = Len(y)
  BY <1>1
<1>3. (x \o y)[Len(x \o y)] = NL  BY <1>1, <1>2
<1> QED  BY <1>3 DEF Fresh, Last

(* What was sent is what the server has left behind, which is whole lines, *)
(* and what it has in its buffer and in the socket.  What it has executed  *)
(* began lines of the former.                                              *)
Lines ==
  \E left \in Seq(Token) :
    /\ sent = left \o (buf \o wire) /\ Fresh(left)
    /\ Found(done, Starts(left)) = Len(done)

(* Every step leaves whole lines behind, and executes what began one.      *)
LEMMA LinesNext == Inv /\ Lines /\ [Next]_vars => Lines'
<1> SUFFICES ASSUME Inv, Lines, [Next]_vars PROVE Lines'
  OBVIOUS
<1>1. PICK left \in Seq(Token) :
        /\ sent = left \o (buf \o wire) /\ Fresh(left)
        /\ Found(done, Starts(left)) = Len(done)
  BY DEF Lines
<1>2. buf \in Seq(Token) /\ wire \in Seq(Token) /\ done \in Seq(Heads)
  BY DEF Inv, Streams
<1>3. ASSUME NEW q \in Request, Ask(q) PROVE Lines'
  <2>1. wire' = wire \o Frame(q) /\ sent' = sent \o Frame(q) /\ buf' = buf /\ done' = done
    BY <1>3 DEF Ask
  <2>2. Frame(q) \in Seq(Token) /\ buf \o wire \in Seq(Token)  BY <1>2, FrameType, ConcatProperties
  <2>3. buf \o (wire \o Frame(q)) = (buf \o wire) \o Frame(q)
    BY <1>2, <2>2, ConcatAssociative, SMTT(30)
  <2>4. left \o ((buf \o wire) \o Frame(q)) = (left \o (buf \o wire)) \o Frame(q)
    BY <2>2, ConcatAssociative, SMTT(30)
  <2>5. sent' = left \o (buf' \o wire')  BY <1>1, <2>1, <2>3, <2>4
  <2> QED  BY <1>1, <2>1, <2>5 DEF Lines
<1>4. CASE Read
  <2>1. PICK k \in 1..Len(wire) :
          LET all == buf \o SubSeq(wire, 1, k)
              rest == SubSeq(wire, k + 1, Len(wire))
          IN  /\ all \in Seq(Token) /\ all # <<>> /\ rest \in Seq(Token)
              /\ all \o rest = buf \o wire /\ wire' = rest
              /\ IF Last(all) = NL
                   THEN buf' = <<>> /\ Execute(Split(all)) /\ Split(all) \in Seq(Seq(Token))
                        /\ Split(all) # <<>> /\ Split(all)[1][1] = all[1]
                   ELSE buf' = all /\ pc' = "read" /\ UNCHANGED <<done, store, reply>>
    BY <1>4, ReadMeans DEF Inv
  <2> DEFINE all == buf \o SubSeq(wire, 1, k)
             rest == SubSeq(wire, k + 1, Len(wire))
  <2>2. /\ all \in Seq(Token) /\ all # <<>> /\ rest \in Seq(Token)
        /\ all \o rest = buf \o wire /\ wire' = rest
        /\ Last(all) = NL => /\ buf' = <<>> /\ Execute(Split(all))
                             /\ Split(all) \in Seq(Seq(Token)) /\ Split(all) # <<>>
                             /\ Split(all)[1][1] = all[1]
        /\ Last(all) # NL => buf' = all /\ done' = done
    BY <2>1
  <2>3. sent' = sent  BY <1>4 DEF Read, client
  <2> HIDE DEF all, rest
  <2>4. CASE Last(all) # NL
    <3>1. sent' = left \o (buf' \o wire') /\ done' = done  BY <1>1, <2>2, <2>3, <2>4
    <3> QED  BY <1>1, <3>1 DEF Lines
  <2>5. CASE Last(all) = NL
    <3> DEFINE slab == Split(all)
               far == left \o all
    <3>1. /\ buf' = <<>> /\ Execute(slab) /\ slab \in Seq(Seq(Token)) /\ slab # <<>>
          /\ slab[1][1] = all[1]
      BY <2>2, <2>5
    <3> HIDE DEF slab
    <3>2. \/ done' = done
          \/ done' = Append(done, all[1]) /\ all[1] \in Heads
      BY <3>1, ExecuteType DEF Inv, IsHead
    <3>3. far \in Seq(Token) /\ Fresh(far)  BY <2>2, <2>5, FreshOfTwo, ConcatProperties
    <3>4. sent' = far \o (buf' \o wire')
      <4>1. buf' \o wire' = rest  BY <2>2, <3>1, ConcatEmptySeq
      <4>2. left \o (all \o rest) = (left \o all) \o rest
        <5>1. all \in Seq(Token) /\ rest \in Seq(Token)  BY <2>2
        <5> QED  BY <5>1, ConcatAssociative, SMTT(30)
      <4> QED  BY <1>1, <2>2, <2>3, <4>1, <4>2
    <3>5. Found(done', Starts(far)) = Len(done')
      <4> DEFINE s == Starts(left)
                 t == Starts(all)
      <4>1. s \in Seq(LineToken) /\ t \in Seq(LineToken)  BY <2>2, StartsType
      <4>2. t[1] = all[1] /\ t # <<>>
        <5>1. 1 \in 1..Len(all)  BY <2>2, LastOf
        <5>2. t[1] = all[1] /\ Len(t) = Len(all) /\ Len(all) # 0
          BY <2>2, <5>1, StartsType
        <5> QED  BY <5>2, EmptySeq
      <4>3. Starts(far) = s \o t  BY <1>1, <2>2, StartsOfTwo
      <4>4. done \in Seq(LineToken)
        <5>1. Heads \subseteq LineToken  BY DEF LineToken, Token
        <5> QED  BY <1>2, <5>1, SeqMonotonic
      <4>5. Found(done, s) = Len(done)  BY <1>1
      <4> HIDE DEF s, t, far
      <4>6. /\ Found(done, s \o t) = Len(done)
            /\ Found(Append(done, t[1]), s \o t) = Len(Append(done, t[1]))
        BY <4>1, <4>2, <4>4, <4>5, FoundOn
      <4> QED  BY <3>2, <4>2, <4>3, <4>6
    <3> HIDE DEF far
    <3> QED  BY <3>3, <3>4, <3>5 DEF Lines
  <2> QED  BY <2>4, <2>5
<1>5. CASE Write \/ WriteBlocks \/ UNCHANGED vars
  <2>1. wire' = wire /\ buf' = buf /\ done' = done /\ sent' = sent
    BY <1>5 DEF Write, WriteBlocks, vars, socket, client
  <2> QED  BY <1>1, <2>1 DEF Lines
<1> QED  BY <1>3, <1>4, <1>5 DEF Next

(* Whatever is executed began a line of what was sent, each line at most   *)
(* once, and in the order they were sent: for any requests of either       *)
(* client, whatever their values hold, any way the socket cuts them and    *)
(* any way read_cmd and socket_read_cb take several for one or cut one in  *)
(* two.                                                                    *)
THEOREM OnlyWhatBeganALine == Spec => []NothingInvented
<1>1. Init => Lines
  <2> SUFFICES ASSUME Init PROVE Lines
    OBVIOUS
  <2>1. sent = <<>> /\ buf = <<>> /\ wire = <<>> /\ done = <<>>  BY DEF Init
  <2>2. <<>> \in Seq(Token) /\ <<>> \o (<<>> \o <<>>) = <<>>  BY EmptySeq, ConcatEmptySeq
  <2>3. Starts(<<>>) = <<>>  BY StartsOfNone
  <2>4. Found(<<>>, <<>>) = 0 /\ Len(<<>>) = 0  BY FoundInNone, EmptySeq
  <2> QED  BY <2>1, <2>2, <2>3, <2>4 DEF Lines, Fresh
<1>2. Inv /\ Lines => NothingInvented
  <2> SUFFICES ASSUME Inv, Lines PROVE NothingInvented
    OBVIOUS
  <2>1. PICK left \in Seq(Token) :
          /\ sent = left \o (buf \o wire) /\ Fresh(left)
          /\ Found(done, Starts(left)) = Len(done)
    BY DEF Lines
  <2> DEFINE on == buf \o wire
             s == Starts(left)
             t == Starts(on)
  <2>2. on \in Seq(Token) /\ done \in Seq(LineToken)
    <3>1. buf \in Seq(Token) /\ wire \in Seq(Token) /\ done \in Seq(Heads)
      BY DEF Inv, Streams
    <3>2. Heads \subseteq LineToken  BY DEF LineToken, Token
    <3> QED  BY <3>1, <3>2, ConcatProperties, SeqMonotonic
  <2> HIDE DEF on
  <2>3. s \in Seq(LineToken) /\ t \in Seq(LineToken) /\ Starts(left \o on) = s \o t
    BY <2>1, <2>2, StartsType, StartsOfTwo
  <2>4. sent = left \o on /\ Found(done, s) = Len(done)  BY <2>1 DEF on
  <2> HIDE DEF s, t
  <2>5. Found(done, s \o t) = Len(done)
    <3>1. CASE t = <<>>
      <4>1. s \o t = s  BY <2>3, <3>1, ConcatEmptySeq
      <4> QED  BY <2>4, <4>1
    <3>2. CASE t # <<>>  BY <2>2, <2>3, <2>4, <3>2, FoundOn
    <3> QED  BY <3>1, <3>2
  <2> QED  BY <2>3, <2>4, <2>5 DEF NothingInvented, IsSubsequence
<1> QED  BY InitInv, NextInv, LinesNext, <1>1, <1>2, PTL DEF Spec

-----------------------------------------------------------------------------
(* Innocent requests.  No line of theirs but the first begins with a head. *)
Meek == \A q \in Range(asked) : Innocent(q)

(* Who is in a sequence of requests is one, and a request more makes the   *)
(* set larger.                                                             *)
LEMMA RangeType ==
  ASSUME NEW requests \in Seq(Request)
  PROVE  Range(requests) \subseteq Request
<1>1. ASSUME NEW q \in Range(requests) PROVE q \in Request
  <2>1. PICK k \in DOMAIN requests : q = requests[k]  BY DEF Range
  <2> QED  BY <2>1, ElementOfSeq, LenProperties
<1> QED  BY <1>1

(* And the new one is in it.                                               *)
LEMMA RangeMore ==
  ASSUME NEW requests \in Seq(Request), NEW q \in Request
  PROVE  Range(requests) \subseteq Range(Append(requests, q)) /\ q \in Range(Append(requests, q))
<1> DEFINE more == Append(requests, q)
<1>1. /\ Len(more) = Len(requests) + 1 /\ more[Len(requests) + 1] = q
      /\ \A i \in 1..Len(requests) : more[i] = requests[i]
      /\ more \in Seq(Request) /\ Len(requests) \in Nat
  BY AppendProperties, LenProperties
<1>2. DOMAIN more = 1..Len(requests) + 1 /\ DOMAIN requests = 1..Len(requests)
  BY <1>1, LenProperties
<1>3. Len(requests) + 1 \in DOMAIN more /\ DOMAIN requests \subseteq DOMAIN more
  BY <1>1, <1>2
<1> HIDE DEF more
<1>4. Range(requests) \subseteq Range(more) /\ q \in Range(more)  BY <1>1, <1>2, <1>3 DEF Range
<1> QED  BY <1>4 DEF more

(* What was asked is never forgotten.                                      *)
LEMMA MeekBefore ==
  ASSUME Inv, [Next]_vars, Meek'
  PROVE  Meek
<1>1. asked \in Seq(Request)  BY DEF Inv, Streams
<1>2. Range(asked) \subseteq Range(asked')
  <2>1. ASSUME NEW q \in Request, Ask(q) PROVE Range(asked) \subseteq Range(asked')
    <3>1. asked' = Append(asked, q)  BY <2>1 DEF Ask
    <3> QED  BY <1>1, <3>1, RangeMore
  <2>2. CASE Read \/ Write \/ WriteBlocks \/ UNCHANGED vars
    BY <2>2 DEF Read, Write, WriteBlocks, vars, client
  <2> QED  BY <2>1, <2>2 DEF Next
<1> QED  BY <1>2 DEF Meek, Innocent

(* The heads executed and those that begin lines on their way, in this     *)
(* order, are heads of requests in the order asked: a request sent adds    *)
(* one head at the end, and the server only takes away.                    *)
Traces(trail, requests, at) ==
  /\ \A i \in 1..Len(trail) : trail[i] \in Heads =>
       at[i] \in 1..Len(requests) /\ trail[i] = HeadOf(requests[at[i]])
  /\ \A i, j \in 1..Len(trail) :
       i < j /\ trail[i] \in Heads /\ trail[j] \in Heads => at[i] < at[j]

Traced(trail, requests) == \E at \in [1..Len(trail) -> Nat] : Traces(trail, requests, at)

Order == Traced(done \o Starts(buf \o wire), asked)

(* A frame begins with the head.                                           *)
LEMMA FrameBegins ==
  ASSUME NEW q \in Request
  PROVE  /\ Len(Frame(q)) \in Nat \ {0} /\ Frame(q)[1] = HeadOf(q)
         /\ Frame(q) # <<>>
<1> DEFINE h == <<HeadOf(q)>>
           f == FlattenSeq(q.args)
           rest == f \o Behind(q)
<1>1. h \in Seq(Token) /\ f \in Seq(Token) /\ Behind(q) \in Seq(Token)
  <2>1. {NL, NUL} \subseteq Token /\ Letter \subseteq Token  BY DEF Token
  <2> QED  BY <2>1, FramedType, FrameType, SeqMonotonic
<1>2. Frame(q) = (h \o f) \o Behind(q)  BY FrameType DEF Framed
<1>3. Len(h) = 1 /\ h[1] = HeadOf(q)  OBVIOUS
<1> HIDE DEF h, f
<1>4. h \o (f \o Behind(q)) = (h \o f) \o Behind(q)
  BY <1>1, ConcatAssociative, SMTT(30)
<1>5. rest \in Seq(Token) /\ Len(rest) \in Nat  BY <1>1, ConcatProperties, LenProperties
<1>6. Frame(q) = h \o rest  BY <1>2, <1>4
<1> HIDE DEF rest
<1>7. /\ Len(h \o rest) = Len(h) + Len(rest)
      /\ \A i \in 1..Len(h) + Len(rest) :
           (h \o rest)[i] = IF i <= Len(h) THEN h[i] ELSE rest[i - Len(h)]
  BY <1>1, <1>5, ConcatProperties
<1>8. Len(Frame(q)) = 1 + Len(rest) /\ Frame(q)[1] = HeadOf(q)  BY <1>3, <1>5, <1>6, <1>7
<1>9. Len(Frame(q)) # 0  BY <1>5, <1>8
<1> QED  BY <1>5, <1>8, <1>9, EmptySeq

(* And no further line of it does, if it is innocent.                      *)
LEMMA OneHead ==
  ASSUME NEW q \in Request, Innocent(q)
  PROVE  LET f == Starts(Frame(q)) IN
           /\ f \in Seq(LineToken) /\ Len(f) = Len(Frame(q)) /\ Len(f) \in Nat \ {0}
           /\ f[1] = HeadOf(q)
           /\ \A i \in 2..Len(f) : f[i] \notin Heads
<1> DEFINE frame == Frame(q)
           f == Starts(frame)
<1>1. frame \in Seq(Token) /\ Len(frame) \in Nat \ {0} /\ frame[1] = HeadOf(q)
  BY FrameType, FrameBegins
<1>2. \A i \in 2..Len(frame) : frame[i - 1] = NL => frame[i] \notin Heads
  BY DEF Innocent, IsHead
<1> HIDE DEF frame
<1>3. /\ f \in Seq(LineToken) /\ Len(f) = Len(frame)
      /\ \A i \in 1..Len(frame) : f[i] = IF i = 1 \/ frame[i - 1] = NL THEN frame[i] ELSE JUNK
  BY <1>1, StartsType
<1> HIDE DEF f
<1>4. f[1] = HeadOf(q)
  <2>1. 1 \in 1..Len(frame)  BY <1>1
  <2> QED  BY <1>1, <1>3, <2>1
<1>5. ASSUME NEW i \in 2..Len(f) PROVE f[i] \notin Heads
  <2>1. i \in 1..Len(frame) /\ i \in 2..Len(frame) /\ i # 1  BY <1>1, <1>3
  <2>2. f[i] = IF frame[i - 1] = NL THEN frame[i] ELSE JUNK  BY <1>3, <2>1
  <2> QED  BY <1>2, <2>1, <2>2, TokenAssumption
<1> QED  BY <1>1, <1>3, <1>4, <1>5 DEF f, frame

(* A request more, and its frame behind.                                   *)
LEMMA TracedMore ==
  ASSUME NEW trail \in Seq(LineToken), NEW requests \in Seq(Request), NEW q \in Request,
         Innocent(q), Traced(trail, requests)
  PROVE  Traced(trail \o Starts(Frame(q)), Append(requests, q))
<1> DEFINE f == Starts(Frame(q))
           m == Len(requests)
           all == trail \o f
           more == Append(requests, q)
<1>1. PICK at \in [1..Len(trail) -> Nat] : Traces(trail, requests, at)  BY DEF Traced
<1>2. /\ Len(trail) \in Nat /\ m \in Nat /\ f \in Seq(LineToken) /\ Len(f) \in Nat \ {0}
      /\ f[1] = HeadOf(q) /\ \A i \in 2..Len(f) : f[i] \notin Heads
  BY LenProperties, OneHead
<1>3. Len(more) = m + 1 /\ more[m + 1] = q /\ \A i \in 1..m : more[i] = requests[i]
  BY AppendProperties
<1> HIDE DEF f, m, more
<1>4. /\ Len(all) = Len(trail) + Len(f)
      /\ \A i \in 1..Len(trail) + Len(f) : all[i] = IF i <= Len(trail) THEN trail[i] ELSE f[i - Len(trail)]
  BY <1>2, ConcatProperties
<1> HIDE DEF all
<1> DEFINE to == [i \in 1..Len(all) |-> IF i <= Len(trail) THEN at[i] ELSE m + 1]
<1>5. to \in [1..Len(all) -> Nat]  BY <1>2, <1>4
<1>6. /\ \A i \in 1..Len(trail) : i \in 1..Len(all) /\ all[i] = trail[i] /\ to[i] = at[i]
      /\ \A i \in 1..Len(all) : i \notin 1..Len(trail) =>
           to[i] = m + 1 /\ (all[i] \in Heads => i = Len(trail) + 1 /\ all[i] = HeadOf(q))
  <2>1. \A i \in 1..Len(trail) : i \in 1..Len(all) /\ all[i] = trail[i] /\ to[i] = at[i]
    <3>1. ASSUME NEW i \in 1..Len(trail)
          PROVE i \in 1..Len(all) /\ all[i] = trail[i] /\ to[i] = at[i]
      <4>1. i \in 1..Len(trail) + Len(f) /\ i <= Len(trail)  BY <1>2
      <4>2. i \in 1..Len(all) /\ all[i] = trail[i]  BY <1>4, <4>1
      <4>3. to[i] = IF i <= Len(trail) THEN at[i] ELSE m + 1  BY <4>2
      <4> HIDE DEF to
      <4> QED  BY <4>1, <4>2, <4>3
    <3> QED  BY <3>1
  <2>2. ASSUME NEW i \in 1..Len(all), i \notin 1..Len(trail)
        PROVE  to[i] = m + 1 /\ (all[i] \in Heads => i = Len(trail) + 1 /\ all[i] = HeadOf(q))
    <3>1. ~(i <= Len(trail)) /\ i \in 1..Len(trail) + Len(f)  BY <1>2, <1>4, <2>2
    <3>2. to[i] = m + 1  BY <3>1
    <3>3. i - Len(trail) \in 1..Len(f) /\ (i - Len(trail) = 1 => i = Len(trail) + 1)
      BY <1>2, <3>1
    <3>4. all[i] = f[i - Len(trail)]  BY <1>4, <3>1
    <3>5. i - Len(trail) = 1 \/ i - Len(trail) \in 2..Len(f)  BY <1>2, <3>3
    <3> HIDE DEF to
    <3> QED  BY <1>2, <3>2, <3>3, <3>4, <3>5
  <2> QED  BY <2>1, <2>2
<1> HIDE DEF to
<1>7. /\ \A i \in 1..Len(trail) : trail[i] \in Heads =>
           at[i] \in 1..m /\ trail[i] = HeadOf(requests[at[i]])
      /\ \A i, j \in 1..Len(trail) :
           i < j /\ trail[i] \in Heads /\ trail[j] \in Heads => at[i] < at[j]
  BY <1>1 DEF Traces, m
<1>8. ASSUME NEW i \in 1..Len(all), all[i] \in Heads
      PROVE  to[i] \in 1..m + 1 /\ all[i] = HeadOf(more[to[i]])
  <2>1. CASE i \in 1..Len(trail)
    <3>1. all[i] = trail[i] /\ to[i] = at[i]  BY <1>6, <2>1
    <3>2. at[i] \in 1..m /\ trail[i] = HeadOf(requests[at[i]])  BY <1>7, <1>8, <2>1, <3>1
    <3>3. more[at[i]] = requests[at[i]] /\ at[i] \in 1..m + 1  BY <1>2, <1>3, <3>2
    <3> QED  BY <3>1, <3>2, <3>3
  <2>2. CASE i \notin 1..Len(trail)
    <3>1. to[i] = m + 1 /\ all[i] = HeadOf(q)  BY <1>6, <1>8, <2>2
    <3>2. m + 1 \in 1..m + 1  BY <1>2
    <3> QED  BY <1>3, <3>1, <3>2
  <2> QED  BY <2>1, <2>2
<1>9. ASSUME NEW i \in 1..Len(all), NEW j \in 1..Len(all), i < j, all[i] \in Heads, all[j] \in Heads
      PROVE  to[i] < to[j]
  <2>1. CASE j \in 1..Len(trail)
    <3>1. i \in 1..Len(trail)  BY <1>2, <1>9, <2>1
    <3> QED  BY <1>6, <1>7, <1>9, <2>1, <3>1
  <2>2. CASE j \notin 1..Len(trail)
    <3>1. to[j] = m + 1 /\ j = Len(trail) + 1  BY <1>6, <1>9, <2>2
    <3>2. i \in 1..Len(trail)  BY <1>2, <1>9, <3>1
    <3>3. at[i] \in 1..m /\ to[i] = at[i]  BY <1>6, <1>7, <1>9, <3>2
    <3> QED  BY <1>2, <3>1, <3>3
  <2> QED  BY <2>1, <2>2
<1>10. Traces(all, more, to)  BY <1>3, <1>8, <1>9 DEF Traces
<1> QED  BY <1>5, <1>10 DEF Traced, all, f, more

(* What the server takes away takes nothing from what is left.             *)
LEMMA TracedLess ==
  ASSUME NEW f \in Seq(LineToken), NEW x \in Seq(LineToken), NEW z \in Seq(LineToken), NEW requests,
         Traced((f \o x) \o z, requests)
  PROVE  Traced(f \o z, requests)
<1> DEFINE all == (f \o x) \o z
           left == f \o z
<1>1. PICK at \in [1..Len(all) -> Nat] : Traces(all, requests, at)  BY DEF Traced
<1>2. Len(f) \in Nat /\ Len(x) \in Nat /\ Len(z) \in Nat  BY LenProperties
<1>3. /\ f \o x \in Seq(LineToken) /\ Len(f \o x) = Len(f) + Len(x)
      /\ \A i \in 1..Len(f) + Len(x) : (f \o x)[i] = IF i <= Len(f) THEN f[i] ELSE x[i - Len(f)]
  BY ConcatProperties
<1>4. /\ Len(all) = Len(f \o x) + Len(z)
      /\ \A i \in 1..Len(f \o x) + Len(z) :
           all[i] = IF i <= Len(f \o x) THEN (f \o x)[i] ELSE z[i - Len(f \o x)]
  BY <1>3, ConcatProperties
<1>5. /\ Len(left) = Len(f) + Len(z)
      /\ \A i \in 1..Len(f) + Len(z) : left[i] = IF i <= Len(f) THEN f[i] ELSE z[i - Len(f)]
  BY ConcatProperties
<1> HIDE DEF all, left
<1> DEFINE was(i) == IF i <= Len(f) THEN i ELSE i + Len(x)
           to == [i \in 1..Len(left) |-> at[was(i)]]
<1>6. ASSUME NEW i \in 1..Len(left)
      PROVE was(i) \in 1..Len(all) /\ left[i] = all[was(i)]
  <2>1. i \in 1..Len(f) + Len(z)  BY <1>5
  <2>2. CASE i <= Len(f)
    <3>1. /\ i \in 1..Len(all) /\ i \in 1..Len(f) + Len(x) /\ i <= Len(f \o x)
          /\ i \in 1..Len(f \o x) + Len(z)
      BY <1>2, <1>3, <1>4, <2>1, <2>2
    <3>2. left[i] = f[i] /\ all[i] = f[i]  BY <1>3, <1>4, <1>5, <2>1, <2>2, <3>1
    <3> QED  BY <2>2, <3>1, <3>2
  <2>3. CASE ~(i <= Len(f))
    <3> DEFINE j == i + Len(x)
    <3>1. /\ j \in 1..Len(all) /\ j \in 1..Len(f \o x) + Len(z) /\ ~(j <= Len(f \o x))
          /\ j - Len(f \o x) = i - Len(f)
      BY <1>2, <1>3, <1>4, <2>1, <2>3
    <3>2. was(i) = j  BY <2>3
    <3> HIDE DEF j, was
    <3>3. left[i] = z[i - Len(f)] /\ all[j] = z[i - Len(f)]  BY <1>4, <1>5, <2>1, <2>3, <3>1
    <3> QED  BY <3>1, <3>2, <3>3
  <2> QED  BY <2>2, <2>3
<1>7. ASSUME NEW i \in 1..Len(left), NEW j \in 1..Len(left), i < j PROVE was(i) < was(j)
  BY <1>2, <1>5, <1>7
<1> HIDE DEF was
<1>8. \A i \in 1..Len(left) : to[i] = at[was(i)]  OBVIOUS
<1>9. to \in [1..Len(left) -> Nat]  BY <1>6
<1> HIDE DEF to
<1>10. Traces(left, requests, to)
  <2>1. ASSUME NEW i \in 1..Len(left), left[i] \in Heads
        PROVE  to[i] \in 1..Len(requests) /\ left[i] = HeadOf(requests[to[i]])
    BY <1>1, <1>6, <1>8, <2>1 DEF Traces
  <2>2. ASSUME NEW i \in 1..Len(left), NEW j \in 1..Len(left), i < j,
               left[i] \in Heads, left[j] \in Heads
        PROVE  to[i] < to[j]
    <3>1. was(i) < was(j)  BY <1>7, <2>2
    <3>2. /\ was(i) \in 1..Len(all) /\ was(j) \in 1..Len(all)
          /\ all[was(i)] \in Heads /\ all[was(j)] \in Heads
      BY <1>6, <2>2
    <3>3. at[was(i)] < at[was(j)]  BY <1>1, <3>1, <3>2 DEF Traces
    <3> QED  BY <1>8, <3>3
  <2> QED  BY <2>1, <2>2 DEF Traces
<1> QED  BY <1>9, <1>10 DEF Traced, left

(* At first nothing was asked and nothing is executed.                     *)
LEMMA OrderInit == Init => Order
<1> SUFFICES ASSUME Init PROVE Order
  OBVIOUS
<1> DEFINE trail == done \o Starts(buf \o wire)
           at == [i \in 1..0 |-> 0]
<1>1. Starts(<<>>) = <<>>  BY StartsOfNone
<1>2. buf \o wire = <<>> /\ done = <<>>  BY DEF Init
<1>3. trail = <<>>  BY <1>1, <1>2
<1>4. Len(trail) = 0  BY <1>3
<1> HIDE DEF trail
<1>5. at \in [1..Len(trail) -> Nat] /\ Traces(trail, asked, at)  BY <1>4 DEF Traces
<1> QED  BY <1>5 DEF Order, Traced, trail

(* Every step keeps what is executed, and to come, in the order asked.     *)
LEMMA OrderNext ==
  ASSUME Inv, Order, Fresh(buf \o wire), [Next]_vars, Meek'
  PROVE  Order'
<1> DEFINE on == buf \o wire
           trail == done \o Starts(on)
<1>1. /\ asked \in Seq(Request) /\ wire \in Seq(Token) /\ buf \in Seq(Token)
      /\ done \in Seq(LineToken)
  <2>1. Heads \subseteq LineToken  BY DEF LineToken, Token
  <2> QED  BY <2>1, SeqMonotonic DEF Inv, Streams
<1>2. on \in Seq(Token) /\ Fresh(on) /\ Starts(on) \in Seq(LineToken)
  <2>1. on \in Seq(Token) /\ Fresh(on)  BY <1>1, ConcatProperties
  <2> HIDE DEF on
  <2> QED  BY <2>1, StartsType
<1>3. trail \in Seq(LineToken) /\ Traced(trail, asked)
  <2>1. Traced(trail, asked)  BY DEF Order
  <2> HIDE DEF on
  <2> QED  BY <1>1, <1>2, <2>1, ConcatProperties
<1>4. ASSUME NEW q \in Request, Ask(q) PROVE Order'
  <2>1. wire' = wire \o Frame(q) /\ asked' = Append(asked, q) /\ buf' = buf /\ done' = done
    BY <1>4 DEF Ask
  <2>2. Frame(q) \in Seq(Token)  BY FrameType
  <2>3. buf \o (wire \o Frame(q)) = on \o Frame(q)
    BY <1>1, <2>2, ConcatAssociative, SMTT(30)
  <2>4. Innocent(q)
    <3>1. q \in Range(asked')  BY <1>1, <2>1, RangeMore
    <3> QED  BY <3>1 DEF Meek, Innocent
  <2>5. (buf \o wire)' = on \o Frame(q)  BY <2>1, <2>3
  <2> HIDE DEF on
  <2> DEFINE s == Starts(on)
             f == Starts(Frame(q))
  <2>6. Starts(on \o Frame(q)) = s \o f /\ f \in Seq(LineToken) /\ s \in Seq(LineToken)
    BY <1>2, <2>2, StartsOfTwo, StartsType
  <2>7. Traced(trail \o f, Append(asked, q))
    <3> HIDE DEF trail
    <3> QED  BY <1>1, <1>3, <2>4, TracedMore
  <2>8. done \o (s \o f) = (done \o s) \o f
    <3>1. done \in Seq(LineToken) /\ s \in Seq(LineToken) /\ f \in Seq(LineToken)
      BY <1>1, <2>6
    <3> HIDE DEF s, f
    <3> QED  BY ONLY <3>1, ConcatAssociative, SMTT(60)
  <2>9. (done \o Starts(buf \o wire))' = trail \o f
    <3>1. (done \o Starts(buf \o wire))' = done' \o Starts((buf \o wire)')  BY DEF Starts
    <3> QED  BY <2>1, <2>5, <2>6, <2>8, <3>1
  <2> HIDE DEF trail, f
  <2> QED  BY <2>1, <2>7, <2>9 DEF Order
<1>5. CASE Read
  <2>1. PICK k \in 1..Len(wire) :
          LET all == buf \o SubSeq(wire, 1, k)
              rest == SubSeq(wire, k + 1, Len(wire))
          IN  /\ all \in Seq(Token) /\ all # <<>> /\ rest \in Seq(Token)
              /\ all \o rest = buf \o wire /\ wire' = rest
              /\ IF Last(all) = NL
                   THEN buf' = <<>> /\ Execute(Split(all)) /\ Split(all) \in Seq(Seq(Token))
                        /\ Split(all) # <<>> /\ Split(all)[1][1] = all[1]
                   ELSE buf' = all /\ pc' = "read" /\ UNCHANGED <<done, store, reply>>
    BY <1>5, ReadMeans DEF Inv
  <2> DEFINE all == buf \o SubSeq(wire, 1, k)
             rest == SubSeq(wire, k + 1, Len(wire))
             slab == Split(all)
  <2>2. /\ all \in Seq(Token) /\ all # <<>> /\ rest \in Seq(Token) /\ wire' = rest
        /\ all \o rest = on
        /\ Last(all) = NL => buf' = <<>> /\ Execute(slab) /\ slab \in Seq(Seq(Token))
                             /\ slab # <<>> /\ slab[1][1] = all[1]
        /\ Last(all) # NL => buf' = all /\ done' = done
    BY <2>1
  <2>3. asked' = asked  BY <1>5 DEF Read, client
  <2> HIDE DEF all, rest
  <2>4. CASE Last(all) # NL
    <3>1. (buf \o wire)' = buf \o wire  BY <2>2, <2>4
    <3>2. done' = done  BY <2>2, <2>4
    <3> QED  BY <2>3, <3>1, <3>2 DEF Order, Starts
  <2>5. CASE Last(all) = NL
    <3>1. /\ buf' = <<>> /\ Execute(slab) /\ slab \in Seq(Seq(Token)) /\ slab # <<>>
          /\ slab[1][1] = all[1]
      BY <2>2, <2>5
    <3> HIDE DEF slab
    <3>2. \/ done' = done
          \/ done' = Append(done, all[1]) /\ all[1] \in Heads
      BY <3>1, ExecuteType DEF Inv, IsHead
    <3>3. (buf \o wire)' = rest  BY <2>2, <3>1, ConcatEmptySeq
    <3> DEFINE s == Starts(all)
               t == Starts(rest)
    <3>4. s \in Seq(LineToken) /\ t \in Seq(LineToken) /\ Starts(all \o rest) = s \o t
      BY <2>2, <2>5, StartsType, StartsOfTwo DEF Fresh
    <3>5. s[1] = all[1] /\ s # <<>>
      <4>1. 1 \in 1..Len(all) /\ Len(all) # 0  BY <2>2, LastOf
      <4>2. s[1] = all[1] /\ Len(s) = Len(all)  BY <2>2, <4>1, StartsType
      <4> QED  BY <4>1, <4>2, EmptySeq
    <3>6. trail = done \o (s \o t)  BY <2>2, <3>4
    <3>7. (done \o Starts(buf \o wire))' = done' \o t
      <4>1. (done \o Starts(buf \o wire))' = done' \o Starts((buf \o wire)')  BY DEF Starts
      <4> QED  BY <3>3, <4>1
    <3> HIDE DEF trail, s, t, on
    <3>8. Traced((done \o s) \o t, asked)
      <4>1. done \o (s \o t) = (done \o s) \o t
        <5>1. done \in Seq(LineToken) /\ s \in Seq(LineToken) /\ t \in Seq(LineToken)
          BY <1>1, <3>4
        <5> QED  BY ONLY <5>1, ConcatAssociative, SMTT(60)
      <4> QED  BY <1>3, <3>6, <4>1
    <3>9. Traced(done' \o t, asked)
      <4>1. CASE done' = done
        <5>1. Traced(done \o t, asked)  BY <1>1, <3>4, <3>8, TracedLess
        <5> QED  BY <4>1, <5>1
      <4>2. CASE done' = Append(done, all[1])
        <5> DEFINE tail == SubSeq(s, 2, Len(s))
                   more == Append(done, s[1])
        <5>1. tail \in Seq(LineToken) /\ done \o s = more \o tail
          BY <1>1, <3>4, <3>5, FirstApart
        <5>2. more \in Seq(LineToken)
          <6>1. 1 \in 1..Len(s)  BY <3>4, <3>5, LastOf
          <6>2. s[1] \in LineToken  BY <3>4, <6>1, ElementOfSeq
          <6> QED  BY <1>1, <6>2, AppendProperties
        <5>3. done' = more  BY <3>5, <4>2
        <5> HIDE DEF tail, more
        <5>4. Traced((more \o tail) \o t, asked)  BY <3>8, <5>1
        <5>5. Traced(more \o t, asked)  BY <3>4, <5>1, <5>2, <5>4, TracedLess
        <5> QED  BY <5>3, <5>5
      <4> QED  BY <3>2, <4>1, <4>2
    <3> QED  BY <2>3, <3>7, <3>9 DEF Order
  <2> QED  BY <2>4, <2>5
<1>6. CASE Write \/ WriteBlocks \/ UNCHANGED vars
  <2>1. wire' = wire /\ buf' = buf /\ done' = done /\ asked' = asked
    BY <1>6 DEF Write, WriteBlocks, vars, socket, client
  <2> QED  BY <2>1 DEF Order, Starts
<1> QED  BY <1>4, <1>5, <1>6 DEF Next

-----------------------------------------------------------------------------
(* Items.  What aoq.php sends holds no zero, so that the strings in the    *)
(* slab are whole chunks.                                                  *)
PhpToken == Letter \cup Heads \cup {NL}

(* No such byte is zero, and all are tokens.                               *)
LEMMA NoZero == NUL \notin PhpToken /\ PhpToken \subseteq Token
<1>1. NUL \notin Letter \cup {NL} /\ NUL \notin Heads  BY TokenAssumption
<1> QED  BY <1>1 DEF PhpToken, Token

(* A string without a zero goes to the end of its chunk.                   *)
LEMMA TextWhole ==
  ASSUME NEW s \in Seq(PhpToken)
  PROVE  Text(s) = s
<1>1. \A i \in DOMAIN s : s[i] # NUL  BY NoZero, ElementOfSeq, LenProperties
<1>2. {i \in DOMAIN s : s[i] = NUL} = {}  BY <1>1
<1> QED  BY <1>2 DEF Text

(* The rest of a part.                                                     *)
LEMMA RestOfPart ==
  ASSUME NEW S, NEW s \in Seq(S), NEW lo \in Nat \ {0}, NEW hi \in lo - 1..Len(s),
         NEW p \in 0..hi - lo + 1
  PROVE  SubSeq(SubSeq(s, lo, hi), p + 1, Len(SubSeq(s, lo, hi))) = SubSeq(s, lo + p, hi)
<1> DEFINE part == SubSeq(s, lo, hi)
           n == hi - lo + 1
           a == SubSeq(part, p + 1, n)
           b == SubSeq(s, lo + p, hi)
<1>1. Len(s) \in Nat /\ n \in Nat  BY LenProperties
<1>2. part \in Seq(S) /\ Len(part) = n /\ \A i \in 1..n : part[i] = s[lo + i - 1]  BY PartOf
<1> HIDE DEF part
<1>3. p + 1 \in Nat \ {0} /\ n \in (p + 1) - 1..Len(part)  BY <1>1, <1>2
<1>4. /\ a \in Seq(S) /\ Len(a) = n - (p + 1) + 1
      /\ \A i \in 1..n - (p + 1) + 1 : a[i] = part[(p + 1) + i - 1]
  BY <1>2, <1>3, PartOf
<1>5. lo + p \in Nat \ {0} /\ hi \in (lo + p) - 1..Len(s)  BY <1>1
<1>6. /\ b \in Seq(S) /\ Len(b) = hi - (lo + p) + 1
      /\ \A i \in 1..hi - (lo + p) + 1 : b[i] = s[(lo + p) + i - 1]
  BY <1>5, PartOf
<1>7. Len(a) = Len(b)
  <2>1. n - (p + 1) + 1 = hi - (lo + p) + 1  OBVIOUS
  <2> HIDE DEF a, b, n
  <2> QED  BY <1>4, <1>6, <2>1
<1>8. ASSUME NEW i \in 1..Len(a) PROVE a[i] = b[i]
  <2>1. i \in 1..n - (p + 1) + 1 /\ i \in 1..hi - (lo + p) + 1  BY <1>1, <1>4
  <2>2. (p + 1) + i - 1 \in 1..n /\ (p + 1) + i - 1 = p + i  BY <1>1, <2>1
  <2>3. a[i] = part[p + i] /\ part[p + i] = s[lo + (p + i) - 1]  BY <1>2, <1>4, <2>1, <2>2
  <2>4. lo + (p + i) - 1 = (lo + p) + i - 1  BY <2>2
  <2> HIDE DEF a, b
  <2> QED  BY <1>6, <2>1, <2>3, <2>4
<1> HIDE DEF a, b
<1>9. a = b  BY <1>4, <1>6, <1>7, <1>8, SeqEqual
<1> QED  BY <1>2, <1>9 DEF a, b, part

(* The slab ends with a newline.                                           *)
SlabEnd(b) == Min({SplitEnd(b) * W, Len(b)})

(* It lies in the last of its chunks, and there is a newline there.        *)
LEMMA SlabEnds ==
  ASSUME NEW S, NEW b \in Seq(S), b # <<>>, Last(b) = NL
  PROVE  /\ SlabEnd(b) \in 1..Len(b) /\ SlabEnd(b) <= SplitEnd(b) * W
         /\ b[SlabEnd(b)] = NL
<1>1. SplitEnd(b) \in Nat \ {0} /\ SplitEnd(b) \in Ends(b)  BY SplitType
<1>2. (SplitEnd(b) - 1) * W < Len(b) /\ Last(Chunk(b, SplitEnd(b))) = NL  BY <1>1 DEF Ends
<1> DEFINE e == SplitEnd(b)
<1>3. e \in Nat \ {0} /\ (e - 1) * W < Len(b) /\ Last(Chunk(b, e)) = NL  BY <1>1, <1>2
<1>4. SlabEnd(b) = Min({e * W, Len(b)})  BY DEF SlabEnd
<1> HIDE DEF e
<1>5. /\ (e - 1) * W \in Nat /\ Min({e * W, Len(b)}) \in (e - 1) * W + 1..Len(b)
      /\ Min({e * W, Len(b)}) = IF e * W <= Len(b) THEN e * W ELSE Len(b)
      /\ Last(Chunk(b, e)) = b[Min({e * W, Len(b)})]
  BY <1>3, ChunkType
<1>6. e * W \in Nat /\ Len(b) \in Nat  BY <1>3, WidthAssumption, LenProperties
<1>7. SlabEnd(b) \in 1..Len(b) /\ SlabEnd(b) <= e * W  BY <1>4, <1>5, <1>6
<1> QED  BY <1>3, <1>4, <1>5, <1>7 DEF e

(* What is gathered from behind the first n + 1 tokens, if none of these   *)
(* is a newline: everything to the end of the slab.                        *)
LEMMA FromBehind ==
  ASSUME NEW b \in Seq(PhpToken), b # <<>>, Last(b) = NL, NEW n \in Nat,
         \A i \in 1..n + 1 : i <= Len(b) => b[i] # NL
  PROVE  /\ n + 2 <= SlabEnd(b)
         /\ From(Split(b), MoveCursor(Split(b), n)) = SubSeq(b, n + 2, SlabEnd(b))
<1> DEFINE slab == Split(b)
           e == SplitEnd(b)
           at == n + 1
           node == (at + W - 1) \div W
           ptr == at - (node - 1) * W
           cursor == MoveCursor(slab, n)
           m == Len(slab) - cursor.node + 1
           behind == SubSeq(slab[cursor.from], cursor.ptr + 1, Len(slab[cursor.from]))
           part(k) == IF k = cursor.node THEN Text(behind) ELSE Text(slab[k])
           parts == [i \in 1..m |-> part(cursor.node + i - 1)]
<1>1. /\ Len(b) \in Nat /\ W \in Nat \ {0} /\ at \in Nat \ {0}
      /\ SlabEnd(b) \in 1..Len(b) /\ SlabEnd(b) <= e * W /\ b[SlabEnd(b)] = NL
  BY LenProperties, WidthAssumption, SlabEnds
<1>2. n + 2 <= SlabEnd(b)
  <2>1. ~(SlabEnd(b) \in 1..n + 1)  BY <1>1
  <2> QED  BY <1>1, <2>1
<1>3. /\ e \in Nat \ {0} /\ Len(slab) = e
      /\ \A k \in 1..e : (k - 1) * W < Len(b) /\ slab[k] = Chunk(b, k)
  BY SplitType
<1>4. cursor.node = node /\ cursor.from = node /\ cursor.ptr = ptr
  <2> DEFINE size == (Len(slab) - 1) * W + Len(Last(slab))
  <2>1. cursor = IF at <= size THEN [node |-> node, from |-> node, ptr |-> ptr]
                 ELSE [node |-> Len(slab), from |-> 1, ptr |-> 1]
    BY Zenon DEF MoveCursor
  <2>2. Last(slab) = Chunk(b, e)
    <3>1. e \in 1..e /\ Last(slab) = slab[e]  BY <1>3 DEF Last
    <3> QED  BY <1>3, <3>1
  <2>3. size = SlabEnd(b)
    <3>1. e \in Nat \ {0} /\ (e - 1) * W < Len(b)
      <4>1. e \in 1..e  BY <1>3
      <4> QED  BY <1>3, <4>1
    <3> HIDE DEF e
    <3>2. /\ (e - 1) * W \in Nat /\ Min({e * W, Len(b)}) \in (e - 1) * W + 1..Len(b)
          /\ Len(Chunk(b, e)) = Min({e * W, Len(b)}) - (e - 1) * W
      BY <3>1, ChunkType, ZenonT(60)
    <3>3. SlabEnd(b) = Min({e * W, Len(b)})  BY DEF SlabEnd, e
    <3> DEFINE lo == (e - 1) * W
    <3>4. size = lo + Len(Chunk(b, e))  BY <1>3, <2>2
    <3> HIDE DEF size, lo
    <3>5. lo \in Nat /\ SlabEnd(b) \in Nat /\ Len(Chunk(b, e)) = SlabEnd(b) - lo
      BY <1>1, <3>2, <3>3 DEF lo
    <3> QED  BY <3>4, <3>5
  <2>4. at <= size  BY <1>1, <1>2, <2>3
  <2> HIDE DEF cursor, at, size, node, ptr
  <2> QED  BY <2>1, <2>4
<1>5. From(slab, cursor) = FlattenSeq(parts)  BY DEF From
<1> HIDE DEF cursor, at, slab, e
<1>6. node \in Nat \ {0} /\ (node - 1) * W < at /\ at <= node * W  BY <1>1
<1> HIDE DEF node
<1>7. node <= e
  <2>1. at <= e * W
    <3>1. e * W \in Nat  BY <1>1, <1>3
    <3> QED  BY <1>1, <1>2, <3>1 DEF at
  <2>2. CASE node > e
    <3>1. node - 1 >= e  BY <1>3, <1>6, <2>2
    <3>2. (node - 1) * W >= e * W  BY <1>1, <1>3, <1>6, <3>1
    <3>3. (node - 1) * W \in Nat /\ e * W \in Nat  BY <1>1, <1>3, <1>6
    <3> QED  BY <1>1, <1>6, <2>1, <3>2, <3>3
  <2> QED  BY <1>3, <1>6, <2>2
<1>8. m = e - node + 1 /\ m \in Nat \ {0}  BY <1>3, <1>4, <1>6, <1>7
<1> DEFINE lo(k) == (k - 1) * W
           hi(k) == Min({k * W, Len(b)})
           c == [i \in 1..m + 1 |-> IF i = 1 THEN at ELSE hi(node + i - 2)]
<1>9. ASSUME NEW k \in 1..e
      PROVE  /\ lo(k) \in Nat /\ hi(k) \in lo(k) + 1..Len(b)
             /\ hi(k) = IF k * W <= Len(b) THEN k * W ELSE Len(b)
             /\ slab[k] = SubSeq(b, lo(k) + 1, hi(k)) /\ slab[k] \in Seq(PhpToken)
  <2>1. k \in Nat \ {0} /\ (k - 1) * W < Len(b) /\ slab[k] = Chunk(b, k)  BY <1>3
  <2>2. /\ (k - 1) * W \in Nat /\ Min({k * W, Len(b)}) \in (k - 1) * W + 1..Len(b)
        /\ Min({k * W, Len(b)}) = IF k * W <= Len(b) THEN k * W ELSE Len(b)
        /\ Chunk(b, k) \in Seq(PhpToken)
    BY <2>1, ChunkType, ZenonT(60)
  <2>3. slab[k] = SubSeq(b, lo(k) + 1, hi(k))  BY <2>1, Zenon DEF Chunk
  <2> QED  BY <2>1, <2>2, <2>3
<1>10. ASSUME NEW i \in 1..m, i # 1 PROVE c[i] = lo(node + i - 1)
  <2> DEFINE k == node + i - 2
  <2>1. k \in 1..e /\ k + 1 \in 1..e /\ k + 1 = node + i - 1  BY <1>3, <1>6, <1>8, <1>10
  <2>2. c[i] = hi(k)  BY <1>8, <1>10
  <2>3. lo(k + 1) = k * W
    <3>1. (k + 1) - 1 = k  BY <2>1
    <3> QED  BY <3>1
  <2>4. hi(k) = IF k * W <= Len(b) THEN k * W ELSE Len(b)  BY <1>9, <2>1
  <2>5. lo(k + 1) < Len(b)  BY <1>3, <2>1
  <2>6. k * W \in Nat  BY <1>1, <2>1
  <2> HIDE DEF k, c, hi, lo
  <2>7. hi(k) = lo(k + 1)  BY <1>1, <2>3, <2>4, <2>5, <2>6
  <2> QED  BY <2>1, <2>2, <2>7
<1>11. ASSUME NEW i \in 1..m
       PROVE  /\ node + i - 1 \in 1..e /\ c[i + 1] = hi(node + i - 1)
  <2>1. node + i - 1 \in 1..e /\ i + 1 \in 1..m + 1 /\ i + 1 # 1 /\ node + (i + 1) - 2 = node + i - 1
    BY <1>3, <1>6, <1>8
  <2>2. c[i + 1] = hi(node + (i + 1) - 2)  BY <2>1
  <2> QED  BY <2>1, <2>2
<1>12. c[1] = at  BY <1>8
<1>13. at \in 0..Len(b) /\ ptr \in Nat \ {0} /\ lo(node) + ptr = at /\ lo(node) \in Nat
       /\ at <= hi(node)
  <2>1. node \in 1..e  BY <1>3, <1>6, <1>7
  <2>2. lo(node) \in Nat /\ hi(node) = IF node * W <= Len(b) THEN node * W ELSE Len(b)
    BY <1>9, <2>1
  <2>3. at \in 0..Len(b)  BY <1>1, <1>2 DEF at
  <2>4. node * W \in Nat  BY <1>1, <1>6
  <2>5. lo(node) < at /\ ptr = at - lo(node)  BY <1>6
  <2> HIDE DEF lo, hi, ptr
  <2> QED  BY <1>1, <1>6, <2>2, <2>3, <2>4, <2>5
<1>14. parts[1] = SubSeq(b, at + 1, hi(node))
  <2> DEFINE k == node
             s == slab[k]
  <2>1. 1 \in 1..m /\ cursor.node + 1 - 1 = k /\ k \in 1..e
    BY <1>3, <1>4, <1>6, <1>7, <1>8
  <2>2. parts[1] = Text(SubSeq(s, ptr + 1, Len(s)))  BY <1>4, <2>1
  <2>3. s = SubSeq(b, lo(k) + 1, hi(k)) /\ s \in Seq(PhpToken) /\ hi(k) \in lo(k) + 1..Len(b)
    BY <1>9, <2>1
  <2> HIDE DEF k, s, lo, hi, ptr, parts
  <2>4. /\ lo(k) + 1 \in Nat \ {0} /\ hi(k) \in (lo(k) + 1) - 1..Len(b)
        /\ ptr \in 0..hi(k) - (lo(k) + 1) + 1 /\ (lo(k) + 1) + ptr = at + 1
    <3> DEFINE L == lo(k)  H == hi(k)
    <3>1. /\ L \in Nat /\ H \in L + 1..Len(b) /\ at \in Nat /\ at <= H
          /\ ptr \in Nat \ {0} /\ L + ptr = at /\ Len(b) \in Nat
      BY <1>1, <1>13, <2>3 DEF k
    <3> HIDE DEF L, H
    <3>2. L + 1 \in Nat \ {0} /\ H \in (L + 1) - 1..Len(b)  BY <3>1
    <3>3. ptr \in 0..H - (L + 1) + 1 /\ (L + 1) + ptr = at + 1  BY <3>1
    <3> QED  BY <3>2, <3>3 DEF L, H
  <2>5. SubSeq(SubSeq(b, lo(k) + 1, hi(k)), ptr + 1, Len(SubSeq(b, lo(k) + 1, hi(k))))
          = SubSeq(b, (lo(k) + 1) + ptr, hi(k))
    BY <2>4, RestOfPart
  <2>6. SubSeq(s, ptr + 1, Len(s)) = SubSeq(b, at + 1, hi(k))  BY <2>3, <2>4, <2>5
  <2>7. SubSeq(b, at + 1, hi(k)) \in Seq(PhpToken)
    <3>1. at + 1 \in Nat \ {0} /\ hi(k) \in (at + 1) - 1..Len(b)  BY <1>1, <1>13, <2>3 DEF k
    <3> QED  BY <3>1, PartOf
  <2>8. Text(SubSeq(b, at + 1, hi(k))) = SubSeq(b, at + 1, hi(k))  BY <2>7, TextWhole
  <2> QED  BY <2>2, <2>6, <2>8 DEF k
<1>15. ASSUME NEW i \in 1..m, i # 1
       PROVE  parts[i] = SubSeq(b, lo(node + i - 1) + 1, hi(node + i - 1))
  <2> DEFINE k == node + i - 1
  <2>1. cursor.node + i - 1 = k /\ k # cursor.node /\ k \in 1..e
    <3>1. k \in 1..e  BY <1>11
    <3>2. cursor.node = node /\ i \in 1..m /\ i # 1  BY <1>4, <1>15
    <3> HIDE DEF cursor, m, c, ptr
    <3>3. cursor.node + i - 1 = k /\ k # cursor.node  BY <1>6, <1>8, <3>2
    <3> QED  BY <3>1, <3>3
  <2>2. parts[i] = Text(slab[k])  BY <2>1
  <2>3. slab[k] = SubSeq(b, lo(k) + 1, hi(k)) /\ slab[k] \in Seq(PhpToken)  BY <1>9, <2>1
  <2> HIDE DEF k, lo, hi, parts
  <2>4. Text(slab[k]) = slab[k]  BY <2>3, TextWhole
  <2> QED  BY <2>2, <2>3, <2>4 DEF k
<1> HIDE DEF parts, c, m, part, ptr
<1>16. ASSUME NEW i \in 1..m
       PROVE  /\ c[i] <= c[i + 1] /\ parts[i] = SubSeq(b, c[i] + 1, c[i + 1])
              /\ c[i + 1] \in 0..Len(b)
  <2>1. CASE i = 1
    <3>1. node + 1 - 1 = node /\ node \in 1..e  BY <1>3, <1>6, <1>7
    <3>2. c[i] = at /\ c[i + 1] = hi(node)  BY <1>11, <1>12, <2>1, <3>1
    <3>3. hi(node) \in lo(node) + 1..Len(b) /\ lo(node) \in Nat  BY <1>9, <3>1
    <3> HIDE DEF lo, hi
    <3> QED  BY <1>1, <1>13, <1>14, <2>1, <3>2, <3>3
  <2>2. CASE i # 1
    <3> DEFINE k == node + i - 1
    <3>1. k \in 1..e /\ c[i + 1] = hi(k) /\ c[i] = lo(k)  BY <1>10, <1>11, <2>2
    <3>2. hi(k) \in lo(k) + 1..Len(b) /\ lo(k) \in Nat  BY <1>9, <3>1
    <3>3. parts[i] = SubSeq(b, lo(k) + 1, hi(k))  BY <1>15, <2>2
    <3> HIDE DEF k, lo, hi
    <3> QED  BY <1>1, <3>1, <3>2, <3>3
  <2> QED  BY <2>1, <2>2
<1>17. Len(parts) = m  BY <1>8 DEF parts
<1>18. c \in [1..Len(parts) + 1 -> 0..Len(b)]
  <2>1. ASSUME NEW i \in 1..m + 1 PROVE c[i] \in 0..Len(b)
    <3>1. CASE i = 1  BY <1>12, <1>13, <3>1
    <3>2. CASE i # 1
      <4>1. i - 1 \in 1..m /\ (i - 1) + 1 = i  BY <1>8, <3>2
      <4> QED  BY <1>16, <4>1
    <3> QED  BY <3>1, <3>2
  <2>2. c = [i \in 1..m + 1 |-> c[i]]  BY DEF c
  <2> QED  BY <1>17, <2>1, <2>2
<1>19. FlattenSeq(parts) = SubSeq(b, c[1] + 1, c[Len(parts) + 1])
  <2>1. \A i \in 1..Len(parts) : c[i] <= c[i + 1] /\ parts[i] = SubSeq(b, c[i] + 1, c[i + 1])
    BY <1>16, <1>17
  <2>2. Len(parts) \in Nat \ {0}  BY <1>8, <1>17
  <2> QED  BY <1>18, <2>1, <2>2, FlattenOfCuts
<1>20. c[Len(parts) + 1] = SlabEnd(b)
  <2>1. m \in 1..m /\ node + m - 1 = e  BY <1>3, <1>6, <1>8
  <2>2. c[m + 1] = hi(e)  BY <1>11, <2>1
  <2> QED  BY <1>17, <2>2 DEF SlabEnd, e
<1>21. From(slab, cursor) = SubSeq(b, n + 2, SlabEnd(b))
  <2>1. c[1] + 1 = n + 2  BY <1>12 DEF at
  <2> QED  BY <1>5, <1>19, <1>20, <2>1
<1> QED  BY <1>2, <1>21 DEF cursor, slab

(* The name is cut where the first chunk ends.                             *)
LEMMA NameInChunk ==
  ASSUME NEW b \in Seq(PhpToken), b # <<>>, Last(b) = NL, NEW n \in Nat, n + 1 <= Len(b)
  PROVE  NameOf(Split(b), n) = Trim(SubSeq(b, 2, Min({n + 1, W})), n)
<1> DEFINE one == Chunk(b, 1)
           cut == IF n + 1 <= W THEN n + 1 ELSE W
<1>1. /\ Len(b) \in Nat \ {0} /\ W \in Nat \ {0} /\ 1 \in Nat \ {0}
      /\ (1 - 1) * W = 0 /\ 1 * W = W /\ (1 - 1) * W < Len(b)
  BY LastOf, WidthAssumption
<1>2. SplitEnd(b) \in Nat \ {0} /\ \A k \in 1..SplitEnd(b) : Split(b)[k] = Chunk(b, k)
  BY SplitType
<1>3. Split(b)[1] = one  BY <1>2
<1>4. /\ Min({1 * W, Len(b)}) = IF 1 * W <= Len(b) THEN 1 * W ELSE Len(b)
      /\ one \in Seq(PhpToken)
      /\ Len(one) = Min({1 * W, Len(b)}) - (1 - 1) * W
      /\ \A i \in 1..Len(one) : one[i] = b[(1 - 1) * W + i]
  BY <1>1, ChunkType, ZenonT(60)
<1>5. Len(one) = IF W <= Len(b) THEN W ELSE Len(b)  BY <1>1, <1>4
<1>6. \A x, y \in Nat : Min({x, y}) = IF x <= y THEN x ELSE y  BY MinOfTwo
<1>7. Min({n + 1, Len(one)}) = cut /\ Min({n + 1, W}) = cut
  <2>1. n + 1 \in Nat /\ Len(one) \in Nat /\ W \in Nat  BY <1>1, <1>5
  <2>2. /\ Min({n + 1, Len(one)}) = IF n + 1 <= Len(one) THEN n + 1 ELSE Len(one)
        /\ Min({n + 1, W}) = IF n + 1 <= W THEN n + 1 ELSE W
    BY <1>6, <2>1
  <2> HIDE DEF one
  <2> QED  BY <1>1, <1>5, <2>1, <2>2
<1>8. 1 <= cut /\ cut <= Len(one) /\ cut <= Len(b) /\ cut \in Nat
  <2> HIDE DEF one
  <2> QED  BY <1>1, <1>5
<1> HIDE DEF one, cut
<1> DEFINE s == SubSeq(one, 2, cut)
           t == SubSeq(b, 2, cut)
<1>9. 2 \in Nat \ {0} /\ cut \in 2 - 1..Len(one) /\ cut \in 2 - 1..Len(b)  BY <1>1, <1>5, <1>8
<1>10. /\ s \in Seq(PhpToken) /\ Len(s) = cut - 2 + 1
       /\ \A i \in 1..cut - 2 + 1 : s[i] = one[2 + i - 1]
  BY <1>4, <1>9, PartOf
<1>11. /\ t \in Seq(PhpToken) /\ Len(t) = cut - 2 + 1
       /\ \A i \in 1..cut - 2 + 1 : t[i] = b[2 + i - 1]
  BY <1>9, PartOf
<1>12. s = t
  <2>1. ASSUME NEW i \in 1..cut - 2 + 1 PROVE s[i] = t[i]
    <3>1. 2 + i - 1 \in 1..Len(one) /\ (1 - 1) * W + (2 + i - 1) = 2 + i - 1  BY <1>1, <1>5, <1>8
    <3>2. one[2 + i - 1] = b[2 + i - 1]  BY <1>4, <3>1
    <3> HIDE DEF s, t
    <3> QED  BY <1>10, <1>11, <3>2
  <2> HIDE DEF s, t
  <2> QED  BY <1>10, <1>11, <2>1, SeqEqual
<1>13. Text(s) = s
  <2> HIDE DEF s
  <2> QED  BY <1>10, TextWhole
<1> QED  BY <1>3, <1>7, <1>12, <1>13 DEF NameOf

(* The frame of a push, place by place.                                    *)
LEMMA PushFrame ==
  ASSUME Tool = "aoq.php", NEW q \in Request, q.op = "push"
  PROVE  LET n == Len(q.args[1])
             v == Len(q.args[2])
         IN  /\ n \in Nat /\ v \in Nat /\ q.args[1] \in Seq(Letter) /\ q.args[2] \in Seq(Letter)
             /\ Len(Frame(q)) = n + v + 2
             /\ Frame(q)[1] = HeadOf(q)
             /\ \A i \in 1..n : Frame(q)[1 + i] = q.args[1][i]
             /\ \A i \in 1..v : Frame(q)[1 + n + i] = q.args[2][i]
             /\ Frame(q)[n + v + 2] = NL
<1> DEFINE name == q.args[1]
           value == q.args[2]
           n == Len(name)
           v == Len(value)
           h == <<HeadOf(q)>>
           both == name \o value
<1>1. /\ Len(q.args) = 2 /\ name \in Seq(Letter) /\ value \in Seq(Letter)
      /\ n \in Nat /\ v \in Nat
  <2>1. Len(q.args) = 2 /\ \A i \in 1..Len(q.args) : q.args[i] \in Seq(Letter) /\ Len(q.args[i]) \in Nat
    BY RequestType
  <2> QED  BY <2>1
<1>2. FlattenSeq(q.args) = both
  <2>1. Len(q.args) \in Nat  BY <1>1
  <2>2. Len(q.args) = 2 => FlattenSeq(q.args) = q.args[1] \o q.args[2]
    BY <2>1, FlattenFew, Zenon
  <2> QED  BY <1>1, <2>2, Zenon
<1>3. Frame(q) = (h \o both) \o <<NL>>  BY <1>2, Zenon DEF Frame, PhpFrame, Framed
<1> HIDE DEF name, value
<1>4. /\ both \in Seq(Letter) /\ Len(both) = n + v
      /\ \A i \in 1..n + v : both[i] = IF i <= n THEN name[i] ELSE value[i - n]
  BY <1>1, ConcatProperties
<1>5. both \in Seq(Token) /\ h \in Seq(Token) /\ <<NL>> \in Seq(Token) /\ Len(h) = 1 /\ h[1] = HeadOf(q)
  <2>1. Letter \subseteq Token /\ HeadOf(q) \in Token /\ NL \in Token  BY HeadType DEF Token
  <2>2. both \in Seq(Token)
    <3> HIDE DEF both
    <3> QED  BY <1>4, <2>1, SeqMonotonic
  <2> QED  BY <2>1, <2>2
<1> HIDE DEF both, h, n, v
<1>6. /\ h \o both \in Seq(Token) /\ Len(h \o both) = 1 + (n + v)
      /\ \A i \in 1..1 + (n + v) : (h \o both)[i] = IF i <= 1 THEN h[i] ELSE both[i - 1]
  <2>1. /\ h \o both \in Seq(Token) /\ Len(h \o both) = Len(h) + Len(both)
        /\ \A i \in 1..Len(h) + Len(both) :
             (h \o both)[i] = IF i <= Len(h) THEN h[i] ELSE both[i - Len(h)]
    BY <1>5, ConcatProperties
  <2> QED  BY <1>4, <1>5, <2>1
<1> DEFINE hb == h \o both
<1> HIDE DEF hb
<1>7. /\ Len(hb \o <<NL>>) = (1 + (n + v)) + 1
      /\ \A i \in 1..(1 + (n + v)) + 1 :
           (hb \o <<NL>>)[i] = IF i <= 1 + (n + v) THEN hb[i] ELSE <<NL>>[i - (1 + (n + v))]
  BY <1>5, <1>6, ConcatProperties DEF hb
<1>8. Len(Frame(q)) = n + v + 2 /\ Frame(q)[n + v + 2] = NL
  <2>1. Len(Frame(q)) = n + v + 2  BY <1>1, <1>3, <1>7 DEF hb, n, v
  <2>2. n + v + 2 \in 1..(1 + (n + v)) + 1 /\ ~(n + v + 2 <= 1 + (n + v))
        /\ (n + v + 2) - (1 + (n + v)) = 1
    BY <1>1 DEF n, v
  <2>3. (hb \o <<NL>>)[n + v + 2] = <<NL>>[1]  BY <1>7, <2>2
  <2> QED  BY <1>3, <2>1, <2>3 DEF hb
<1>9. ASSUME NEW i \in 1..n + v PROVE Frame(q)[1 + i] = both[i]
  <2>1. /\ 1 + i \in 1..(1 + (n + v)) + 1 /\ 1 + i <= 1 + (n + v) /\ 1 + i \in 1..1 + (n + v)
        /\ ~(1 + i <= 1) /\ (1 + i) - 1 = i
    BY <1>1 DEF n, v
  <2>2. (hb \o <<NL>>)[1 + i] = hb[1 + i]  BY <1>7, <2>1
  <2>3. hb[1 + i] = both[(1 + i) - 1]  BY <1>6, <2>1 DEF hb
  <2> QED  BY <1>3, <2>1, <2>2, <2>3 DEF hb
<1>10. Frame(q)[1] = HeadOf(q)  BY FrameBegins
<1>11. \A i \in 1..n : Frame(q)[1 + i] = name[i]
  <2>1. ASSUME NEW i \in 1..n PROVE Frame(q)[1 + i] = name[i]
    <3>1. i \in 1..n + v /\ i <= n  BY <1>1 DEF n, v
    <3> QED  BY <1>4, <1>9, <3>1
  <2> QED  BY <2>1
<1>12. \A i \in 1..v : Frame(q)[1 + n + i] = value[i]
  <2>1. ASSUME NEW i \in 1..v PROVE Frame(q)[1 + n + i] = value[i]
    <3>1. n + i \in 1..n + v /\ ~(n + i <= n) /\ (n + i) - n = i /\ 1 + (n + i) = 1 + n + i
      BY <1>1 DEF n, v
    <3>2. Frame(q)[1 + (n + i)] = both[n + i] /\ both[n + i] = value[(n + i) - n]
      BY <1>4, <1>9, <3>1
    <3> QED  BY <3>1, <3>2
  <2> QED  BY <2>1
<1> QED  BY <1>1, <1>8, <1>10, <1>11, <1>12 DEF n, v, name, value

(* The greatest of some numbers.                                           *)
LEMMA MaxOf ==
  ASSUME NEW n \in Nat, NEW T, T \subseteq 1..n, T # {}
  PROVE  Max(T) \in T /\ \A x \in T : x <= Max(T)
<1> DEFINE U == {n - x : x \in T}
<1>1. U \subseteq Nat /\ U # {}
  <2>1. \A x \in T : x \in 1..n  OBVIOUS
  <2>2. \A x \in 1..n : n - x \in Nat  OBVIOUS
  <2>3. U \subseteq Nat  BY <2>1, <2>2
  <2> QED  BY <2>3
<1>2. PICK u \in U : \A y \in U : u <= y
  <2> HIDE DEF U
  <2> QED  BY <1>1, Least
<1>3. PICK m \in T : u = n - m  OBVIOUS
<1>4. \A x \in T : m >= x
  <2>1. ASSUME NEW x \in T PROVE m >= x
    <3>1. n - x \in U  OBVIOUS
    <3>2. n - m <= n - x  BY <1>2, <1>3, <3>1
    <3>3. x \in 1..n /\ m \in 1..n  OBVIOUS
    <3> QED  BY <3>2, <3>3
  <2> QED  BY <2>1
<1>5. Max(T) \in T /\ \A x \in T : Max(T) >= x  BY <1>4 DEF Max
<1>6. T \subseteq Int  OBVIOUS
<1> QED  BY <1>5, <1>6

(* A trimmed name is a part of it, and one without blanks is left as it is.*)
LEMMA TrimType ==
  ASSUME NEW S, NEW s \in Seq(S), NEW n
  PROVE  /\ Trim(s, n) \in Seq(S)
         /\ Range(s) \cap Blank = {} => Trim(s, n) = s
<1> DEFINE ink == {i \in DOMAIN s : s[i] \notin Blank}
           hi == IF Len(s) = n THEN Max(ink) ELSE Len(s)
<1>1. Len(s) \in Nat /\ DOMAIN s = 1..Len(s)  BY LenProperties
<1>2. ink \subseteq 1..Len(s) /\ ink \subseteq Nat  BY <1>1
<1>3. CASE ink = {}
  <2>1. Trim(s, n) = <<>>  BY <1>3 DEF Trim
  <2>2. Range(s) \cap Blank = {} => s = <<>>
    <3>1. ASSUME Range(s) \cap Blank = {} PROVE Len(s) = 0
      <4>1. \A i \in 1..Len(s) : s[i] \in Range(s)  BY <1>1 DEF Range
      <4>2. \A i \in 1..Len(s) : i \in ink  BY <1>1, <3>1, <4>1
      <4>3. 1 \notin 1..Len(s)  BY <1>3, <4>2
      <4> QED  BY <1>1, <4>3
    <3> QED  BY <3>1, EmptySeq
  <2> QED  BY <2>1, <2>2, EmptySeq
<1>4. CASE ink # {}
  <2> DEFINE lo == Min(ink)
             top == Max(ink)
             m == Len(s)
  <2>1. Trim(s, n) = SubSeq(s, lo, hi) /\ hi = IF m = n THEN top ELSE m
    BY <1>4 DEF Trim
  <2>2. lo \in ink /\ top \in ink /\ (\A x \in ink : lo <= x /\ x <= top)
    <3> HIDE DEF ink
    <3> QED  BY <1>1, <1>2, <1>4, MinOf, MaxOf
  <2>3. m \in Nat /\ lo \in 1..m /\ top \in 1..m /\ lo <= top  BY <1>1, <1>2, <2>2
  <2>4. Range(s) \cap Blank = {} => lo <= 1 /\ m <= top
    <3>1. ASSUME Range(s) \cap Blank = {} PROVE 1 \in ink /\ m \in ink
      <4>1. \A i \in 1..Len(s) : s[i] \in Range(s)  BY <1>1 DEF Range
      <4>2. 1 \in 1..Len(s) /\ Len(s) \in 1..Len(s)  BY <1>1, <2>3
      <4> QED  BY <1>1, <3>1, <4>1, <4>2
    <3>2. 1 \in ink /\ m \in ink => lo <= 1 /\ m <= top  BY <2>2
    <3> QED  BY <3>1, <3>2
  <2> HIDE DEF lo, top, hi, ink, m
  <2>5. Range(s) \cap Blank = {} => lo = 1 /\ hi = m  BY <2>1, <2>3, <2>4
  <2>6. lo \in Nat \ {0} /\ hi \in lo - 1..m
    <3>1. CASE m = n  BY <2>1, <2>3, <3>1
    <3>2. CASE m # n
      <4>1. hi = m  BY <2>1, <3>2
      <4> QED  BY <2>3, <4>1
    <3> QED  BY <3>1, <3>2
  <2>7. SubSeq(s, lo, hi) \in Seq(S)
    <3>1. hi \in lo - 1..Len(s)  BY <2>6 DEF m
    <3> QED  BY <2>6, <3>1, PartOf
  <2>8. SubSeq(s, 1, m) = s  BY SubSeqFull DEF m
  <2> QED  BY <2>1, <2>5, <2>7, <2>8
<1> QED  BY <1>3, <1>4

(* The key of a key is the key, and a short name is its own.               *)
LEMMA KeyType ==
  ASSUME NEW S, NEW s \in Seq(S)
  PROVE  /\ Key(s) \in Seq(S) /\ Key(Key(s)) = Key(s)
         /\ Len(s) <= KeySize => Key(s) = s
<1>1. Len(s) \in Nat /\ KeySize \in Nat  BY LenProperties, SizeAssumption
<1>2. \A x \in Nat : Min({x, KeySize}) = IF x <= KeySize THEN x ELSE KeySize
  BY <1>1, MinOfTwo
<1> DEFINE m == IF Len(s) <= KeySize THEN Len(s) ELSE KeySize
           key == SubSeq(s, 1, m)
<1>3. Key(s) = key /\ m \in 0..Len(s)  BY <1>1, <1>2 DEF Key
<1> HIDE DEF m
<1>4. key \in Seq(S) /\ Len(key) = m  BY <1>3, FirstOnes
<1>5. Len(s) <= KeySize => key = s  BY SubSeqFull DEF m
<1> HIDE DEF key
<1>6. m <= KeySize /\ m \in Nat  BY <1>1 DEF m
<1>7. Key(key) = key
  <2>1. Min({Len(key), KeySize}) = Len(key)  BY <1>1, <1>2, <1>4, <1>6
  <2>2. SubSeq(key, 1, Len(key)) = key  BY <1>4, SubSeqFull
  <2> QED  BY <2>1, <2>2 DEF Key
<1> QED  BY <1>3, <1>4, <1>5, <1>7

(* What ItemsFaithful says of an item and the request it comes from.       *)
ComesFrom(q, name, item, hasty) ==
  /\ q.op = "push" /\ item.len = Len(ValueOf(q))
  /\ name = Key(ServerName(q.args[1]))
  /\ NL \notin Range(ValueOf(q)) => IsPrefix(ValueOf(q), item.text)
  /\ ~hasty => IsPrefix(item.text, ValueOf(q) \o <<NL>>)

(* The name that is asked is known to the server as ServerName.            *)
LEMMA NameKept ==
  ASSUME NEW b \in Seq(PhpToken), NEW name \in Seq(Letter), Len(name) + 1 <= Len(b),
         \A i \in 1..Len(name) : b[1 + i] = name[i]
  PROVE  Trim(SubSeq(b, 2, Min({Len(name) + 1, W})), Len(name)) = ServerName(name)
<1> DEFINE n == Len(name)
           less == IF n <= W - 1 THEN n ELSE W - 1
           s == SubSeq(b, 2, less + 1)
           t == SubSeq(name, 1, less)
<1>1. n \in Nat /\ W \in Nat \ {0} /\ Len(b) \in Nat  BY LenProperties, WidthAssumption
<1>2. \A x, y \in Nat : Min({x, y}) = IF x <= y THEN x ELSE y  BY MinOfTwo
<1> HIDE DEF n
<1>3. Min({n + 1, W}) = less + 1 /\ Min({n, W - 1}) = less
  <2>1. n + 1 \in Nat /\ W - 1 \in Nat  BY <1>1
  <2>2. /\ Min({n + 1, W}) = IF n + 1 <= W THEN n + 1 ELSE W
        /\ Min({n, W - 1}) = IF n <= W - 1 THEN n ELSE W - 1
    BY <1>1, <1>2, <2>1
  <2> QED  BY <1>1, <2>2
<1>4. less \in Nat /\ less <= n /\ n + 1 <= Len(b)  BY <1>1 DEF n
<1> HIDE DEF less
<1>5. 2 \in Nat \ {0} /\ less + 1 \in 2 - 1..Len(b) /\ (less + 1) - 2 + 1 = less  BY <1>1, <1>4
<1>6. /\ s \in Seq(PhpToken) /\ Len(s) = less
      /\ \A i \in 1..less : s[i] = b[2 + i - 1]
  BY <1>5, PartOf
<1>7. name \in Seq(PhpToken)
  <2>1. Letter \subseteq PhpToken  BY DEF PhpToken
  <2> QED  BY <2>1, SeqMonotonic
<1>8. /\ t \in Seq(PhpToken) /\ Len(t) = less /\ \A i \in 1..less : t[i] = name[i]
  <2>1. less \in 0..Len(name)  BY <1>1, <1>4 DEF n
  <2> QED  BY <1>7, <2>1, FirstOnes
<1>9. ASSUME NEW i \in 1..less PROVE s[i] = t[i]
  <2>1. 2 + i - 1 = 1 + i /\ i \in 1..n  BY <1>1, <1>4
  <2>2. b[1 + i] = name[i]  BY <2>1 DEF n
  <2> HIDE DEF s, t
  <2> QED  BY <1>6, <1>8, <2>1, <2>2
<1> HIDE DEF s, t
<1>10. s = t  BY <1>6, <1>8, <1>9, SeqEqual
<1> QED  BY <1>3, <1>10 DEF s, t, n, ServerName

(* What a push puts in the queue comes from the request, if the buffer     *)
(* begins with it and, when nobody is hasty, holds nothing else.           *)
LEMMA PushFaithful ==
  ASSUME Tool = "aoq.php", NEW q \in Request, q.op = "push", NL \notin Range(q.args[1]),
         NEW b \in Seq(PhpToken), b # <<>>, Last(b) = NL,
         \A j \in 1..Len(b) : j <= Len(Frame(q)) => b[j] = Frame(q)[j],
         NEW hasty, ~hasty => Len(b) <= Len(Frame(q))
  PROVE  LET slab == Split(b)
             n == Len(q.args[1])
         IN  /\ ComesFrom(q, Key(NameOf(slab, n)),
                          [len |-> Len(q.args[2]), text |-> From(slab, MoveCursor(slab, n))], hasty)
             /\ Len(q.args[2]) = 0 =>
                  ComesFrom(q, Key(NameOf(slab, n)), [len |-> 0, text |-> <<>>], hasty)
<1> DEFINE name == q.args[1]
           value == q.args[2]
           n == Len(name)
           v == Len(value)
           f == Frame(q)
           E == SlabEnd(b)
           text == SubSeq(b, n + 2, E)
<1>1. /\ n \in Nat /\ v \in Nat /\ name \in Seq(Letter) /\ value \in Seq(Letter)
      /\ Len(f) = n + v + 2 /\ f[1] = HeadOf(q)
      /\ \A i \in 1..n : f[1 + i] = name[i]
      /\ \A i \in 1..v : f[1 + n + i] = value[i]
      /\ f[n + v + 2] = NL
  BY PushFrame
<1>2. /\ Len(b) \in Nat \ {0} /\ E \in 1..Len(b) /\ b[E] = NL  BY LastOf, SlabEnds
<1>3. \A j \in 1..Len(b) : j <= Len(f) => b[j] = f[j]  OBVIOUS
<1>4. \A i \in 1..n : name[i] # NL
  <2>1. name \in Seq(Letter) /\ NL \notin Range(name)  BY <1>1
  <2> HIDE DEF name
  <2> QED  BY <2>1, LenProperties DEF Range, n
<1>5. HeadOf(q) # NL  BY HeadType, TokenAssumption
<1> HIDE DEF f, E, n, v, name, value
<1>6. ASSUME NEW i \in 1..n + 1, i <= Len(b) PROVE b[i] # NL
  <2>1. i \in 1..Len(b) /\ i <= Len(f)  BY <1>1, <1>2, <1>6
  <2>2. b[i] = f[i]  BY <1>3, <2>1
  <2>3. i = 1 \/ (i - 1 \in 1..n /\ 1 + (i - 1) = i)  BY <1>1
  <2>4. CASE i = 1  BY <1>1, <1>5, <2>2, <2>4
  <2>5. CASE i - 1 \in 1..n /\ 1 + (i - 1) = i
    <3>1. f[1 + (i - 1)] = name[i - 1] /\ name[i - 1] # NL  BY <1>1, <1>4, <2>5
    <3> QED  BY <2>2, <2>5, <3>1
  <2> QED  BY <2>3, <2>4, <2>5
<1>7. n + 2 <= E /\ From(Split(b), MoveCursor(Split(b), n)) = text
  BY <1>1, <1>6, FromBehind DEF E
<1>8. NameOf(Split(b), n) = ServerName(name)
  <2>1. n + 1 <= Len(b)  BY <1>1, <1>2, <1>7
  <2>2. NameOf(Split(b), n) = Trim(SubSeq(b, 2, Min({n + 1, W})), n)
    BY <1>1, <2>1, NameInChunk
  <2>3. ASSUME NEW i \in 1..n PROVE b[1 + i] = name[i]
    <3>1. 1 + i \in 1..Len(b) /\ 1 + i <= Len(f)  BY <1>1, <1>2, <2>1
    <3> QED  BY <1>1, <1>3, <3>1
  <2>4. Trim(SubSeq(b, 2, Min({n + 1, W})), n) = ServerName(name)
    BY <1>1, <2>1, <2>3, NameKept DEF n
  <2> QED  BY <2>2, <2>4
<1>9. /\ text \in Seq(PhpToken) /\ Len(text) = E - (n + 2) + 1
      /\ \A i \in 1..E - (n + 2) + 1 : text[i] = b[(n + 2) + i - 1]
  <2>1. n + 2 \in Nat \ {0} /\ E \in (n + 2) - 1..Len(b)  BY <1>1, <1>2, <1>7
  <2> QED  BY <2>1, PartOf
<1>10. ASSUME NEW i \in 1..Len(text)
       PROVE  /\ i \in Nat /\ 1 + n + i \in 1..E /\ text[i] = b[1 + n + i]
              /\ 1 + n + i \in 1..Len(b)
  <2>1. i \in 1..E - (n + 2) + 1 /\ (n + 2) + i - 1 = 1 + n + i  BY <1>1, <1>2, <1>9
  <2>2. 1 + n + i \in 1..E /\ 1 + n + i \in 1..Len(b)  BY <1>1, <1>2, <2>1
  <2> HIDE DEF text
  <2> QED  BY <1>9, <2>1, <2>2
<1> HIDE DEF text
<1>11. value \in Seq(PhpToken) /\ value \o <<NL>> \in Seq(PhpToken)
       /\ Len(value \o <<NL>>) = v + 1
       /\ \A i \in 1..v + 1 : (value \o <<NL>>)[i] = IF i <= v THEN value[i] ELSE NL
  <2>1. Letter \subseteq PhpToken /\ NL \in PhpToken  BY DEF PhpToken
  <2>2. value \in Seq(PhpToken) /\ <<NL>> \in Seq(PhpToken)  BY <1>1, <2>1, SeqMonotonic
  <2>3. /\ value \o <<NL>> \in Seq(PhpToken) /\ Len(value \o <<NL>>) = v + 1
        /\ \A i \in 1..v + 1 : (value \o <<NL>>)[i] = IF i <= v THEN value[i] ELSE <<NL>>[i - v]
    BY <2>2, ConcatProperties DEF v
  <2>4. ASSUME NEW i \in 1..v + 1 PROVE (value \o <<NL>>)[i] = IF i <= v THEN value[i] ELSE NL
    <3>1. i <= v \/ (~(i <= v) /\ i - v = 1)  BY <1>1
    <3> QED  BY <2>3, <3>1
  <2> QED  BY <2>2, <2>3, <2>4
<1>12. ASSUME NL \notin Range(value) PROVE IsPrefix(value, text)
  <2>1. \A i \in 1..v : value[i] # NL  BY <1>1, <1>12, LenProperties DEF Range, v
  <2>2. n + v + 2 <= E
    <3>1. ASSUME NEW i \in 1..v, E = 1 + n + i PROVE FALSE
      <4>1. E <= Len(f)  BY <1>1, <3>1
      <4>2. b[E] = f[E]  BY <1>2, <1>3, <4>1
      <4> QED  BY <1>1, <1>2, <2>1, <3>1, <4>2
    <3>2. ~(n + v + 2 <= E) => E - n - 1 \in 1..v /\ E = 1 + n + (E - n - 1)
      BY <1>1, <1>2, <1>7
    <3> QED  BY <3>1, <3>2
  <2>3. v <= Len(text)  BY <1>1, <1>2, <1>9, <2>2
  <2>4. ASSUME NEW i \in 1..v PROVE value[i] = text[i]
    <3>1. i \in 1..Len(text) /\ 1 + n + i <= Len(f)  BY <1>1, <1>2, <1>9, <2>2
    <3>2. text[i] = b[1 + n + i] /\ 1 + n + i \in 1..Len(b)  BY <1>10, <3>1
    <3> QED  BY <1>1, <1>3, <3>1, <3>2
  <2> QED  BY <1>9, <1>11, <2>3, <2>4, PrefixMeans DEF v
<1>13. ASSUME ~hasty PROVE IsPrefix(text, value \o <<NL>>)
  <2>1. Len(b) <= n + v + 2  BY <1>1, <1>13 DEF f
  <2>2. Len(text) <= v + 1 /\ Len(text) \in Nat  BY <1>1, <1>2, <1>7, <1>9, <2>1
  <2>3. ASSUME NEW i \in 1..Len(text) PROVE text[i] = (value \o <<NL>>)[i]
    <3>1. i \in 1..v + 1 /\ 1 + n + i <= Len(f)  BY <1>1, <2>2
    <3>2. text[i] = b[1 + n + i] /\ 1 + n + i \in 1..Len(b)  BY <1>10
    <3>3. text[i] = f[1 + n + i]  BY <1>3, <3>1, <3>2
    <3>4. CASE i <= v
      <4>1. i \in 1..v  BY <3>1, <3>4
      <4> QED  BY <1>1, <1>11, <3>1, <3>3, <3>4, <4>1
    <3>5. CASE ~(i <= v)
      <4>1. 1 + n + i = n + v + 2  BY <1>1, <3>1, <3>5
      <4> QED  BY <1>1, <1>11, <3>1, <3>3, <3>5, <4>1
    <3> QED  BY <3>4, <3>5
  <2>4. \A i \in 1..Len(text) : text[i] = (value \o <<NL>>)[i]  BY <2>3
  <2>5. Len(text) <= Len(value \o <<NL>>)  BY <1>11, <2>2
  <2> QED  BY <1>9, <1>11, <2>4, <2>5, PrefixMeans
<1>14. ComesFrom(q, Key(ServerName(name)), [len |-> v, text |-> text], hasty)
  BY <1>12, <1>13 DEF ComesFrom, ValueOf, name, value, v
<1>15. ASSUME v = 0
       PROVE  ComesFrom(q, Key(ServerName(name)), [len |-> 0, text |-> <<>>], hasty)
  <2>1. value = <<>> /\ <<>> \in Seq(PhpToken) /\ Len(<<>>) = 0
    BY <1>11, <1>15, EmptySeq DEF v
  <2>2. IsPrefix(<<>>, <<>>)
    <3> DEFINE none == <<>>
    <3>1. none \in Seq(PhpToken) /\ Len(none) <= Len(none)  BY <2>1
    <3>2. \A i \in 1..Len(none) : none[i] = none[i]  OBVIOUS
    <3> HIDE DEF none
    <3>3. IsPrefix(none, none)  BY <3>1, <3>2, PrefixMeans
    <3> QED  BY <3>3 DEF none
  <2>3. IsPrefix(<<>>, value \o <<NL>>)
    <3> DEFINE all == value \o <<NL>>
    <3>1. all \in Seq(PhpToken) /\ Len(<<>>) <= Len(all)  BY <1>1, <1>11, <2>1
    <3>2. \A i \in 1..Len(<<>>) : <<>>[i] = all[i]  BY <2>1
    <3> HIDE DEF all
    <3>3. IsPrefix(<<>>, all)  BY <2>1, <3>1, <3>2, PrefixMeans
    <3> QED  BY <3>3 DEF all
  <2> QED  BY <1>15, <2>1, <2>2, <2>3 DEF ComesFrom, ValueOf, name, value, v
<1> QED  BY <1>7, <1>8, <1>14, <1>15 DEF name, value, n, v


-----------------------------------------------------------------------------
(* Whole frames.  Every head that begins a line in the buffer or the       *)
(* socket begins the frame of a request; if nobody is hasty, the last one  *)
(* there is.                                                               *)
Begins(s, i, q) ==
  /\ i - 1 + Len(Frame(q)) <= Len(s)
  /\ \A j \in 1..Len(Frame(q)) : s[i - 1 + j] = Frame(q)[j]

InFrames(s, requests, hasty) ==
  /\ s \in Seq(PhpToken) /\ Fresh(s)
  /\ \A i \in 1..Len(s) : Starts(s)[i] \in Heads =>
       \E q \in Range(requests) :
         Begins(s, i, q) /\ (~hasty => i - 1 + Len(Frame(q)) = Len(s))

Frames == InFrames(buf \o wire, asked, eager)

(* The frames of aoq.php hold no zero and end a line.                      *)
LEMMA PhpFrameType ==
  ASSUME Tool = "aoq.php", NEW q \in Request
  PROVE  Frame(q) \in Seq(PhpToken) /\ Last(Frame(q)) = NL
<1> DEFINE h == <<HeadOf(q)>>
           f == FlattenSeq(q.args)
<1>1. Frame(q) = (h \o f) \o <<NL>>  BY Zenon DEF Frame, PhpFrame, Framed
<1>2. HeadOf(q) \in PhpToken /\ NL \in PhpToken /\ Letter \subseteq PhpToken
  BY HeadType DEF PhpToken
<1>3. h \in Seq(PhpToken) /\ <<NL>> \in Seq(PhpToken)  BY <1>2
<1>4. f \in Seq(PhpToken)
  <2>1. f \in Seq(Letter)  BY FramedType
  <2> HIDE DEF f
  <2> QED  BY <1>2, <2>1, SeqMonotonic
<1> HIDE DEF h, f
<1> DEFINE g == h \o f
<1>5. g \in Seq(PhpToken) /\ Len(g) \in Nat  BY <1>3, <1>4, ConcatProperties, LenProperties
<1> HIDE DEF g
<1>6. /\ g \o <<NL>> \in Seq(PhpToken) /\ Len(g \o <<NL>>) = Len(g) + 1
      /\ \A i \in 1..Len(g) + 1 : (g \o <<NL>>)[i] = IF i <= Len(g) THEN g[i] ELSE <<NL>>[i - Len(g)]
  BY <1>3, <1>5, ConcatProperties
<1>7. (g \o <<NL>>)[Len(g) + 1] = NL
  <2>1. /\ Len(g) + 1 \in 1..Len(g) + 1 /\ ~(Len(g) + 1 <= Len(g)) /\ (Len(g) + 1) - Len(g) = 1
    BY <1>5
  <2> QED  BY <1>6, <2>1
<1>8. Last(g \o <<NL>>) = NL  BY <1>6, <1>7 DEF Last
<1> QED  BY <1>1, <1>6, <1>8 DEF g

(* A frame more.  If its sender is not hasty there was no head before it.  *)
LEMMA FramesMore ==
  ASSUME Tool = "aoq.php", NEW s, NEW requests \in Seq(Request), NEW q \in Request, Innocent(q),
         NEW hasty, NEW later, InFrames(s, requests, hasty),
         ~later => \A i \in 1..Len(s) : Starts(s)[i] \notin Heads
  PROVE  InFrames(s \o Frame(q), Append(requests, q), later)
<1> DEFINE f == Frame(q)
           all == s \o f
           more == Append(requests, q)
           ss == Starts(s)
           sf == Starts(f)
<1>1. /\ s \in Seq(PhpToken) /\ s \in Seq(Token) /\ Fresh(s) /\ Len(s) \in Nat
      /\ f \in Seq(PhpToken) /\ f \in Seq(Token) /\ f # <<>> /\ Last(f) = NL
      /\ Len(f) \in Nat \ {0}
  BY PhpFrameType, FrameType, FrameBegins, NoZero, SeqMonotonic, LenProperties DEF InFrames
<1>2. /\ sf \in Seq(LineToken) /\ Len(sf) = Len(f)
      /\ \A i \in 2..Len(f) : sf[i] \notin Heads
  BY OneHead
<1>3. Range(requests) \subseteq Range(more) /\ q \in Range(more)  BY RangeMore
<1> HIDE DEF f, sf, more
<1>4. /\ all \in Seq(PhpToken) /\ Len(all) = Len(s) + Len(f)
      /\ \A i \in 1..Len(s) + Len(f) : all[i] = IF i <= Len(s) THEN s[i] ELSE f[i - Len(s)]
  BY <1>1, ConcatProperties
<1>5. Fresh(all)  BY <1>1, FreshOfTwo
<1>6. Starts(all) = ss \o sf  BY <1>1, StartsOfTwo DEF sf
<1>7. ss \in Seq(LineToken) /\ Len(ss) = Len(s)  BY <1>1, StartsType
<1>8. \A i \in 1..Len(s) : ss[i] \in Heads =>
        \E p \in Range(requests) :
          Begins(s, i, p) /\ (~hasty => i - 1 + Len(Frame(p)) = Len(s))
  BY DEF InFrames
<1>9. ~later => \A i \in 1..Len(s) : ss[i] \notin Heads  OBVIOUS
<1> HIDE DEF ss
<1>10. \A i \in 1..Len(s) + Len(f) : (ss \o sf)[i] = IF i <= Len(s) THEN ss[i] ELSE sf[i - Len(s)]
  <2>1. \A i \in 1..Len(ss) + Len(sf) :
          (ss \o sf)[i] = IF i <= Len(ss) THEN ss[i] ELSE sf[i - Len(ss)]
    BY <1>2, <1>7, ConcatProperties
  <2> QED  BY <1>2, <1>7, <2>1
<1> HIDE DEF all
<1>11. ASSUME NEW i \in 1..Len(all), Starts(all)[i] \in Heads
       PROVE  \E p \in Range(more) :
                Begins(all, i, p) /\ (~later => i - 1 + Len(Frame(p)) = Len(all))
  <2>1. CASE i <= Len(s)
    <3>1. i \in 1..Len(s) /\ i \in 1..Len(s) + Len(f)  BY <1>1, <1>4, <2>1
    <3>2. ss[i] \in Heads  BY <1>6, <1>10, <1>11, <2>1, <3>1
    <3>3. later  BY <1>9, <3>1, <3>2
    <3>4. PICK p \in Range(requests) : Begins(s, i, p)  BY <1>8, <3>1, <3>2
    <3>5. p \in Request  BY RangeType
    <3>6. Len(Frame(p)) \in Nat  BY <3>5, FrameBegins
    <3>7. ASSUME NEW j \in 1..Len(Frame(p)) PROVE all[i - 1 + j] = Frame(p)[j]
      <4>1. s[i - 1 + j] = Frame(p)[j] /\ i - 1 + Len(Frame(p)) <= Len(s)
        BY <3>4 DEF Begins
      <4>2. i - 1 + j \in 1..Len(s) + Len(f) /\ i - 1 + j <= Len(s)
        BY <1>1, <3>1, <3>6, <4>1
      <4> QED  BY <1>4, <4>1, <4>2
    <3>8. i - 1 + Len(Frame(p)) <= Len(all)  BY <1>1, <1>4, <3>1, <3>4, <3>6 DEF Begins
    <3>9. Begins(all, i, p)  BY <3>7, <3>8 DEF Begins
    <3> QED  BY <1>3, <3>3, <3>4, <3>9
  <2>2. CASE ~(i <= Len(s))
    <3>1. i \in 1..Len(s) + Len(f) /\ i - Len(s) \in 1..Len(f)  BY <1>1, <1>4, <2>2
    <3>2. sf[i - Len(s)] \in Heads  BY <1>6, <1>10, <1>11, <2>2, <3>1
    <3>3. i - Len(s) = 1 \/ i - Len(s) \in 2..Len(f)  BY <1>1, <3>1
    <3>4. i - 1 = Len(s)  BY <1>1, <1>2, <3>1, <3>2, <3>3
    <3>5. ASSUME NEW j \in 1..Len(f) PROVE all[i - 1 + j] = f[j]
      <4>1. /\ Len(s) + j \in 1..Len(s) + Len(f) /\ ~(Len(s) + j <= Len(s))
            /\ (Len(s) + j) - Len(s) = j
        BY <1>1
      <4>2. all[Len(s) + j] = f[j]  BY <1>4, <4>1
      <4> QED  BY <3>4, <4>2
    <3>6. i - 1 + Len(f) = Len(all)  BY <1>4, <3>4
    <3>7. i - 1 + Len(f) <= Len(all)  BY <1>1, <1>4, <3>6
    <3>8. Begins(all, i, q)  BY <3>5, <3>7 DEF Begins, f
    <3> QED  BY <1>3, <3>6, <3>8 DEF f
  <2> QED  BY <2>1, <2>2
<1> QED  BY <1>4, <1>5, <1>11 DEF InFrames, all, more, f

(* What is left when the server has taken whole lines.                     *)
LEMMA FramesLess ==
  ASSUME NEW b \in Seq(Token), Fresh(b), NEW z \in Seq(Token), NEW requests \in Seq(Request),
         NEW hasty, InFrames(b \o z, requests, hasty)
  PROVE  InFrames(z, requests, hasty)
<1> DEFINE all == b \o z
           sb == Starts(b)
           sz == Starts(z)
<1>1. /\ Len(b) \in Nat /\ Len(z) \in Nat /\ Len(all) = Len(b) + Len(z)
      /\ \A i \in 1..Len(b) + Len(z) : all[i] = IF i <= Len(b) THEN b[i] ELSE z[i - Len(b)]
  BY LenProperties, ConcatProperties
<1>2. all \in Seq(PhpToken) /\ Fresh(all)  BY DEF InFrames
<1>3. Starts(all) = sb \o sz /\ sb \in Seq(LineToken) /\ sz \in Seq(LineToken)
      /\ Len(sb) = Len(b) /\ Len(sz) = Len(z)
  BY StartsOfTwo, StartsType
<1>4. \A i \in 1..Len(all) : Starts(all)[i] \in Heads =>
        \E q \in Range(requests) :
          Begins(all, i, q) /\ (~hasty => i - 1 + Len(Frame(q)) = Len(all))
  BY DEF InFrames
<1> HIDE DEF all, sb, sz
<1>5. \A i \in 1..Len(b) + Len(z) : (sb \o sz)[i] = IF i <= Len(b) THEN sb[i] ELSE sz[i - Len(b)]
  <2>1. \A i \in 1..Len(sb) + Len(sz) :
          (sb \o sz)[i] = IF i <= Len(sb) THEN sb[i] ELSE sz[i - Len(sb)]
    BY <1>3, ConcatProperties
  <2> QED  BY <1>3, <2>1
<1>6. ASSUME NEW i \in 1..Len(z)
      PROVE  /\ Len(b) + i \in 1..Len(all) /\ all[Len(b) + i] = z[i]
             /\ Starts(all)[Len(b) + i] = sz[i]
  <2>1. /\ Len(b) + i \in 1..Len(b) + Len(z) /\ ~(Len(b) + i <= Len(b))
        /\ (Len(b) + i) - Len(b) = i
    BY <1>1
  <2> QED  BY <1>1, <1>3, <1>5, <2>1
<1>7. z \in Seq(PhpToken)
  <2>1. \A i \in 1..Len(z) : z[i] \in PhpToken  BY <1>2, <1>6, ElementOfSeq
  <2> QED  BY <2>1, LenProperties, SeqDef
<1>8. Fresh(z)
  <2>1. CASE Len(z) = 0
    <3>1. z = <<>>  BY <2>1, EmptySeq
    <3> QED  BY <3>1 DEF Fresh
  <2>2. CASE Len(z) # 0
    <3>1. Len(z) \in 1..Len(z) /\ Len(all) # 0  BY <1>1, <2>2
    <3>2. all[Len(all)] = z[Len(z)]  BY <1>1, <1>6, <3>1
    <3>3. all # <<>>
      <4>1. all = <<>> => Len(all) = 0  BY EmptySeq
      <4> QED  BY <3>1, <4>1
    <3>4. Last(all) = NL  BY <1>2, <3>3 DEF Fresh
    <3> QED  BY <3>2, <3>4 DEF Fresh, Last
  <2> QED  BY <2>1, <2>2
<1>9. ASSUME NEW i \in 1..Len(z), sz[i] \in Heads
      PROVE  \E q \in Range(requests) :
               Begins(z, i, q) /\ (~hasty => i - 1 + Len(Frame(q)) = Len(z))
  <2> DEFINE k == Len(b) + i
  <2>1. k \in 1..Len(all) /\ Starts(all)[k] \in Heads  BY <1>6, <1>9
  <2>2. PICK q \in Range(requests) :
          Begins(all, k, q) /\ (~hasty => k - 1 + Len(Frame(q)) = Len(all))
    BY <1>4, <2>1
  <2>3. Len(Frame(q)) \in Nat
    <3>1. q \in Request  BY RangeType
    <3> QED  BY <3>1, FrameBegins
  <2>4. k - 1 + Len(Frame(q)) <= Len(all)  BY <2>2 DEF Begins
  <2>5. i - 1 + Len(Frame(q)) <= Len(z)  BY <1>1, <2>3, <2>4
  <2>6. ASSUME NEW j \in 1..Len(Frame(q)) PROVE z[i - 1 + j] = Frame(q)[j]
    <3>1. i - 1 + j \in 1..Len(z) /\ Len(b) + (i - 1 + j) = k - 1 + j  BY <1>1, <2>3, <2>5
    <3>2. all[k - 1 + j] = Frame(q)[j]  BY <2>2 DEF Begins
    <3> HIDE DEF k
    <3> QED  BY <1>6, <3>1, <3>2
  <2>7. ASSUME ~hasty PROVE i - 1 + Len(Frame(q)) = Len(z)
    <3>1. k - 1 + Len(Frame(q)) = Len(all)  BY <2>2, <2>7
    <3>2. Len(b) \in Nat /\ Len(z) \in Nat /\ Len(all) = Len(b) + Len(z)  BY <1>1
    <3> DEFINE m == Len(Frame(q))
    <3>3. m \in Nat /\ (Len(b) + i) - 1 + m = Len(b) + Len(z)  BY <2>3, <3>1, <3>2
    <3> HIDE DEF m
    <3>4. i - 1 + m = Len(z)  BY <3>2, <3>3
    <3> QED  BY <3>4 DEF m
  <2> QED  BY <2>5, <2>6, <2>7 DEF Begins
<1> QED  BY <1>7, <1>8, <1>9 DEF InFrames, sz

(* Increasing numbers are at least those of their places.                  *)
LEMMA Climbs ==
  ASSUME NEW m \in Nat, NEW at, \A i \in 1..m : at[i] \in Nat \ {0},
         \A i, j \in 1..m : i < j => at[i] < at[j]
  PROVE  \A i \in 1..m : at[i] >= i
<1> DEFINE T == {k \in Nat : k + 1 <= m => at[k + 1] >= k + 1}
<1>1. 0 \in T
  <2>1. 1 <= m => at[1] \in Nat \ {0}  OBVIOUS
  <2> QED  BY <2>1
<1>2. ASSUME NEW k \in Nat, k \in T PROVE k + 1 \in T
  <2>1. ASSUME (k + 1) + 1 <= m PROVE at[(k + 1) + 1] >= (k + 1) + 1
    <3>1. k + 1 \in 1..m /\ (k + 1) + 1 \in 1..m /\ k + 1 < (k + 1) + 1  BY <2>1
    <3>2. at[k + 1] >= k + 1  BY <1>2, <2>1
    <3>3. at[k + 1] < at[(k + 1) + 1]  BY <3>1
    <3>4. at[k + 1] \in Nat /\ at[(k + 1) + 1] \in Nat  BY <3>1
    <3> QED  BY <3>2, <3>3, <3>4
  <2> QED  BY <2>1
<1>3. ASSUME NEW i \in 1..m PROVE at[i] >= i
  <2>1. i - 1 \in Nat /\ (i - 1) + 1 = i  OBVIOUS
  <2>2. i - 1 \in T
    <3> HIDE DEF T
    <3> QED  BY <1>1, <1>2, <2>1, Induction
  <2> QED  BY <2>1, <2>2
<1> QED  BY <1>3

(* When as many were executed as asked, none is on its way.                *)
LEMMA NoneOnItsWay ==
  ASSUME Inv, Order, Len(done) >= Len(asked)
  PROVE  \A i \in 1..Len(buf \o wire) : Starts(buf \o wire)[i] \notin Heads
<1> DEFINE s == Starts(buf \o wire)
           trail == done \o s
           n == Len(done)
<1>1. PICK at \in [1..Len(trail) -> Nat] : Traces(trail, asked, at)  BY DEF Order, Traced
<1>2. /\ done \in Seq(Heads) /\ done \in Seq(LineToken) /\ s \in Seq(LineToken)
      /\ n \in Nat /\ Len(s) \in Nat /\ Len(asked) \in Nat
      /\ Len(s) = Len(buf \o wire)
  <2>1. Heads \subseteq LineToken  BY DEF LineToken, Token
  <2>2. done \in Seq(Heads) /\ buf \o wire \in Seq(Token) /\ asked \in Seq(Request)
    BY ConcatProperties DEF Inv, Streams
  <2>3. s \in Seq(LineToken) /\ Len(s) = Len(buf \o wire)  BY <2>2, StartsType
  <2> HIDE DEF s
  <2> QED  BY <2>1, <2>2, <2>3, SeqMonotonic, LenProperties
<1> HIDE DEF s
<1>3. /\ Len(trail) = n + Len(s)
      /\ \A i \in 1..n + Len(s) : trail[i] = IF i <= n THEN done[i] ELSE s[i - n]
  BY <1>2, ConcatProperties
<1>4. \A i \in 1..n : done[i] \in Heads  BY <1>2, ElementOfSeq
<1> HIDE DEF trail, n
<1>5. ASSUME NEW i \in 1..n PROVE i \in 1..Len(trail) /\ trail[i] \in Heads
  <2>1. i \in 1..n + Len(s) /\ i <= n  BY <1>2
  <2> QED  BY <1>3, <1>4, <2>1
<1>6. \A i \in 1..n : at[i] >= i
  <2>1. \A i \in 1..n : at[i] \in Nat \ {0}
    <3>1. ASSUME NEW i \in 1..n PROVE at[i] \in Nat \ {0}
      <4>1. at[i] \in 1..Len(asked)  BY <1>1, <1>5 DEF Traces
      <4> QED  BY <1>2, <4>1
    <3> QED  BY <3>1
  <2>2. \A i, j \in 1..n : i < j => at[i] < at[j]  BY <1>1, <1>5 DEF Traces
  <2> QED  BY <1>2, <2>1, <2>2, Climbs
<1>7. ASSUME NEW i \in 1..Len(s), s[i] \in Heads PROVE FALSE
  <2> DEFINE p == n + i
  <2>1. p \in 1..n + Len(s) /\ ~(p <= n) /\ p - n = i  BY <1>2
  <2>2. p \in 1..Len(trail) /\ trail[p] \in Heads  BY <1>3, <1>7, <2>1
  <2>3. at[p] \in 1..Len(asked)  BY <1>1, <2>2 DEF Traces
  <2>4. CASE n = 0
    <3>1. Len(asked) = 0  BY <1>2, <2>4 DEF n
    <3> QED  BY <2>3, <3>1
  <2>5. CASE n # 0
    <3>1. n \in 1..n /\ n < p  BY <1>2, <2>5
    <3>2. at[n] < at[p]  BY <1>1, <1>5, <2>2, <3>1 DEF Traces
    <3>3. at[n] >= n /\ at[n] \in Nat  BY <1>1, <1>5, <1>6, <3>1
    <3>4. n >= Len(asked)  BY DEF n
    <3> HIDE DEF p
    <3> QED  BY <1>2, <2>3, <3>2, <3>3, <3>4
  <2> QED  BY <2>4, <2>5
<1> QED  BY <1>2, <1>7 DEF s

(* Nothing is on its way at first.                                         *)
LEMMA FramesInit == Init => Frames
<1> SUFFICES ASSUME Init PROVE Frames
  OBVIOUS
<1>1. buf \o wire = <<>>  BY DEF Init
<1>2. Len(<<>>) = 0 /\ <<>> \in Seq(PhpToken)  BY EmptySeq
<1> QED  BY <1>1, <1>2 DEF Frames, InFrames, Fresh

(* A frame comes whole, and whole lines are taken.                         *)
LEMMA FramesNext ==
  ASSUME Tool = "aoq.php", Inv, Order, Frames, [Next]_vars, Meek'
  PROVE  Frames'
<1> DEFINE s == buf \o wire
<1>1. /\ asked \in Seq(Request) /\ wire \in Seq(Token) /\ buf \in Seq(Token)
      /\ s \in Seq(Token)
  BY ConcatProperties DEF Inv, Streams
<1>2. ASSUME NEW q \in Request, Ask(q) PROVE Frames'
  <2>1. /\ wire' = wire \o Frame(q) /\ asked' = Append(asked, q) /\ buf' = buf
        /\ eager' = (eager \/ served < Len(asked))
    BY <1>2 DEF Ask
  <2>2. ASSUME ~eager' PROVE \A i \in 1..Len(s) : Starts(s)[i] \notin Heads
    <3>1. ~(served < Len(asked))  BY <2>1, <2>2
    <3>2. served \in Nat /\ Len(asked) \in Nat /\ Len(done) \in Nat /\ served <= Len(done)
      <4>1. done \in Seq(Heads)  BY DEF Inv, Streams
      <4> QED  BY <1>1, <4>1, LenProperties DEF Inv, Counts
    <3>3. Len(done) >= Len(asked)  BY <3>1, <3>2
    <3> QED  BY <3>3, NoneOnItsWay
  <2>3. InFrames(s, asked, eager)  BY DEF Frames
  <2>4. Frame(q) \in Seq(Token)  BY FrameType
  <2>5. buf \o (wire \o Frame(q)) = s \o Frame(q)
    BY <1>1, <2>4, ConcatAssociative, SMTT(30)
  <2>6. Innocent(q)
    <3>1. q \in Range(asked')  BY <1>1, <2>1, RangeMore
    <3> QED  BY <3>1 DEF Meek, Innocent
  <2> HIDE DEF s
  <2>7. InFrames(s \o Frame(q), Append(asked, q), eager')
    <3> DEFINE later == eager'
    <3>1. ~later => \A i \in 1..Len(s) : Starts(s)[i] \notin Heads  BY <2>2
    <3> HIDE DEF later
    <3>2. InFrames(s \o Frame(q), Append(asked, q), later)  BY <1>1, <2>3, <2>6, <3>1, FramesMore
    <3> QED  BY <3>2 DEF later
  <2> QED  BY <2>1, <2>5, <2>7 DEF Frames
<1>3. CASE Read
  <2>1. PICK k \in 1..Len(wire) :
          LET all == buf \o SubSeq(wire, 1, k)
              rest == SubSeq(wire, k + 1, Len(wire))
          IN  /\ all \in Seq(Token) /\ all # <<>> /\ rest \in Seq(Token)
              /\ all \o rest = buf \o wire /\ wire' = rest
              /\ IF Last(all) = NL
                   THEN buf' = <<>> /\ Execute(Split(all)) /\ Split(all) \in Seq(Seq(Token))
                        /\ Split(all) # <<>> /\ Split(all)[1][1] = all[1]
                   ELSE buf' = all /\ pc' = "read" /\ UNCHANGED <<done, store, reply>>
    BY <1>3, ReadMeans DEF Inv
  <2> DEFINE all == buf \o SubSeq(wire, 1, k)
             rest == SubSeq(wire, k + 1, Len(wire))
  <2>2. /\ all \in Seq(Token) /\ rest \in Seq(Token) /\ all \o rest = s /\ wire' = rest
        /\ ((buf' = <<>> /\ Fresh(all)) \/ buf' = all)
    BY <2>1 DEF Fresh
  <2>3. asked' = asked /\ eager' = eager  BY <1>3 DEF Read, client
  <2> HIDE DEF all, rest
  <2>4. InFrames(all \o rest, asked, eager)  BY <2>2 DEF Frames
  <2>5. CASE buf' = all  BY <2>2, <2>3, <2>4, <2>5 DEF Frames
  <2>6. CASE buf' = <<>> /\ Fresh(all)
    <3>1. InFrames(rest, asked, eager)  BY <1>1, <2>2, <2>4, <2>6, FramesLess
    <3>2. buf' \o wire' = rest  BY <2>2, <2>6, ConcatSimplifications
    <3> QED  BY <2>3, <3>1, <3>2 DEF Frames
  <2> QED  BY <2>2, <2>5, <2>6
<1>4. CASE Write \/ WriteBlocks \/ UNCHANGED vars
  <2>1. wire' = wire /\ buf' = buf /\ asked' = asked /\ eager' = eager
    BY <1>4 DEF Write, WriteBlocks, vars, socket, client
  <2> QED  BY <2>1 DEF Frames
<1> QED  BY <1>2, <1>3, <1>4 DEF Next

-----------------------------------------------------------------------------
(* The items that are kept.                                                *)
Faithful(table, requests, hasty) ==
  \A name \in DOMAIN table : \A i \in 1..Len(table[name]) :
    \E q \in Range(requests) : ComesFrom(q, name, table[name][i], hasty)

(* ItemsFaithful says no more.                                             *)
LEMMA FaithfulMeans ==
  ASSUME Kept, Meek => Faithful(held, asked, eager)
  PROVE  ItemsFaithful
<1>1. ASSUME Meek, NEW name \in DOMAIN held, NEW item \in Range(held[name])
      PROVE  \E q \in Range(asked) : ComesFrom(q, name, item, eager)
  <2>1. DOMAIN held[name] = 1..Len(held[name])  BY LenProperties DEF Kept
  <2>2. PICK i \in 1..Len(held[name]) : item = held[name][i]  BY <2>1 DEF Range
  <2> QED  BY <1>1, <2>2 DEF Faithful
<1> QED  BY <1>1 DEF ItemsFaithful, ComesFrom, Meek

(* More requests, and a client that becomes hasty, take nothing from it.   *)
LEMMA FaithfulLater ==
  ASSUME NEW table, NEW requests \in Seq(Request), NEW q \in Request, NEW hasty, NEW later,
         Faithful(table, requests, hasty), hasty => later
  PROVE  Faithful(table, Append(requests, q), later)
<1>1. Range(requests) \subseteq Range(Append(requests, q))  BY RangeMore
<1>2. \A p, name, item : ComesFrom(p, name, item, hasty) => ComesFrom(p, name, item, later)
  BY DEF ComesFrom
<1> QED  BY <1>1, <1>2 DEF Faithful

(* A name in the table is its own key.                                     *)
LEMMA NameIsKey ==
  ASSUME NEW q \in Request, NEW name, NEW item, NEW hasty, ComesFrom(q, name, item, hasty)
  PROVE  Key(name) = name
<1> DEFINE asName == q.args[1]
           less == IF Len(asName) <= W - 1 THEN Len(asName) ELSE W - 1
           part == SubSeq(asName, 1, less)
<1>1. q.op = "push" /\ name = Key(ServerName(asName))  BY DEF ComesFrom
<1>2. asName \in Seq(Letter) /\ Len(asName) \in Nat
  <2>1. 1 \in 1..Len(q.args)  BY <1>1, RequestType
  <2> QED  BY <2>1, RequestType
<1>3. W \in Nat \ {0}  BY WidthAssumption
<1> HIDE DEF asName
<1>4. Min({Len(asName), W - 1}) = less
  <2>1. W - 1 \in Nat  BY <1>3
  <2> QED  BY <1>2, <2>1, MinOfTwo
<1>5. less \in 0..Len(asName)  BY <1>2, <1>3
<1> HIDE DEF less
<1>6. part \in Seq(Letter)  BY <1>2, <1>5, FirstOnes
<1>7. ServerName(asName) = Trim(part, Len(asName))  BY <1>4 DEF ServerName
<1> HIDE DEF part
<1>8. ServerName(asName) \in Seq(Letter)  BY <1>6, <1>7, TrimType
<1>9. Key(Key(ServerName(asName))) = Key(ServerName(asName))  BY <1>8, KeyType
<1> QED  BY <1>1, <1>9

(* A queue changes.                                                        *)
LEMMA FaithfulKept ==
  ASSUME NEW requests, NEW hasty, Faithful(held, requests, hasty),
         NEW name, NEW known \in BOOLEAN, NEW items, Keep(name, known, items),
         \A i \in 1..Len(items) :
           \E q \in Range(requests) : ComesFrom(q, Key(name), items[i], hasty)
  PROVE  Faithful(held', requests, hasty)
<1>1. \/ held' = [n \in DOMAIN held \cup {Key(name)} |-> IF n = Key(name) THEN items ELSE held[n]]
      \/ held' = held
  BY DEF Keep
<1>2. CASE held' = held  BY <1>2
<1>3. CASE held' = [n \in DOMAIN held \cup {Key(name)} |-> IF n = Key(name) THEN items ELSE held[n]]
  <2> DEFINE key == Key(name)
  <2> HIDE DEF key
  <2>1. /\ DOMAIN held' = DOMAIN held \cup {key} /\ held'[key] = items
        /\ \A other \in DOMAIN held \ {key} : held'[other] = held[other]
    BY <1>3 DEF key
  <2>2. \A i \in 1..Len(items) : \E q \in Range(requests) : ComesFrom(q, key, items[i], hasty)
    BY DEF key
  <2> QED  BY <2>1, <2>2 DEF Faithful
<1> QED  BY <1>1, <1>2, <1>3

(* What getQueue finds there comes from requests under the name's key.     *)
LEMMA ItemsComeFrom ==
  ASSUME Inv, Faithful(held, asked, eager), NEW name, NEW known \in BOOLEAN, Finds(name, known)
  PROVE  /\ Items(name, known) \in Seq(Item)
         /\ \A i \in 1..Len(Items(name, known)) :
              \E q \in Range(asked) : ComesFrom(q, Key(name), Items(name, known)[i], eager)
<1>1. Items(name, known) \in Seq(Item)  BY ItemsType DEF Inv
<1>2. CASE known
  <2>1. Items(name, known) = held[name] /\ name \in DOMAIN held  BY <1>2 DEF Items, Finds
  <2>2. ASSUME NEW i \in 1..Len(held[name])
        PROVE  \E q \in Range(asked) : ComesFrom(q, Key(name), held[name][i], eager)
    <3>1. PICK q \in Range(asked) : ComesFrom(q, name, held[name][i], eager)
      BY <2>1 DEF Faithful
    <3>2. q \in Request  BY RangeType DEF Inv, Streams
    <3>3. Key(name) = name  BY <3>1, <3>2, NameIsKey
    <3> QED  BY <3>1, <3>3
  <2> QED  BY <1>1, <2>1, <2>2
<1>3. CASE ~known
  <2>1. Items(name, known) = <<>>  BY <1>3 DEF Items
  <2>2. Len(Items(name, known)) = 0  BY <2>1, EmptySeq
  <2> QED  BY <1>1, <2>2
<1> QED  BY <1>2, <1>3

(* A push: the item is the last in its queue, or the queue is full.        *)
LEMMA PushKeepsFaith ==
  ASSUME Inv, Faithful(held, asked, eager), NEW q \in Range(asked), NEW slab, NEW argn,
         Push(slab, argn),
         ComesFrom(q, Key(NameOf(slab, argn[1])), PushItem(slab, argn), eager)
  PROVE  Faithful(held', asked, eager)
<1> DEFINE name == NameOf(slab, argn[1])
           item == PushItem(slab, argn)
<1>1. CASE ~HasName(slab, argn)
  <2>1. held' = held  BY <1>1 DEF Push, store
  <2> QED  BY <2>1
<1>2. CASE HasName(slab, argn)
  <2>1. PICK known \in BOOLEAN :
          /\ Finds(name, known)
          /\ Keep(name, known, IF Len(Items(name, known)) <= AoqMaxSize
                                 THEN Append(Items(name, known), item)
                                 ELSE Items(name, known))
    BY <1>2, Zenon DEF Push, PushItem
  <2>2. ComesFrom(q, Key(name), item, eager)  OBVIOUS
  <2> HIDE DEF name, item
  <2> DEFINE items == Items(name, known)
             more == Append(items, item)
  <2>3. /\ items \in Seq(Item)
        /\ \A i \in 1..Len(items) :
             \E p \in Range(asked) : ComesFrom(p, Key(name), items[i], eager)
    BY <2>1, ItemsComeFrom
  <2>4. Keep(name, known, items) \/ Keep(name, known, more)  BY <2>1
  <2> HIDE DEF items
  <2>5. CASE Keep(name, known, items)  BY <2>3, <2>5, FaithfulKept
  <2>6. CASE Keep(name, known, more)
    <3>1. /\ Len(more) = Len(items) + 1 /\ more[Len(items) + 1] = item
          /\ \A j \in 1..Len(items) : more[j] = items[j]
          /\ Len(items) \in Nat
      <4>1. items \in Seq(Item \cup {item}) /\ item \in Item \cup {item}
        <5>1. Item \subseteq Item \cup {item}  OBVIOUS
        <5> QED  BY <2>3, <5>1, SeqMonotonic
      <4> QED  BY <4>1, AppendProperties, LenProperties
    <3> HIDE DEF more
    <3>2. ASSUME NEW i \in 1..Len(more)
          PROVE  \E p \in Range(asked) : ComesFrom(p, Key(name), more[i], eager)
      <4>1. i \in 1..Len(items) \/ i = Len(items) + 1  BY <3>1
      <4>2. CASE i \in 1..Len(items)
        <5>1. more[i] = items[i]  BY <3>1, <4>2
        <5> QED  BY <2>3, <4>2, <5>1
      <4>3. CASE i = Len(items) + 1
        <5>1. more[i] = item  BY <3>1, <4>3
        <5> QED  BY <2>2, <5>1
      <4> QED  BY <4>1, <4>2, <4>3
    <3>3. Keep(name, known, more)  BY <2>6
    <3> QED  BY <3>2, <3>3, FaithfulKept
  <2> QED  BY <2>4, <2>5, <2>6
<1> QED  BY <1>1, <1>2

(* A pop takes the first item, if there is one.                            *)
LEMMA PopKeepsFaith ==
  ASSUME Inv, Faithful(held, asked, eager), NEW slab, NEW argn, Pop(slab, argn)
  PROVE  Faithful(held', asked, eager)
<1> DEFINE name == NameOf(slab, argn[1])
<1>1. CASE ~HasName(slab, argn)
  <2>1. held' = held  BY <1>1 DEF Pop, store
  <2> QED  BY <2>1
<1>2. CASE HasName(slab, argn)
  <2>1. PICK known \in BOOLEAN :
          LET items == Items(name, known) IN
            /\ Finds(name, known)
            /\ \/ items = <<>> /\ Keep(name, known, <<>>) /\ SayNothing
               \/ /\ items # <<>> /\ Head(items).len > 0
                  /\ Keep(name, known, Tail(items))
                  /\ Answer(<< <<"pop", <<Head(items).len>>>> >> \o Head(items).text)
               \/ /\ items # <<>> /\ Head(items).len = 0
                  /\ pc' = "dead" /\ UNCHANGED <<store, reply>>
    BY <1>2, Zenon DEF Pop
  <2> HIDE DEF name
  <2> DEFINE items == Items(name, known)
             none == <<>>
             few == Tail(items)
  <2>2. /\ items \in Seq(Item)
        /\ \A i \in 1..Len(items) :
             \E p \in Range(asked) : ComesFrom(p, Key(name), items[i], eager)
    BY <2>1, ItemsComeFrom
  <2>3. \/ Keep(name, known, none)
        \/ items # <<>> /\ Keep(name, known, few)
        \/ held' = held
    BY <2>1 DEF store
  <2> HIDE DEF items
  <2>4. CASE Keep(name, known, none)
    <3>1. Len(none) = 0  BY EmptySeq
    <3> HIDE DEF none
    <3>2. \A i \in 1..Len(none) : \E p \in Range(asked) : ComesFrom(p, Key(name), none[i], eager)
      BY <3>1
    <3> QED  BY <2>4, <3>2, FaithfulKept
  <2>5. CASE items # <<>> /\ Keep(name, known, few)
    <3>1. /\ Len(few) = Len(items) - 1 /\ Len(items) \in Nat
          /\ \A i \in 1..Len(few) : few[i] = items[i + 1]
      BY <2>2, <2>5, HeadTailProperties, LenProperties
    <3> HIDE DEF few
    <3>2. ASSUME NEW i \in 1..Len(few)
          PROVE  \E p \in Range(asked) : ComesFrom(p, Key(name), few[i], eager)
      <4>1. i + 1 \in 1..Len(items) /\ few[i] = items[i + 1]  BY <3>1
      <4> QED  BY <2>2, <4>1
    <3> QED  BY <2>5, <3>2, FaithfulKept
  <2>6. CASE held' = held  BY <2>6
  <2> QED  BY <2>3, <2>4, <2>5, <2>6
<1> QED  BY <1>1, <1>2

(* A request is executed: what it pushes is new and comes from it, what it *)
(* pops was there.                                                         *)
LEMMA ExecuteFaithful ==
  ASSUME Tool = "aoq.php", Meek, Inv, Faithful(held, asked, eager),
         NEW b \in Seq(PhpToken), NEW rest \in Seq(Token), b # <<>>, Last(b) = NL,
         InFrames(b \o rest, asked, eager), Execute(Split(b)), Split(b)[1][1] = b[1]
  PROVE  Faithful(held', asked, eager)
<1> DEFINE s == b \o rest
           slab == Split(b)
           head == slab[1][1]
<1>1. CASE ~IsHead(head)
  <2>1. held' = held  BY <1>1 DEF Execute, store
  <2> QED  BY <2>1
<1>2. CASE IsHead(head)
  <2>1. /\ Len(b) \in Nat \ {0} /\ Len(rest) \in Nat /\ Len(s) = Len(b) + Len(rest)
        /\ s \in Seq(Token)
        /\ \A i \in 1..Len(b) + Len(rest) : s[i] = IF i <= Len(b) THEN b[i] ELSE rest[i - Len(b)]
    <3>1. b \in Seq(Token)  BY NoZero, SeqMonotonic
    <3> QED  BY <3>1, LastOf, LenProperties, ConcatProperties
  <2>2. b[1] = head /\ head \in Heads  BY <1>2 DEF IsHead
  <2>3. InFrames(s, asked, eager)  OBVIOUS
  <2> HIDE DEF s
  <2>4. 1 \in 1..Len(s) /\ s[1] = head /\ Starts(s)[1] = head
    <3>1. 1 \in 1..Len(b) + Len(rest) /\ 1 <= Len(b)  BY <2>1
    <3>2. 1 \in 1..Len(s) /\ s[1] = head  BY <2>1, <2>2, <3>1
    <3>3. Starts(s)[1] = s[1]  BY <2>1, <3>2, StartsType
    <3> QED  BY <3>2, <3>3
  <2>5. PICK q \in Range(asked) :
          Begins(s, 1, q) /\ (~eager => 1 - 1 + Len(Frame(q)) = Len(s))
    BY <2>2, <2>3, <2>4 DEF InFrames
  <2>6. q \in Request  BY RangeType DEF Inv, Streams
  <2>7. Len(Frame(q)) \in Nat \ {0} /\ Frame(q)[1] = HeadOf(q)  BY <2>6, FrameBegins
  <2>8. \A j \in 1..Len(Frame(q)) : j <= Len(s) /\ s[j] = Frame(q)[j]
    <3>1. 1 - 1 + Len(Frame(q)) <= Len(s) /\ \A j \in 1..Len(Frame(q)) : s[1 - 1 + j] = Frame(q)[j]
      BY <2>5 DEF Begins
    <3>2. ASSUME NEW j \in 1..Len(Frame(q)) PROVE j <= Len(s) /\ s[j] = Frame(q)[j]
      <4>1. 1 - 1 + j = j /\ j <= Len(s)  BY <2>1, <2>7, <3>1
      <4> QED  BY <3>1, <4>1
    <3> QED  BY <3>2
  <2>9. head = HeadOf(q)
    <3>1. 1 \in 1..Len(Frame(q))  BY <2>7
    <3> QED  BY <2>4, <2>7, <2>8, <3>1
  <2>10. \A j \in 1..Len(b) : j <= Len(Frame(q)) => b[j] = Frame(q)[j]
    <3>1. ASSUME NEW j \in 1..Len(b), j <= Len(Frame(q)) PROVE b[j] = Frame(q)[j]
      <4>1. j \in 1..Len(Frame(q)) /\ j \in 1..Len(b) + Len(rest) /\ j <= Len(b)
        BY <2>1, <2>7, <3>1
      <4> QED  BY <2>1, <2>8, <4>1
    <3> QED  BY <3>1
  <2>11. ~eager => Len(b) <= Len(Frame(q))
    <3>1. ASSUME ~eager PROVE Len(b) <= Len(Frame(q))
      <4>1. 1 - 1 + Len(Frame(q)) = Len(s)  BY <2>5, <3>1
      <4>2. Len(Frame(q)) \in Nat  BY <2>7
      <4> QED  BY <2>1, <4>1, <4>2
    <3> QED  BY <3>1
  <2>12. /\ q.op \in {"push", "pop"} \cup Unnamed /\ head[1] = q.op
         /\ head[2] \in [1..Len(q.args) -> Nat]
         /\ \A i \in 1..Len(q.args) : head[2][i] = Len(q.args[i])
         /\ Len(q.args) = IF q.op = "push" THEN 2 ELSE IF q.op = "pop" THEN 1 ELSE 0
    BY <2>6, <2>9, HeadType, RequestType
  <2>13. /\ head[1] = "push" => Push(slab, head[2])
         /\ head[1] = "pop" => Pop(slab, head[2])
         /\ head[1] \in Unnamed => held' = held
    BY <1>2 DEF Execute, Unnamed, store
  <2>14. CASE q.op = "push"
    <3> DEFINE argn == head[2]
               n == Len(q.args[1])
               v == Len(q.args[2])
               full == [len |-> v, text |-> From(slab, MoveCursor(slab, n))]
               none == [len |-> 0, text |-> <<>>]
    <3>1. argn[1] = n /\ argn[2] = v /\ argn \in [1..2 -> Nat]
      <4>1. 1 \in 1..Len(q.args) /\ 2 \in 1..Len(q.args)  BY <2>12, <2>14
      <4> QED  BY <2>12, <2>14, <4>1
    <3>2. Push(slab, argn)  BY <2>12, <2>13, <2>14
    <3>3. NL \notin Range(q.args[1])  BY <2>14 DEF Meek, Innocent
    <3>4. /\ ComesFrom(q, Key(NameOf(slab, n)), full, eager)
          /\ v = 0 => ComesFrom(q, Key(NameOf(slab, n)), none, eager)
      BY <2>6, <2>10, <2>11, <2>14, <3>3, PushFaithful
    <3> HIDE DEF slab, head, n, v, argn
    <3>5. Len(argn) = 2 /\ argn[1] \in Nat /\ argn[2] \in Nat
      <4>1. argn \in Seq(Nat) /\ DOMAIN argn = 1..2
        <5>1. 2 \in Nat /\ argn \in [1..2 -> Nat]  BY <3>1
        <5>2. DOMAIN argn = 1..2 /\ argn = [i \in 1..2 |-> argn[i]]
              /\ \A i \in 1..2 : argn[i] \in Nat
          BY <5>1
        <5>3. [i \in 1..2 |-> argn[i]] \in Seq(Nat)  BY <5>2
        <5> QED  BY <5>2, <5>3
      <4>2. Len(argn) \in Nat /\ 1..2 = 1..Len(argn)  BY <4>1, LenProperties
      <4> QED  BY <3>1, <4>2
    <3>6. PushItem(slab, argn) = IF v > 0 THEN full ELSE none
      BY <3>1, <3>5 DEF PushItem
    <3>7. v \in Nat  BY <3>1, <3>5
    <3>8. ComesFrom(q, Key(NameOf(slab, argn[1])), PushItem(slab, argn), eager)
      <4> HIDE DEF full, none
      <4>1. CASE v > 0  BY <3>1, <3>4, <3>6, <4>1
      <4>2. CASE ~(v > 0)
        <5>1. v = 0  BY <3>7, <4>2
        <5> QED  BY <3>1, <3>4, <3>6, <4>2, <5>1
      <4> QED  BY <4>1, <4>2
    <3> QED  BY <3>2, <3>8, PushKeepsFaith
  <2>15. CASE q.op = "pop"
    <3>1. Pop(slab, head[2])  BY <2>12, <2>13, <2>15
    <3> HIDE DEF slab, head
    <3> QED  BY <3>1, PopKeepsFaith
  <2>16. CASE q.op \in Unnamed
    <3>1. held' = held  BY <2>12, <2>13, <2>16
    <3> QED  BY <3>1
  <2> QED  BY <2>12, <2>14, <2>15, <2>16
<1> QED  BY <1>1, <1>2

(* The step as a whole.                                                    *)
LEMMA FaithfulNext ==
  ASSUME Tool = "aoq.php", Meek, Inv, Frames, Faithful(held, asked, eager), [Next]_vars
  PROVE  Faithful(held, asked, eager)'
<1>1. ASSUME NEW q \in Request, Ask(q) PROVE Faithful(held, asked, eager)'
  <2>1. /\ asked' = Append(asked, q) /\ held' = held
        /\ eager' = (eager \/ served < Len(asked))
    BY <1>1 DEF Ask, store
  <2>2. asked \in Seq(Request)  BY DEF Inv, Streams
  <2> DEFINE later == eager'
  <2>3. eager => later  BY <2>1
  <2> HIDE DEF later
  <2>4. Faithful(held, Append(asked, q), later)  BY <2>2, <2>3, FaithfulLater
  <2>5. Faithful(held', asked', later)  BY <2>1, <2>4
  <2> QED  BY <2>5 DEF later
<1>2. CASE Read
  <2>1. PICK k \in 1..Len(wire) :
          LET all == buf \o SubSeq(wire, 1, k)
              rest == SubSeq(wire, k + 1, Len(wire))
          IN  /\ all \in Seq(Token) /\ all # <<>> /\ rest \in Seq(Token)
              /\ all \o rest = buf \o wire /\ wire' = rest
              /\ IF Last(all) = NL
                   THEN buf' = <<>> /\ Execute(Split(all)) /\ Split(all) \in Seq(Seq(Token))
                        /\ Split(all) # <<>> /\ Split(all)[1][1] = all[1]
                   ELSE buf' = all /\ pc' = "read" /\ UNCHANGED <<done, store, reply>>
    BY <1>2, ReadMeans DEF Inv
  <2> DEFINE all == buf \o SubSeq(wire, 1, k)
             rest == SubSeq(wire, k + 1, Len(wire))
  <2>2. /\ all \in Seq(Token) /\ all # <<>> /\ rest \in Seq(Token) /\ all \o rest = buf \o wire
        /\ Last(all) = NL => Execute(Split(all)) /\ Split(all)[1][1] = all[1]
        /\ Last(all) # NL => held' = held
    BY <2>1 DEF store
  <2>3. asked' = asked /\ eager' = eager  BY <1>2 DEF Read, client
  <2> HIDE DEF all, rest
  <2>4. InFrames(all \o rest, asked, eager)  BY <2>2 DEF Frames
  <2>5. all \in Seq(PhpToken)
    <3>1. all \o rest \in Seq(PhpToken)  BY <2>4 DEF InFrames
    <3>2. /\ Len(all) \in Nat /\ Len(rest) \in Nat /\ Len(all \o rest) = Len(all) + Len(rest)
          /\ \A i \in 1..Len(all) + Len(rest) :
               (all \o rest)[i] = IF i <= Len(all) THEN all[i] ELSE rest[i - Len(all)]
      BY <2>2, LenProperties, ConcatProperties
    <3>3. ASSUME NEW i \in 1..Len(all) PROVE all[i] \in PhpToken
      <4>1. i \in 1..Len(all) + Len(rest) /\ i <= Len(all) /\ i \in 1..Len(all \o rest)
        BY <3>2
      <4>2. (all \o rest)[i] = all[i]  BY <3>2, <4>1
      <4> QED  BY <3>1, <4>1, <4>2, ElementOfSeq
    <3> QED  BY <2>2, <3>3, LenProperties, SeqDef
  <2>6. CASE Last(all) # NL  BY <2>2, <2>3, <2>6
  <2>7. CASE Last(all) = NL
    <3>1. Faithful(held', asked, eager)  BY <2>2, <2>4, <2>5, <2>7, ExecuteFaithful
    <3> QED  BY <2>3, <3>1
  <2> QED  BY <2>6, <2>7
<1>3. CASE Write \/ WriteBlocks \/ UNCHANGED vars
  <2>1. held' = held /\ asked' = asked /\ eager' = eager
    BY <1>3 DEF Write, WriteBlocks, vars, client, store
  <2> QED  BY <2>1
<1> QED  BY <1>1, <1>2, <1>3 DEF Next

(* What a request that nobody has hidden another in pushes is what comes   *)
(* to lie in its queue: an item begins with the value, whatever else was   *)
(* read with the request, and is nothing but that value if the client      *)
(* waited, for any requests of aoq.php of which no line but the first      *)
(* begins with a head, any size of chunks, names longer than the table     *)
(* keeps, full queues and any pieces the requests are read in.  A value    *)
(* with a newline where a chunk ends is cut there.                         *)
THEOREM ItemsAreFaithful ==
  ASSUME Tool = "aoq.php"
  PROVE  Spec => []ItemsFaithful
<1> DEFINE Faith == Meek => Order /\ Frames /\ Faithful(held, asked, eager)
<1>1. Init => Faith
  <2>1. Init => DOMAIN held = {}  BY EmptySeq DEF Init
  <2>2. Init => Faithful(held, asked, eager)  BY <2>1 DEF Faithful
  <2> QED  BY <2>2, OrderInit, FramesInit
<1>2. Inv /\ Faith /\ [Next]_vars => Faith'
  <2> SUFFICES ASSUME Inv, Faith, [Next]_vars, Meek'
               PROVE  Order' /\ Frames' /\ Faithful(held, asked, eager)'
    OBVIOUS
  <2>1. Meek  BY MeekBefore
  <2>2. Order /\ Frames /\ Faithful(held, asked, eager)  BY <2>1
  <2>3. Fresh(buf \o wire)  BY <2>2 DEF Frames, InFrames
  <2>4. Order'  BY <2>2, <2>3, OrderNext
  <2>5. Frames'  BY <2>2, FramesNext
  <2>6. Faithful(held, asked, eager)'  BY <2>1, <2>2, FaithfulNext
  <2> QED  BY <2>4, <2>5, <2>6
<1>3. Inv /\ Faith => ItemsFaithful  BY FaithfulMeans DEF Inv
<1> HIDE DEF Faith
<1> QED  BY InitInv, NextInv, <1>1, <1>2, <1>3, PTL DEF Spec

(* What has been written of an answer, also after it was taken back to     *)
(* before its first token.                                                 *)
Begun(position) == IF position < 0 THEN 0 ELSE position

(* More of s is found when more of it is written, behind its first base    *)
(* tokens: stray tokens, and tokens that are written again, are passed.    *)
LEMMA FoundWritten ==
  ASSUME NEW S, NEW s \in Seq(S), NEW U, NEW t \in Seq(U), NEW w \in Seq(U),
         NEW base \in Nat, NEW from \in Int, base + from + Len(w) <= Len(s),
         \A i \in 1..Len(w) : from + i >= 1 => w[i] = s[base + from + i],
         Found(s, t) >= base + Begun(from)
  PROVE  Found(s, t \o w) >= base + Begun(from + Len(w))
<1> DEFINE Good(n) == {g \in Seq(U) : Found(s, g) >= base + Begun(from + n)}
           G == [n \in 0..Len(w) |-> Good(n)]
<1>1. Len(s) \in Nat /\ Len(w) \in Nat  BY LenProperties
<1>2. t \in G[0]
  <2>1. from + 0 = from  OBVIOUS
  <2> QED  BY <1>1, <2>1
<1>3. ASSUME NEW n \in 0..Len(w) - 1, NEW g \in Seq(U), g \in G[n]
      PROVE  Append(g, w[n + 1]) \in G[n + 1]
  <2>1. n \in 0..Len(w) /\ n + 1 \in 0..Len(w) /\ n + 1 \in 1..Len(w)  BY <1>1
  <2> DEFINE x == w[n + 1]
             m == Found(s, g)
             p == from + n
             len == Len(s)
  <2>2. x \in U  BY <2>1, ElementOfSeq
  <2>3. Append(g, x) \in Seq(U)  BY <2>2, AppendProperties
  <2>4. m >= base + Begun(p)  BY <1>3, <2>1
  <2>5. m \in 0..len /\ len \in Nat  BY <1>1, FoundType
  <2>6. Found(s, Append(g, x)) = IF m < len /\ s[m + 1] = x THEN m + 1 ELSE m
    BY <2>2, FoundInAppend
  <2>7. p + 1 >= 1 => x = s[base + p + 1]
    <3>1. ASSUME p + 1 >= 1 PROVE x = s[base + p + 1]
      <4>1. from + (n + 1) >= 1 /\ base + from + (n + 1) = base + p + 1  BY <2>1, <3>1
      <4>2. w[n + 1] = s[base + from + (n + 1)]  BY <2>1, <4>1
      <4> QED  BY <4>1, <4>2
    <3> QED  BY <3>1
  <2>8. p \in Int /\ base + p + 1 <= len /\ from + (n + 1) = p + 1  BY <1>1, <2>1
  <2> HIDE DEF m, x, p, len
  <2>9. Found(s, Append(g, x)) >= base + Begun(p + 1)
    <3>1. CASE p + 1 <= 0
      <4>1. Begun(p) = 0 /\ Begun(p + 1) = 0  BY <2>8, <3>1 DEF Begun
      <4> QED  BY <2>4, <2>5, <2>6, <4>1
    <3>2. CASE p + 1 >= 1
      <4>1. Begun(p) = p /\ Begun(p + 1) = p + 1  BY <2>8, <3>2 DEF Begun
      <4>2. CASE m = base + p
        <5>1. s[m + 1] = x /\ m < len
          <6>1. m + 1 = base + p + 1  BY <4>2
          <6> QED  BY <2>5, <2>7, <2>8, <3>2, <6>1
        <5> QED  BY <2>5, <2>6, <2>8, <4>1, <4>2, <5>1
      <4>3. CASE m # base + p
        <5>1. m >= base + (p + 1)  BY <2>4, <2>5, <2>8, <4>1, <4>3
        <5> QED  BY <2>5, <2>6, <2>8, <4>1, <5>1
      <4> QED  BY <4>2, <4>3
    <3> QED  BY <2>8, <3>1, <3>2
  <2>10. Append(g, x) \in Good(n + 1)  BY <2>3, <2>8, <2>9
  <2> HIDE DEF Good
  <2> QED  BY <2>1, <2>10 DEF x
<1> HIDE DEF G
<1>4. t \o w \in G[Len(w)]  BY <1>2, <1>3, GrowthKeeps
<1> QED  BY <1>1, <1>4 DEF G

(* What a FIFO has said after some requests is a recursive function, too.  *)
FifoBody(requests, fifo, n) == IF n = 0 THEN Fifo ELSE Serve(fifo[n - 1], requests[n])

FifoUpTo(requests) == CHOOSE fifo : fifo = [n \in 0..Len(requests) |-> FifoBody(requests, fifo, n)]

(* The two names of it.                                                    *)
LEMMA FifoIsFifoUpTo ==
  ASSUME NEW r
  PROVE  FifoAfter(r) = FifoUpTo(r)[Len(r)]
BY Zenon DEF FifoAfter, FifoUpTo, FifoBody

(* It satisfies its equation.                                              *)
LEMMA FifoEquation ==
  ASSUME NEW t, Len(t) \in Nat
  PROVE  \A n \in 0..Len(t) : FifoUpTo(t)[n] = FifoBody(t, FifoUpTo(t), n)
<1> DEFINE Eq(h, m) == h = [n \in 0..m |-> FifoBody(t, h, n)]
           T == {m \in Nat : \E h : Eq(h, m)}
<1>1. 0 \in T
  <2> DEFINE h == [n \in 0..0 |-> FifoBody(t, <<>>, n)]
  <2>1. FifoBody(t, h, 0) = FifoBody(t, <<>>, 0)  BY DEF FifoBody
  <2>2. Eq(h, 0)  BY <2>1
  <2> QED  BY <2>2
<1>2. ASSUME NEW m \in Nat, m \in T PROVE m + 1 \in T
  <2>1. PICK h : Eq(h, m)  BY <1>2
  <2> DEFINE g == [n \in 0..(m + 1) |-> FifoBody(t, h, n)]
  <2>2. \A n \in 0..m : g[n] = h[n]  BY <2>1
  <2>3. ASSUME NEW n \in 0..(m + 1) PROVE FifoBody(t, g, n) = FifoBody(t, h, n)
    <3>1. CASE n = 0  BY <3>1 DEF FifoBody
    <3>2. CASE n # 0
      <4> HIDE DEF g
      <4>1. n - 1 \in 0..m  BY <3>2
      <4>2. g[n - 1] = h[n - 1]  BY <4>1, <2>2
      <4> QED  BY <4>2 DEF FifoBody
    <3> QED  BY <3>1, <3>2
  <2>4. Eq(g, m + 1)  BY <2>3
  <2>5. m + 1 \in Nat  OBVIOUS
  <2> HIDE DEF Eq, g
  <2> QED  BY <2>4, <2>5, Zenon
<1>3. Len(t) \in T
  <2> HIDE DEF T
  <2> QED  BY <1>1, <1>2, Induction
<1>4. \E h : Eq(h, Len(t))  BY <1>3
<1>5. FifoUpTo(t) = CHOOSE h : Eq(h, Len(t))  BY Zenon DEF FifoUpTo
<1>6. Eq(FifoUpTo(t), Len(t))
  <2> HIDE DEF Eq
  <2> QED  BY <1>4, <1>5, Zenon
<1> QED  BY <1>6

(* What is said does not depend on what follows.                           *)
LEMMA FifoPrefix ==
  ASSUME NEW t, NEW u, Len(t) \in Nat, Len(u) \in Nat, Len(t) <= Len(u),
         \A i \in 1..Len(t) : t[i] = u[i]
  PROVE  FifoUpTo(u)[Len(t)] = FifoUpTo(t)[Len(t)]
<1> DEFINE T == {n \in Nat : n <= Len(t) => FifoUpTo(u)[n] = FifoUpTo(t)[n]}
<1>1. \A n \in 0..Len(t) : FifoUpTo(t)[n] = FifoBody(t, FifoUpTo(t), n)
  BY FifoEquation
<1>2. \A n \in 0..Len(t) : FifoUpTo(u)[n] = FifoBody(u, FifoUpTo(u), n)
  BY FifoEquation
<1>3. 0 \in T  BY <1>1, <1>2 DEF FifoBody
<1>4. ASSUME NEW n \in Nat, n \in T PROVE n + 1 \in T
  <2>1. CASE n + 1 <= Len(t)
    <3>1. n + 1 # 0 /\ n + 1 - 1 = n /\ n + 1 \in 0..Len(t) /\ t[n + 1] = u[n + 1]
      BY <2>1
    <3>2. FifoUpTo(u)[n] = FifoUpTo(t)[n]  BY <1>4, <2>1
    <3>3. FifoUpTo(t)[n + 1] = FifoBody(t, FifoUpTo(t), n + 1)  BY <1>1, <3>1
    <3>4. FifoUpTo(u)[n + 1] = FifoBody(u, FifoUpTo(u), n + 1)  BY <1>2, <3>1
    <3>5. FifoBody(t, FifoUpTo(t), n + 1) = FifoBody(u, FifoUpTo(u), n + 1)
      BY <3>1, <3>2 DEF FifoBody
    <3> QED  BY <3>3, <3>4, <3>5
  <2>2. CASE ~(n + 1 <= Len(t))  BY <2>2
  <2> QED  BY <2>1, <2>2
<1>5. Len(t) \in T
  <2> HIDE DEF T
  <2> QED  BY <1>3, <1>4, Induction
<1> QED  BY <1>5

(* Of no requests.                                                         *)
LEMMA FifoOfNone == FifoAfter(<<>>) = Fifo
<1>1. Len(<<>>) = 0  BY EmptySeq
<1>2. FifoAfter(<<>>) = FifoUpTo(<<>>)[0]  BY <1>1, FifoIsFifoUpTo
<1> QED  BY <1>1, <1>2, FifoEquation DEF FifoBody

(* A request more.                                                         *)
LEMMA FifoOfAppend ==
  ASSUME NEW S, NEW t \in Seq(S), NEW q \in S
  PROVE  FifoAfter(Append(t, q)) = Serve(FifoAfter(t), q)
<1> DEFINE u == Append(t, q)
<1>1. /\ Len(t) \in Nat /\ Len(u) = Len(t) + 1 /\ Len(u) \in Nat
      /\ u[Len(t) + 1] = q /\ \A i \in 1..Len(t) : u[i] = t[i]
  BY AppendProperties, LenProperties
<1> HIDE DEF u
<1>2. FifoUpTo(u)[Len(t)] = FifoUpTo(t)[Len(t)]  BY <1>1, FifoPrefix
<1>3. FifoUpTo(u)[Len(u)] = FifoBody(u, FifoUpTo(u), Len(u))  BY <1>1, FifoEquation
<1>4. Len(u) # 0 /\ Len(u) - 1 = Len(t) /\ u[Len(u)] = q  BY <1>1
<1>5. FifoAfter(t) = FifoUpTo(u)[Len(u) - 1]  BY <1>2, <1>4, FifoIsFifoUpTo
<1>6. FifoUpTo(u)[Len(u)] = Serve(FifoAfter(t), q)
  BY <1>3, <1>4, <1>5 DEF FifoBody
<1> QED  BY <1>6, FifoIsFifoUpTo DEF u

(* What it does with a plain request and what it answers.  The values of   *)
(* plain requests are not empty.                                           *)
Value == {v \in Seq(Letter) : v # <<>>}
Fifos == [held : [Names -> Seq(Value)], said : Seq(Said)]

Held(fifo, q) ==
  IF q.op \in Unnamed THEN fifo.held
  ELSE LET name == q.args[1]
           values == fifo.held[name]
       IN  [fifo.held EXCEPT ![name] =
              IF q.op = "push"
                THEN IF Len(values) <= AoqMaxSize THEN Append(values, ValueOf(q)) ELSE values
                ELSE IF values = <<>> THEN <<>> ELSE Tail(values)]

Reply(fifo, q) ==
  LET values == fifo.held[q.args[1]] IN
    IF q.op # "pop" THEN << <<q.op, <<1>>>>, ONE, NL>>
    ELSE IF values = <<>> THEN << <<"pop", <<0>>>>, NL>>
    ELSE << <<"pop", <<Len(values[1])>>>> >> \o (values[1] \o <<NL>>)

PlainRequest == {q \in Request : Plain(q)}

(* The names of the FIFO are those that requests are about.                *)
LEMMA Named ==
  ASSUME NEW q \in Request, q.op \notin Unnamed
  PROVE  q.args[1] \in Names
BY DEF Names

(* A step of the FIFO.                                                     *)
LEMMA ServeMeans ==
  ASSUME NEW fifo \in Fifos, NEW q \in PlainRequest
  PROVE  /\ Serve(fifo, q) \in Fifos
         /\ Serve(fifo, q).held = Held(fifo, q)
         /\ Serve(fifo, q).said = fifo.said \o Reply(fifo, q)
         /\ Reply(fifo, q) \in Seq(Said)
<1> DEFINE name == q.args[1]
           values == fifo.held[name]
           after == Serve(fifo, q)
<1>0. q \in Request /\ Plain(q)  BY DEF PlainRequest
<1>1. /\ q.op \in {"push", "pop"} \cup Unnamed
      /\ \A i \in 1..Len(q.args) : q.args[i] \in Seq(Letter)
      /\ Len(q.args) = IF q.op = "push" THEN 2 ELSE IF q.op = "pop" THEN 1 ELSE 0
  BY <1>0, RequestType
<1>2. /\ fifo.held \in [Names -> Seq(Value)] /\ fifo.said \in Seq(Said)
      /\ fifo = [held |-> fifo.held, said |-> fifo.said]
  BY DEF Fifos
<1>3. ONE \in Said /\ NL \in Said /\ Letter \subseteq Said  BY DEF Said, Token
<1>4. ASSUME NEW op \in {"push", "pop"} \cup Unnamed, NEW n \in Nat PROVE <<op, <<n>>>> \in Said
  <2>1. <<n>> \in Seq(Nat)  OBVIOUS
  <2> QED  BY <2>1 DEF Said, Token, Heads
<1>5. ASSUME NEW h \in [Names -> Seq(Value)], NEW r \in Seq(Said),
             after = [held |-> h, said |-> fifo.said \o r],
             h = Held(fifo, q), r = Reply(fifo, q)
      PROVE  /\ after \in Fifos /\ after.held = Held(fifo, q)
             /\ after.said = fifo.said \o Reply(fifo, q) /\ Reply(fifo, q) \in Seq(Said)
  <2>1. fifo.said \o r \in Seq(Said)  BY <1>2, ConcatProperties
  <2> QED  BY <1>5, <2>1 DEF Fifos
<1>6. CASE q.op \in Unnamed
  <2> DEFINE r == << <<q.op, <<1>>>>, ONE, NL>>
  <2>1. r \in Seq(Said)
    <3>1. <<q.op, <<1>>>> \in Said  BY <1>4, <1>6
    <3> QED  BY <1>3, <3>1
  <2>2. q.op # "push" /\ q.op # "pop"  BY <1>6 DEF Unnamed
  <2>3. after = [held |-> fifo.held, said |-> fifo.said \o r]  BY <1>2, <1>6, <2>2 DEF Serve
  <2>4. Held(fifo, q) = fifo.held /\ Reply(fifo, q) = r  BY <1>6, <2>2 DEF Held, Reply
  <2> HIDE DEF r, after
  <2> QED  BY <1>2, <1>5, <2>1, <2>3, <2>4 DEF after
<1>7. CASE q.op = "push"
  <2> DEFINE r == << <<"push", <<1>>>>, ONE, NL>>
             more == IF Len(values) <= AoqMaxSize THEN Append(values, ValueOf(q)) ELSE values
             h == [fifo.held EXCEPT ![name] = more]
  <2>1. r \in Seq(Said)
    <3>1. <<"push", <<1>>>> \in Said  BY <1>4
    <3> QED  BY <1>3, <3>1
  <2>2. q.op \notin Unnamed  BY <1>7 DEF Unnamed
  <2>3. name \in Names /\ ValueOf(q) \in Value
    <3>1. ValueOf(q) # <<>>  BY <1>0, <1>7 DEF Plain
    <3> QED  BY <1>0, <1>1, <1>7, <2>2, <3>1, Named DEF ValueOf, Value
  <2>4. h \in [Names -> Seq(Value)]
    <3>1. values \in Seq(Value)  BY <1>2, <2>3
    <3>2. Append(values, ValueOf(q)) \in Seq(Value)  BY <2>3, <3>1, AppendProperties
    <3>3. more \in Seq(Value)  BY <3>1, <3>2
    <3> HIDE DEF more
    <3> QED  BY <1>2, <3>3
  <2>5. after = [held |-> h, said |-> fifo.said \o r]  BY <1>7, <2>2 DEF Serve
  <2>6. Held(fifo, q) = h /\ Reply(fifo, q) = r  BY <1>7, <2>2 DEF Held, Reply
  <2> HIDE DEF r, h, after
  <2> QED  BY <1>5, <2>1, <2>4, <2>5, <2>6 DEF after
<1>8. CASE q.op = "pop" /\ values = <<>>
  <2> DEFINE r == << <<"pop", <<0>>>>, NL>>
  <2>1. r \in Seq(Said)
    <3>1. <<"pop", <<0>>>> \in Said  BY <1>4
    <3> QED  BY <1>3, <3>1
  <2>2. q.op \notin Unnamed /\ q.op # "push"  BY <1>8 DEF Unnamed
  <2>3. after = [held |-> fifo.held, said |-> fifo.said \o r]  BY <1>2, <1>8, <2>2 DEF Serve
  <2>4. name \in Names  BY <1>0, <2>2, Named
  <2>5. Held(fifo, q) = fifo.held
    <3>1. Held(fifo, q) = [fifo.held EXCEPT ![name] = <<>>]  BY <1>8, <2>2 DEF Held
    <3>2. fifo.held[name] = <<>>  BY <1>8
    <3> QED  BY <1>2, <2>4, <3>1, <3>2
  <2>6. Reply(fifo, q) = r  BY <1>8, <2>2 DEF Reply
  <2> HIDE DEF r, after
  <2> QED  BY <1>2, <1>5, <2>1, <2>3, <2>5, <2>6 DEF after
<1>9. CASE q.op = "pop" /\ values # <<>>
  <2> DEFINE r == << <<"pop", <<Len(values[1])>>>> >> \o (values[1] \o <<NL>>)
             h == [fifo.held EXCEPT ![name] = Tail(values)]
  <2>1. q.op \notin Unnamed /\ q.op # "push"  BY <1>9 DEF Unnamed
  <2>2. name \in Names  BY <1>0, <2>1, Named
  <2>3. values \in Seq(Value) /\ Tail(values) \in Seq(Value) /\ values[1] \in Seq(Letter)
    <3>1. values \in Seq(Value)  BY <1>2, <2>2
    <3>2. Len(values) \in Nat \ {0}  BY <1>9, <3>1, LastOf
    <3>3. values[1] \in Value
      <4> HIDE DEF values
      <4>1. 1 \in 1..Len(values)  BY <3>2
      <4> QED  BY <3>1, <4>1, ElementOfSeq
    <3>4. Tail(values) \in Seq(Value)  BY <1>9, <3>1, HeadTailProperties
    <3> QED  BY <3>1, <3>3, <3>4 DEF Value
  <2>4. h \in [Names -> Seq(Value)]  BY <1>2, <2>3
  <2>5. r \in Seq(Said)
    <3>1. Len(values[1]) \in Nat  BY <2>3, LenProperties
    <3>2. <<"pop", <<Len(values[1])>>>> \in Said  BY <1>4, <3>1
    <3>3. values[1] \in Seq(Said)  BY <1>3, <2>3, SeqMonotonic
    <3>4. values[1] \o <<NL>> \in Seq(Said)
      <4>1. <<NL>> \in Seq(Said)  BY <1>3
      <4> QED  BY <3>3, <4>1, ConcatProperties
    <3>5. << <<"pop", <<Len(values[1])>>>> >> \in Seq(Said)  BY <3>2
    <3> QED  BY <3>4, <3>5, ConcatProperties
  <2>6. after = [held |-> h, said |-> fifo.said \o r]  BY <1>9, <2>1, SMTT(30) DEF Serve
  <2>7. Held(fifo, q) = h /\ Reply(fifo, q) = r  BY <1>9, <2>1, Zenon DEF Held, Reply
  <2> HIDE DEF r, h, after
  <2> QED  BY <1>5, <2>4, <2>5, <2>6, <2>7 DEF after
<1> QED  BY <1>1, <1>6, <1>7, <1>8, <1>9

(* And after any plain requests it is a FIFO.                              *)
LEMMA FifoType ==
  ASSUME NEW requests \in Seq(PlainRequest)
  PROVE  FifoAfter(requests) \in Fifos
<1> DEFINE All == {r \in Seq(PlainRequest) : FifoAfter(r) \in Fifos}
           G == [n \in 0..Len(requests) |-> All]
<1>1. Len(requests) \in Nat  BY LenProperties
<1>2. <<>> \in Seq(PlainRequest) /\ <<>> \in G[0]
  <2>1. <<>> \in Seq(PlainRequest) /\ <<>> \in Seq(Value) /\ <<>> \in Seq(Said)  BY EmptySeq
  <2>2. Fifo \in Fifos  BY <2>1 DEF Fifo, Fifos
  <2> QED  BY <1>1, <2>1, <2>2, FifoOfNone
<1>3. ASSUME NEW n \in 0..Len(requests) - 1, NEW g \in Seq(PlainRequest), g \in G[n]
      PROVE  Append(g, requests[n + 1]) \in G[n + 1]
  <2>1. n \in 0..Len(requests) /\ n + 1 \in 0..Len(requests) /\ n + 1 \in 1..Len(requests)
    BY <1>1
  <2>2. requests[n + 1] \in PlainRequest  BY <2>1, ElementOfSeq
  <2>3. Append(g, requests[n + 1]) \in Seq(PlainRequest)  BY <2>2, AppendProperties
  <2>4. FifoAfter(g) \in Fifos  BY <1>3, <2>1
  <2>5. FifoAfter(Append(g, requests[n + 1])) = Serve(FifoAfter(g), requests[n + 1])
    BY <2>2, FifoOfAppend
  <2>6. FifoAfter(Append(g, requests[n + 1])) \in Fifos  BY <2>2, <2>4, <2>5, ServeMeans
  <2> QED  BY <2>1, <2>3, <2>6
<1> HIDE DEF G
<1>4. <<>> \o requests \in G[Len(requests)]  BY <1>2, <1>3, GrowthKeeps
<1>5. <<>> \o requests = requests  BY ConcatEmptySeq
<1> QED  BY <1>1, <1>4, <1>5 DEF G

-----------------------------------------------------------------------------
(* Plain requests.  The newline at its end is the only one in a frame.     *)
LEMMA OneNewline ==
  ASSUME Tool = "aoq.php", NEW q \in Request, Plain(q)
  PROVE  /\ Frame(q) \in Seq(PhpToken) /\ Frame(q) # <<>> /\ Last(Frame(q)) = NL
         /\ \A i \in 1..Len(Frame(q)) : Frame(q)[i] = NL => i = Len(Frame(q))
<1> DEFINE Inner == Letter \ {NL}
           h == <<HeadOf(q)>>
           f == FlattenSeq(q.args)
           S == Inner \cup {HeadOf(q)}
<1>1. /\ q.args \in Seq(Seq(Letter)) /\ Len(q.args) \in Nat /\ DOMAIN q.args = 1..Len(q.args)
      /\ \A i \in 1..Len(q.args) : q.args[i] \in Seq(Letter)
  BY RequestType
<1>2. q.args \in Seq(Seq(Inner))
  <2>1. ASSUME NEW i \in 1..Len(q.args) PROVE q.args[i] \in Seq(Inner)
    <3> DEFINE a == q.args[i]
    <3>1. a \in Seq(Letter) /\ NL \notin Range(a)
      <4>1. NL \notin UNION {Range(q.args[j]) : j \in DOMAIN q.args}  BY DEF Plain
      <4> QED  BY <1>1, <4>1
    <3> HIDE DEF a
    <3>2. \A j \in 1..Len(a) : a[j] \in Letter /\ a[j] # NL
      BY <3>1, LenProperties, ElementOfSeq DEF Range
    <3>3. a \in Seq(Inner)  BY <3>1, <3>2, LenProperties, SeqDef
    <3> QED  BY <3>3 DEF a
  <2> DEFINE R == Seq(Inner)
             args == q.args
  <2>2. args \in Seq(Seq(Letter)) /\ \A i \in 1..Len(args) : args[i] \in R  BY <1>1, <2>1
  <2> HIDE DEF R, args
  <2>3. Len(args) \in Nat /\ args = [i \in 1..Len(args) |-> args[i]]  BY <2>2, LenProperties
  <2>4. args \in [1..Len(args) -> R]  BY <2>2, <2>3
  <2>5. args \in Seq(R)  BY <2>3, <2>4, SeqDef
  <2> QED  BY <2>5 DEF R, args
<1>3. f \in Seq(Inner)  BY <1>2, FlattenType
<1>4. NL \notin S  BY HeadType, TokenAssumption
<1>5. h \o f \in Seq(S)
  <2>1. Inner \subseteq S /\ HeadOf(q) \in S  OBVIOUS
  <2>2. h \in Seq(S)  BY <2>1
  <2> HIDE DEF f, Inner, S, h
  <2>3. f \in Seq(S)  BY <1>3, <2>1, SeqMonotonic
  <2> QED  BY <2>2, <2>3, ConcatProperties
<1>6. Frame(q) = (h \o f) \o <<NL>>  BY Zenon DEF Frame, PhpFrame, Framed
<1> DEFINE hf == h \o f
<1>7. hf \in Seq(S) /\ Frame(q) = hf \o <<NL>>  BY <1>5, <1>6
<1> HIDE DEF hf, S
<1>8. /\ Len(hf) \in Nat /\ \A i \in 1..Len(hf) : hf[i] # NL
      /\ Len(Frame(q)) = Len(hf) + 1
      /\ \A i \in 1..Len(hf) + 1 : Frame(q)[i] = IF i <= Len(hf) THEN hf[i] ELSE <<NL>>[i - Len(hf)]
  <2>1. Len(hf) \in Nat /\ \A i \in 1..Len(hf) : hf[i] \in S  BY <1>7, LenProperties, ElementOfSeq
  <2>2. hf \in Seq(S \cup {NL}) /\ <<NL>> \in Seq(S \cup {NL}) /\ Len(<<NL>>) = 1
    <3>1. S \subseteq S \cup {NL} /\ NL \in S \cup {NL}  OBVIOUS
    <3> DEFINE R == S \cup {NL}
    <3> HIDE DEF R
    <3>2. hf \in Seq(R) /\ <<NL>> \in Seq(R)  BY <1>7, <3>1, SeqMonotonic DEF R
    <3> QED  BY <3>2 DEF R
  <2>3. /\ Len(hf \o <<NL>>) = Len(hf) + Len(<<NL>>)
        /\ \A i \in 1..Len(hf) + Len(<<NL>>) :
             (hf \o <<NL>>)[i] = IF i <= Len(hf) THEN hf[i] ELSE <<NL>>[i - Len(hf)]
    BY <2>2, ConcatProperties
  <2> QED  BY <1>4, <1>7, <2>1, <2>2, <2>3
<1>9. ASSUME NEW i \in 1..Len(Frame(q)), Frame(q)[i] = NL PROVE i = Len(Frame(q))
  <2>1. i \in 1..Len(hf) \/ i = Len(hf) + 1  BY <1>8
  <2>2. CASE i \in 1..Len(hf)
    <3>1. i \in 1..Len(hf) + 1 /\ i <= Len(hf)  BY <1>8, <2>2
    <3>2. Frame(q)[i] = hf[i]  BY <1>8, <3>1
    <3> QED  BY <1>8, <1>9, <2>2, <3>2
  <2> QED  BY <1>8, <2>1, <2>2
<1>10. Frame(q)[Len(Frame(q))] = NL
  <2>1. Len(hf) + 1 \in 1..Len(hf) + 1 /\ ~(Len(hf) + 1 <= Len(hf)) /\ (Len(hf) + 1) - Len(hf) = 1
    BY <1>8
  <2> QED  BY <1>8, <2>1
<1>11. Frame(q) \in Seq(PhpToken) /\ Len(Frame(q)) \in Nat \ {0}  BY PhpFrameType, FrameBegins
<1>12. Frame(q) # <<>>
  <2>1. Len(<<>>) = 0  OBVIOUS
  <2> QED  BY <1>11, <2>1
<1> QED  BY <1>9, <1>10, <1>11, <1>12, LastOf

(* The name is behind the head, and only a newline behind the name of a    *)
(* pop.                                                                    *)
LEMMA NameFrame ==
  ASSUME Tool = "aoq.php", NEW q \in Request, q.op \notin Unnamed
  PROVE  LET n == Len(q.args[1])
         IN  /\ n \in Nat /\ q.args[1] \in Seq(Letter) /\ n + 2 <= Len(Frame(q))
             /\ \A i \in 1..n : Frame(q)[1 + i] = q.args[1][i]
<1>1. CASE q.op = "push"
  <2> DEFINE n == Len(q.args[1])
             v == Len(q.args[2])
  <2>1. /\ n \in Nat /\ v \in Nat /\ q.args[1] \in Seq(Letter) /\ Len(Frame(q)) = n + v + 2
        /\ \A i \in 1..n : Frame(q)[1 + i] = q.args[1][i]
    BY <1>1, PushFrame
  <2> HIDE DEF v
  <2> QED  BY <2>1
<1>2. CASE q.op = "pop"
  <2> DEFINE name == q.args[1]
             n == Len(name)
             h == <<HeadOf(q)>>
  <2>1. Len(q.args) = 1 /\ name \in Seq(Letter) /\ n \in Nat
    <3>1. Len(q.args) = 1 /\ \A i \in 1..Len(q.args) : q.args[i] \in Seq(Letter) /\ Len(q.args[i]) \in Nat
      BY <1>2, RequestType
    <3> QED  BY <3>1
  <2>2. FlattenSeq(q.args) = name
    <3>1. Len(q.args) \in Nat  BY <2>1
    <3>2. Len(q.args) = 1 => FlattenSeq(q.args) = q.args[1]  BY <3>1, FlattenFew, Zenon
    <3> QED  BY <2>1, <3>2, Zenon
  <2>3. Frame(q) = (h \o name) \o <<NL>>  BY <2>2, Zenon DEF Frame, PhpFrame, Framed
  <2>4. h \in Seq(Token) /\ name \in Seq(Token) /\ <<NL>> \in Seq(Token) /\ Len(h) = 1 /\ Len(<<NL>>) = 1
    <3>1. Letter \subseteq Token /\ HeadOf(q) \in Token /\ NL \in Token  BY HeadType DEF Token
    <3>2. name \in Seq(Token)
      <4> HIDE DEF name
      <4> QED  BY <2>1, <3>1, SeqMonotonic
    <3> QED  BY <3>1, <3>2
  <2> HIDE DEF name, h
  <2>5. /\ h \o name \in Seq(Token) /\ Len(h \o name) = 1 + n
        /\ \A i \in 1..1 + n : (h \o name)[i] = IF i <= 1 THEN h[i] ELSE name[i - 1]
    <3>1. /\ h \o name \in Seq(Token) /\ Len(h \o name) = Len(h) + Len(name)
          /\ \A i \in 1..Len(h) + Len(name) :
               (h \o name)[i] = IF i <= Len(h) THEN h[i] ELSE name[i - Len(h)]
      BY <2>4, ConcatProperties
    <3> QED  BY <2>4, <3>1
  <2> DEFINE hn == h \o name
  <2> HIDE DEF hn
  <2>6. /\ Len(Frame(q)) = (1 + n) + 1
        /\ \A i \in 1..(1 + n) + 1 : Frame(q)[i] = IF i <= 1 + n THEN hn[i] ELSE <<NL>>[i - (1 + n)]
    <3>1. hn \in Seq(Token) /\ Len(hn) = 1 + n /\ Frame(q) = hn \o <<NL>>  BY <2>3, <2>5 DEF hn
    <3>2. /\ Len(hn \o <<NL>>) = Len(hn) + Len(<<NL>>)
          /\ \A i \in 1..Len(hn) + Len(<<NL>>) :
               (hn \o <<NL>>)[i] = IF i <= Len(hn) THEN hn[i] ELSE <<NL>>[i - Len(hn)]
      BY <2>4, <3>1, ConcatProperties
    <3> QED  BY <2>4, <3>1, <3>2
  <2> HIDE DEF n
  <2>7. n \in Nat  BY <2>1 DEF n
  <2>8. ASSUME NEW i \in 1..n PROVE Frame(q)[1 + i] = name[i]
    <3>1. 1 + i \in 1..(1 + n) + 1 /\ 1 + i <= 1 + n /\ 1 + i \in 1..1 + n /\ ~(1 + i <= 1) /\ (1 + i) - 1 = i
      BY <2>7
    <3>2. Frame(q)[1 + i] = hn[1 + i]  BY <2>6, <3>1
    <3>3. hn[1 + i] = name[(1 + i) - 1]  BY <2>5, <3>1 DEF hn
    <3> QED  BY <3>1, <3>2, <3>3
  <2>9. n + 2 <= Len(Frame(q))  BY <2>6, <2>7
  <2> QED  BY <2>1, <2>7, <2>8, <2>9 DEF n, name
<1>3. q.op \in {"push", "pop"} \cup Unnamed  BY RequestType
<1> QED  BY <1>1, <1>2, <1>3

(* As many lengths in the head as arguments.                               *)
LEMMA HeadLength ==
  ASSUME NEW q \in Request
  PROVE  Len(HeadOf(q)[2]) = Len(q.args)
<1> DEFINE argn == HeadOf(q)[2]
           m == Len(q.args)
<1>1. m \in Nat /\ argn \in [1..m -> Nat]  BY RequestType, HeadType
<1> HIDE DEF argn, m
<1>2. argn = [i \in 1..m |-> argn[i]] /\ \A i \in 1..m : argn[i] \in Nat  BY <1>1
<1>3. Len([i \in 1..m |-> argn[i]]) = m  BY <1>1, <1>2
<1> QED  BY <1>2, <1>3 DEF argn, m

(* The server finds the name of a plain request, and it keeps it whole.    *)
LEMMA NameFound ==
  ASSUME Tool = "aoq.php", NEW q \in Request, Plain(q), q.op \notin Unnamed
  PROVE  LET name == q.args[1]
         IN  /\ NameOf(Split(Frame(q)), Len(name)) = name
             /\ HasName(Split(Frame(q)), HeadOf(q)[2])
             /\ Key(name) = name /\ Len(name) < KeySize
<1> DEFINE b == Frame(q)
           name == q.args[1]
           n == Len(name)
           argn == HeadOf(q)[2]
<1>1. b \in Seq(PhpToken) /\ b # <<>> /\ Last(b) = NL  BY OneNewline
<1>2. /\ n \in Nat /\ name \in Seq(Letter) /\ n + 2 <= Len(b)
      /\ \A i \in 1..n : b[1 + i] = name[i]
  BY NameFrame
<1>3. /\ W \in Nat \ {0} /\ n < W /\ n > 0 /\ n < KeySize /\ n < NameMax
      /\ Range(name) \cap Blank = {} /\ NameMax \in Nat /\ KeySize \in Nat
  <2>1. n \in 1..W - 1 /\ n < KeySize /\ n < NameMax /\ Range(name) \cap Blank = {}
    BY DEF Plain
  <2> QED  BY <1>2, <2>1, WidthAssumption, SizeAssumption
<1>4. Len(argn) > 0 /\ argn[1] = n
  <2>1. Len(q.args) \in Nat \ {0} /\ Len(argn) = Len(q.args)
    <3>1. Len(q.args) \in Nat /\ q.op \in {"push", "pop"} \cup Unnamed
          /\ Len(q.args) = IF q.op = "push" THEN 2 ELSE IF q.op = "pop" THEN 1 ELSE 0
      BY RequestType
    <3> QED  BY <3>1, HeadLength
  <2>2. 1 \in 1..Len(q.args)  BY <2>1
  <2>3. \A i \in 1..Len(q.args) : argn[i] = Len(q.args[i])  BY HeadType
  <2>4. argn[1] = n  BY <2>2, <2>3
  <2> HIDE DEF argn, n
  <2> QED  BY <2>1, <2>4
<1> HIDE DEF b, name, argn
<1>5. n + 1 <= Len(b)  BY <1>1, <1>2, LenProperties
<1>6. NameOf(Split(b), n) = Trim(SubSeq(b, 2, Min({n + 1, W})), n)
  BY <1>1, <1>2, <1>5, NameInChunk
<1>7. Trim(SubSeq(b, 2, Min({n + 1, W})), n) = ServerName(name)
  BY <1>1, <1>2, <1>5, NameKept
<1>8. ServerName(name) = name
  <2>1. W - 1 \in Nat /\ n <= W - 1  BY <1>2, <1>3
  <2>2. Min({n, W - 1}) = n  BY <1>2, <2>1, MinOfTwo
  <2>3. SubSeq(name, 1, n) = name  BY <1>2, SubSeqFull
  <2>4. Trim(name, n) = name  BY <1>2, <1>3, TrimType
  <2> QED  BY <2>2, <2>3, <2>4 DEF ServerName
<1>9. NameOf(Split(b), n) = name  BY <1>6, <1>7, <1>8
<1>10. Key(name) = name
  <2>1. Len(name) <= KeySize  BY <1>2, <1>3
  <2> QED  BY <1>2, <2>1, KeyType
<1>11. HasName(Split(b), argn)
  <2>1. name # <<>>
    <3>1. n # 0  BY <1>2, <1>3
    <3> QED  BY <1>2, <3>1, EmptySeq
  <2> HIDE DEF n
  <2>2. n \in 1..NameMax - 1  BY <1>2, <1>3
  <2> QED  BY <1>4, <1>9, <2>1, <2>2 DEF HasName
<1> QED  BY <1>3, <1>9, <1>10, <1>11 DEF b, name, argn

(* And the value of a push, with the newline of the frame.                 *)
LEMMA ValueFound ==
  ASSUME Tool = "aoq.php", NEW q \in Request, Plain(q), q.op = "push"
  PROVE  LET slab == Split(Frame(q))
         IN  From(slab, MoveCursor(slab, Len(q.args[1]))) = ValueOf(q) \o <<NL>>
<1> DEFINE b == Frame(q)
           name == q.args[1]
           value == q.args[2]
           n == Len(name)
           v == Len(value)
           E == SlabEnd(b)
           text == SubSeq(b, n + 2, E)
           u == value \o <<NL>>
<1>1. /\ b \in Seq(PhpToken) /\ b # <<>> /\ Last(b) = NL
      /\ \A i \in 1..Len(b) : b[i] = NL => i = Len(b)
  BY OneNewline
<1>2. /\ n \in Nat /\ v \in Nat /\ name \in Seq(Letter) /\ value \in Seq(Letter)
      /\ Len(b) = n + v + 2
      /\ \A i \in 1..v : b[1 + n + i] = value[i]
      /\ b[n + v + 2] = NL
  BY PushFrame
<1>3. Len(b) \in Nat \ {0} /\ E \in 1..Len(b) /\ b[E] = NL  BY <1>1, LastOf, SlabEnds
<1> HIDE DEF b, E, n, v, name, value
<1>4. E = n + v + 2  BY <1>1, <1>2, <1>3
<1>5. \A i \in 1..n + 1 : i <= Len(b) => b[i] # NL
  <2>1. ASSUME NEW i \in 1..n + 1, i <= Len(b), b[i] = NL PROVE FALSE
    <3>1. i \in 1..Len(b)  BY <1>2, <2>1
    <3>2. i = Len(b)  BY <1>1, <2>1, <3>1
    <3> QED  BY <1>2, <3>2
  <2> QED  BY <2>1
<1>6. From(Split(b), MoveCursor(Split(b), n)) = text  BY <1>1, <1>2, <1>5, FromBehind DEF E
<1>7. /\ text \in Seq(PhpToken) /\ Len(text) = E - (n + 2) + 1
      /\ \A i \in 1..E - (n + 2) + 1 : text[i] = b[(n + 2) + i - 1]
  <2>1. n + 2 \in Nat \ {0} /\ E \in (n + 2) - 1..Len(b)  BY <1>2, <1>3, <1>4
  <2> QED  BY <1>1, <2>1, PartOf
<1> HIDE DEF text
<1>8. /\ u \in Seq(PhpToken) /\ Len(u) = v + 1
      /\ \A i \in 1..v + 1 : u[i] = IF i <= v THEN value[i] ELSE <<NL>>[i - v]
  <2>1. Letter \subseteq PhpToken /\ NL \in PhpToken  BY DEF PhpToken
  <2>2. value \in Seq(PhpToken) /\ <<NL>> \in Seq(PhpToken)  BY <1>2, <2>1, SeqMonotonic
  <2> QED  BY <2>2, ConcatProperties DEF v
<1> HIDE DEF u
<1>9. Len(text) = v + 1  BY <1>2, <1>4, <1>7
<1>10. ASSUME NEW i \in 1..v + 1 PROVE text[i] = u[i]
  <2>1. i \in 1..E - (n + 2) + 1 /\ (n + 2) + i - 1 = 1 + n + i  BY <1>2, <1>4
  <2>2. text[i] = b[1 + n + i]  BY <1>7, <2>1
  <2>3. CASE i <= v
    <3>1. i \in 1..v  BY <1>2, <2>3
    <3> QED  BY <1>2, <1>8, <2>2, <2>3, <3>1
  <2>4. CASE ~(i <= v)
    <3>1. i - v = 1 /\ 1 + n + i = n + v + 2  BY <1>2, <2>4
    <3> QED  BY <1>2, <1>8, <2>2, <2>4, <3>1
  <2> QED  BY <2>3, <2>4
<1>11. text = u  BY <1>7, <1>8, <1>9, <1>10, SeqEqual
<1> QED  BY <1>6, <1>11 DEF b, n, name, value, u, ValueOf

-----------------------------------------------------------------------------
(* A queue of the server and what the FIFO holds: each item is a value and *)
(* the newline that was read with it.                                      *)
ItemOf(value) == [len |-> Len(value), text |-> value \o <<NL>>]
ItemsOf(values) == [i \in 1..Len(values) |-> ItemOf(values[i])]

ItemsIn(table, name) == IF name \in DOMAIN table THEN table[name] ELSE <<>>

Matches(table, values) == \A name \in Names : ItemsIn(table, name) = ItemsOf(values[name])

(* As many items as values.                                                *)
LEMMA ItemsOfType ==
  ASSUME NEW S, NEW values \in Seq(S), NEW I, \A v \in S : ItemOf(v) \in I
  PROVE  /\ ItemsOf(values) \in Seq(I) /\ Len(ItemsOf(values)) = Len(values)
         /\ Len(values) \in Nat /\ \A i \in 1..Len(values) : ItemsOf(values)[i] = ItemOf(values[i])
<1> DEFINE n == Len(values)
           items == [i \in 1..n |-> ItemOf(values[i])]
<1>1. n \in Nat /\ \A i \in 1..n : values[i] \in S  BY LenProperties, ElementOfSeq
<1>2. \A i \in 1..n : ItemOf(values[i]) \in I  BY <1>1
<1> HIDE DEF n
<1>3. items \in Seq(I) /\ Len(items) = n  BY <1>1, <1>2
<1> QED  BY <1>1, <1>3 DEF ItemsOf, n

(* One more.                                                               *)
LEMMA ItemsOfMore ==
  ASSUME NEW S, NEW values \in Seq(S), NEW value \in S
  PROVE  ItemsOf(Append(values, value)) = Append(ItemsOf(values), ItemOf(value))
<1> DEFINE I == {ItemOf(v) : v \in S}
           more == Append(values, value)
           left == ItemsOf(more)
           right == Append(ItemsOf(values), ItemOf(value))
           n == Len(values)
<1>1. \A v \in S : ItemOf(v) \in I  OBVIOUS
<1> HIDE DEF I
<1>2. /\ more \in Seq(S) /\ Len(more) = n + 1 /\ n \in Nat
      /\ more[n + 1] = value /\ \A i \in 1..n : more[i] = values[i]
  BY AppendProperties, LenProperties
<1> HIDE DEF more
<1>3. /\ ItemsOf(values) \in Seq(I) /\ Len(ItemsOf(values)) = n
      /\ \A i \in 1..n : ItemsOf(values)[i] = ItemOf(values[i])
  BY <1>1, ItemsOfType
<1>4. /\ left \in Seq(I) /\ Len(left) = n + 1
      /\ \A i \in 1..n + 1 : left[i] = ItemOf(more[i])
  BY <1>1, <1>2, ItemsOfType
<1>5. /\ right \in Seq(I) /\ Len(right) = n + 1 /\ right[n + 1] = ItemOf(value)
      /\ \A i \in 1..n : right[i] = ItemsOf(values)[i]
  BY <1>1, <1>3, AppendProperties
<1>6. ASSUME NEW i \in 1..n + 1 PROVE left[i] = right[i]
  <2>1. i \in 1..n \/ i = n + 1  BY <1>2
  <2>2. CASE i \in 1..n  BY <1>2, <1>3, <1>4, <1>5, <2>2
  <2>3. CASE i = n + 1  BY <1>2, <1>4, <1>5, <2>3
  <2> QED  BY <2>1, <2>2, <2>3
<1> HIDE DEF left, right
<1>7. left = right  BY <1>4, <1>5, <1>6, SeqEqual
<1> QED  BY <1>7 DEF left, right, more

(* None.                                                                   *)
LEMMA ItemsOfNone == ItemsOf(<<>>) = <<>>
<1>1. Len(<<>>) = 0  OBVIOUS
<1>2. ItemsOf(<<>>) = [i \in 1..0 |-> ItemOf((<<>>)[i])]  BY <1>1 DEF ItemsOf
<1> QED  BY <1>2

(* One less.                                                               *)
LEMMA ItemsOfLess ==
  ASSUME NEW S, NEW values \in Seq(S), values # <<>>
  PROVE  /\ values[1] \in S /\ Tail(values) \in Seq(S) /\ ItemsOf(values) # <<>>
         /\ Head(ItemsOf(values)) = ItemOf(values[1])
         /\ Tail(ItemsOf(values)) = ItemsOf(Tail(values))
<1> DEFINE I == {ItemOf(v) : v \in S}
           items == ItemsOf(values)
           left == Tail(items)
           right == ItemsOf(Tail(values))
           n == Len(values)
<1>1. \A v \in S : ItemOf(v) \in I  OBVIOUS
<1> HIDE DEF I
<1>2. n \in Nat \ {0}  BY LastOf
<1>3. /\ items \in Seq(I) /\ Len(items) = n
      /\ \A i \in 1..n : items[i] = ItemOf(values[i])
  BY <1>1, ItemsOfType
<1> HIDE DEF items
<1>4. /\ Tail(values) \in Seq(S) /\ Len(Tail(values)) = n - 1
      /\ \A i \in 1..Len(Tail(values)) : Tail(values)[i] = values[i + 1]
  BY HeadTailProperties
<1>5. items # <<>>
  <2>1. Len(<<>>) = 0  OBVIOUS
  <2> QED  BY <1>2, <1>3, <2>1
<1>6. /\ Head(items) = items[1] /\ left \in Seq(I) /\ Len(left) = n - 1
      /\ \A i \in 1..Len(left) : left[i] = items[i + 1]
  BY <1>3, <1>5, HeadTailProperties, SMTT(30)
<1>7. /\ right \in Seq(I) /\ Len(right) = n - 1
      /\ \A i \in 1..n - 1 : right[i] = ItemOf(Tail(values)[i])
  BY <1>1, <1>4, ItemsOfType, Zenon
<1>8. ASSUME NEW i \in 1..n - 1 PROVE left[i] = right[i]
  <2>1. i + 1 \in 1..n /\ i \in 1..Len(left) /\ i \in 1..Len(Tail(values))  BY <1>2, <1>4, <1>6
  <2>2. left[i] = ItemOf(values[i + 1])  BY <1>3, <1>6, <2>1
  <2>3. right[i] = ItemOf(values[i + 1])  BY <1>4, <1>7, <2>1
  <2> QED  BY <2>2, <2>3
<1> HIDE DEF left, right
<1>9. left = right  BY <1>6, <1>7, <1>8, SeqEqual
<1>10. values[1] \in S /\ Head(items) = ItemOf(values[1])
  <2>1. 1 \in 1..n  BY <1>2
  <2> QED  BY <1>3, <1>6, <2>1, ElementOfSeq
<1> QED  BY <1>4, <1>5, <1>9, <1>10 DEF left, right, items

(* What getQueue finds of a short name.                                    *)
LEMMA ItemsFound ==
  ASSUME NEW name, Len(name) < KeySize, NEW known \in BOOLEAN, Finds(name, known)
  PROVE  Items(name, known) = ItemsIn(held, name)
<1>1. Len(name) >= KeySize => FALSE
  <2>1. CASE Len(name) \in Nat  BY <2>1, SizeAssumption
  <2> QED  BY <2>1
<1> QED  BY <1>1 DEF Finds, Items, ItemsIn

(* One queue changes in both.                                              *)
LEMMA KeepMatches ==
  ASSUME NEW values \in [Names -> Seq(Value)], Matches(held, values),
         NEW name \in Names, Key(name) = name, Len(name) \in Nat, Len(name) < KeySize,
         NEW kept, NEW known \in BOOLEAN, Keep(name, known, ItemsOf(kept))
  PROVE  Matches(held', [values EXCEPT ![name] = kept])
<1> DEFINE after == [values EXCEPT ![name] = kept]
<1>1. held' = [n \in DOMAIN held \cup {name} |-> IF n = name THEN ItemsOf(kept) ELSE held[n]]
  <2>1. ~(Len(name) >= KeySize)  BY SizeAssumption
  <2>2. \/ held' = [n \in DOMAIN held \cup {Key(name)} |->
                      IF n = Key(name) THEN ItemsOf(kept) ELSE held[n]]
        \/ Len(name) >= KeySize
    BY DEF Keep
  <2> QED  BY <2>1, <2>2
<1>2. DOMAIN held' = DOMAIN held \cup {name} /\ held'[name] = ItemsOf(kept)
      /\ \A n \in DOMAIN held : n # name => held'[n] = held[n]
  BY <1>1
<1>3. ASSUME NEW n \in Names PROVE ItemsIn(held', n) = ItemsOf(after[n])
  <2>1. CASE n = name
    <3>1. after[n] = kept  BY <2>1
    <3>2. ItemsIn(held', n) = ItemsOf(kept)  BY <1>2, <2>1 DEF ItemsIn
    <3> QED  BY <3>1, <3>2
  <2>2. CASE n # name
    <3>1. after[n] = values[n]  BY <2>2
    <3>2. ItemsIn(held', n) = ItemsIn(held, n)  BY <1>2, <2>2 DEF ItemsIn
    <3>3. ItemsIn(held, n) = ItemsOf(values[n])  BY DEF Matches
    <3> QED  BY <3>1, <3>2, <3>3
  <2> QED  BY <2>1, <2>2
<1> HIDE DEF after
<1>4. Matches(held', after)  BY <1>3 DEF Matches
<1> QED  BY <1>4 DEF after

(* A plain push that was read alone does to the queues what it does to the *)
(* FIFO, also where nothing more is taken.                                 *)
LEMMA PushExact ==
  ASSUME Tool = "aoq.php", NEW q \in PlainRequest, NEW fifo \in Fifos,
         Matches(held, fifo.held), q.op = "push", Push(Split(Frame(q)), HeadOf(q)[2])
  PROVE  /\ Matches(held', Held(fifo, q)) /\ out' = Reply(fifo, q)
         /\ total' = 0 /\ pc' = "write"
<1> DEFINE slab == Split(Frame(q))
           argn == HeadOf(q)[2]
           name == q.args[1]
           values == fifo.held[name]
           item == PushItem(slab, argn)
           kept == IF Len(values) <= AoqMaxSize THEN Append(values, ValueOf(q)) ELSE values
<1>1. q \in Request /\ Plain(q) /\ q.op \notin Unnamed  BY DEF PlainRequest, Unnamed
<1>2. fifo.held \in [Names -> Seq(Value)]  BY DEF Fifos
<1>3. name \in Names /\ values \in Seq(Value)  BY <1>1, <1>2, Named
<1>4. /\ NameOf(slab, Len(name)) = name /\ HasName(slab, argn)
      /\ Key(name) = name /\ Len(name) < KeySize
  BY <1>1, NameFound
<1>5. /\ Len(q.args) = 2 /\ Len(argn) = 2 /\ argn[1] = Len(name) /\ argn[2] = Len(q.args[2])
      /\ Len(name) \in Nat /\ q.args[2] \in Seq(Letter) /\ Len(q.args[2]) \in Nat
  <2>1. Len(q.args) = 2 /\ \A i \in 1..Len(q.args) : q.args[i] \in Seq(Letter) /\ Len(q.args[i]) \in Nat
    BY <1>1, RequestType
  <2>2. \A i \in 1..Len(q.args) : argn[i] = Len(q.args[i])  BY <1>1, HeadType
  <2>3. Len(argn) = Len(q.args)  BY <1>1, HeadLength
  <2>4. 1 \in 1..Len(q.args) /\ 2 \in 1..Len(q.args)  BY <2>1
  <2> HIDE DEF argn
  <2> QED  BY <2>1, <2>2, <2>3, <2>4
<1>6. item = ItemOf(ValueOf(q)) /\ ValueOf(q) \in Value
  <2>1. From(slab, MoveCursor(slab, Len(name))) = ValueOf(q) \o <<NL>>  BY <1>1, ValueFound
  <2>2. ValueOf(q) # <<>>  BY <1>1 DEF Plain
  <2>3. Len(q.args[2]) # 0  BY <1>5, <2>2, EmptySeq DEF ValueOf
  <2>4. argn[2] > 0 /\ Len(argn) > 1
    <3> HIDE DEF argn
    <3> QED  BY <1>5, <2>3
  <2>5. item = [len |-> argn[2], text |-> From(slab, MoveCursor(slab, argn[1]))]
    BY <2>4 DEF PushItem
  <2> HIDE DEF slab, argn, item, name
  <2> QED  BY <1>5, <2>1, <2>2, <2>5 DEF ItemOf, ValueOf, Value
<1> HIDE DEF item
<1>7. PICK known \in BOOLEAN :
        /\ Finds(NameOf(slab, argn[1]), known)
        /\ Keep(NameOf(slab, argn[1]), known,
                IF Len(Items(NameOf(slab, argn[1]), known)) <= AoqMaxSize
                  THEN Append(Items(NameOf(slab, argn[1]), known), item)
                  ELSE Items(NameOf(slab, argn[1]), known))
  BY <1>4, Zenon DEF Push, PushItem, item
<1>8. Say("push", ONE)  BY <1>4 DEF Push
<1> HIDE DEF slab, argn
<1>9. Items(name, known) = ItemsOf(values)
  <2>1. Finds(name, known)  BY <1>4, <1>5, <1>7
  <2>2. Items(name, known) = ItemsIn(held, name)  BY <1>4, <2>1, ItemsFound
  <2> QED  BY <1>3, <2>2 DEF Matches
<1>10. Keep(name, known, IF Len(ItemsOf(values)) <= AoqMaxSize
                           THEN Append(ItemsOf(values), ItemOf(ValueOf(q)))
                           ELSE ItemsOf(values))
  BY <1>4, <1>5, <1>6, <1>7, <1>9
<1> HIDE DEF name, values
<1>11. Len(ItemsOf(values)) = Len(values)
  <2> DEFINE I == {ItemOf(v) : v \in Value}
  <2>1. \A v \in Value : ItemOf(v) \in I  OBVIOUS
  <2> HIDE DEF I
  <2> QED  BY <1>3, <2>1, ItemsOfType
<1>12. Keep(name, known, ItemsOf(kept))
  <2>1. ItemsOf(Append(values, ValueOf(q))) = Append(ItemsOf(values), ItemOf(ValueOf(q)))
    BY <1>3, <1>6, ItemsOfMore
  <2> QED  BY <1>10, <1>11, <2>1
<1>13. Held(fifo, q) = [fifo.held EXCEPT ![name] = kept]  BY <1>1 DEF Held, name, values
<1>14. out' = Reply(fifo, q) /\ total' = 0 /\ pc' = "write"
  BY <1>8 DEF Say, Answer, Reply
<1> HIDE DEF kept
<1>15. Matches(held', [fifo.held EXCEPT ![name] = kept])
  <2>1. Len(name) \in Nat /\ Len(name) < KeySize /\ Key(name) = name  BY <1>4, <1>5 DEF name
  <2> QED  BY <1>2, <1>3, <1>12, <2>1, KeepMatches
<1> QED  BY <1>13, <1>14, <1>15

(* So does a plain pop.  No item without text is ever found.               *)
LEMMA PopExact ==
  ASSUME Tool = "aoq.php", NEW q \in PlainRequest, NEW fifo \in Fifos,
         Matches(held, fifo.held), q.op = "pop", Pop(Split(Frame(q)), HeadOf(q)[2])
  PROVE  /\ Matches(held', Held(fifo, q)) /\ out' = Reply(fifo, q)
         /\ total' = 0 /\ pc' = "write"
<1> DEFINE slab == Split(Frame(q))
           argn == HeadOf(q)[2]
           name == q.args[1]
           values == fifo.held[name]
<1>1. q \in Request /\ Plain(q) /\ q.op \notin Unnamed /\ q.op # "push"
  BY DEF PlainRequest, Unnamed
<1>2. fifo.held \in [Names -> Seq(Value)]  BY DEF Fifos
<1>3. name \in Names /\ values \in Seq(Value)  BY <1>1, <1>2, Named
<1>4. /\ NameOf(slab, Len(name)) = name /\ HasName(slab, argn)
      /\ Key(name) = name /\ Len(name) < KeySize
  BY <1>1, NameFound
<1>5. argn[1] = Len(name) /\ Len(name) \in Nat
  <2>1. Len(q.args) = 1 /\ \A i \in 1..Len(q.args) : Len(q.args[i]) \in Nat
    BY <1>1, RequestType
  <2>2. \A i \in 1..Len(q.args) : argn[i] = Len(q.args[i])  BY <1>1, HeadType
  <2>3. 1 \in 1..Len(q.args)  BY <2>1
  <2> HIDE DEF argn
  <2> QED  BY <2>1, <2>2, <2>3
<1>6. PICK known \in BOOLEAN :
        LET items == Items(NameOf(slab, argn[1]), known) IN
          /\ Finds(NameOf(slab, argn[1]), known)
          /\ \/ items = <<>> /\ Keep(NameOf(slab, argn[1]), known, <<>>) /\ SayNothing
             \/ /\ items # <<>> /\ Head(items).len > 0
                /\ Keep(NameOf(slab, argn[1]), known, Tail(items))
                /\ Answer(<< <<"pop", <<Head(items).len>>>> >> \o Head(items).text)
             \/ /\ items # <<>> /\ Head(items).len = 0
                /\ pc' = "dead" /\ UNCHANGED <<store, reply>>
  BY <1>4, Zenon DEF Pop
<1> HIDE DEF slab, argn
<1> DEFINE items == ItemsOf(values)
<1>7. Items(name, known) = items
  <2>1. Finds(name, known)  BY <1>4, <1>5, <1>6
  <2>2. Items(name, known) = ItemsIn(held, name)  BY <1>4, <2>1, ItemsFound
  <2> QED  BY <1>3, <2>2 DEF Matches
<1>8. \/ items = <<>> /\ Keep(name, known, <<>>) /\ SayNothing
      \/ /\ items # <<>> /\ Keep(name, known, Tail(items))
         /\ Answer(<< <<"pop", <<Head(items).len>>>> >> \o Head(items).text)
      \/ items # <<>> /\ Head(items).len = 0
  <2> HIDE DEF items
  <2> QED  BY <1>4, <1>5, <1>6, <1>7
<1>9. Len(name) \in Nat /\ Len(name) < KeySize /\ Key(name) = name  BY <1>4, <1>5
<1> HIDE DEF name
<1>10. CASE values = <<>>
  <2> DEFINE kept == <<>>
  <2>1. items = <<>>  BY <1>10, ItemsOfNone
  <2>2. Keep(name, known, <<>>) /\ SayNothing  BY <1>8, <2>1
  <2>3. out' = Reply(fifo, q) /\ total' = 0 /\ pc' = "write"
    BY <1>10, <2>2 DEF SayNothing, Answer, Reply, name
  <2>4. Held(fifo, q) = [fifo.held EXCEPT ![name] = kept]  BY <1>1, <1>10 DEF Held, name
  <2>5. Keep(name, known, ItemsOf(kept))  BY <2>2, ItemsOfNone
  <2> HIDE DEF kept
  <2>6. Matches(held', [fifo.held EXCEPT ![name] = kept])
    BY <1>2, <1>3, <1>9, <2>5, KeepMatches
  <2> QED  BY <2>3, <2>4, <2>6
<1>11. CASE values # <<>>
  <2> DEFINE kept == Tail(values)
             v == values[1]
             item == Head(items)
  <2>1. /\ v \in Value /\ items # <<>> /\ item = ItemOf(v) /\ Tail(items) = ItemsOf(kept)
    <3> HIDE DEF values
    <3> QED  BY <1>3, <1>11, ItemsOfLess
  <2> HIDE DEF item, v, items
  <2>2. item.len = Len(v) /\ item.text = v \o <<NL>> /\ item.len # 0
    <3>1. item = [len |-> Len(v), text |-> v \o <<NL>>]  BY <2>1 DEF ItemOf
    <3>2. v \in Seq(Letter) /\ v # <<>>  BY <2>1 DEF Value
    <3>3. Len(v) # 0  BY <3>2, EmptySeq
    <3> QED  BY <3>1, <3>3
  <2>3. /\ Keep(name, known, Tail(items))
        /\ Answer(<< <<"pop", <<item.len>>>> >> \o item.text)
    BY <1>8, <2>1, <2>2 DEF item
  <2>4. out' = Reply(fifo, q) /\ total' = 0 /\ pc' = "write"
    <3>1. Reply(fifo, q) = << <<"pop", <<Len(v)>>>> >> \o (v \o <<NL>>)
      BY <1>11, Zenon DEF Reply, v, name
    <3>2. out' = << <<"pop", <<item.len>>>> >> \o item.text /\ total' = 0 /\ pc' = "write"
      BY <2>3 DEF Answer
    <3> QED  BY <2>2, <3>1, <3>2, Zenon
  <2>5. Held(fifo, q) = [fifo.held EXCEPT ![name] = kept]  BY <1>1, <1>11 DEF Held, name
  <2>6. Keep(name, known, ItemsOf(kept))  BY <2>1, <2>3
  <2> HIDE DEF kept
  <2>7. Matches(held', [fifo.held EXCEPT ![name] = kept])
    BY <1>2, <1>3, <1>9, <2>6, KeepMatches
  <2> QED  BY <2>4, <2>5, <2>7
<1> QED  BY <1>10, <1>11

(* So does any plain request, and the answer is that of the FIFO.          *)
LEMMA ExecuteExact ==
  ASSUME Tool = "aoq.php", NEW q \in PlainRequest, NEW fifo \in Fifos,
         Matches(held, fifo.held), Execute(Split(Frame(q)))
  PROVE  /\ Matches(held', Held(fifo, q)) /\ out' = Reply(fifo, q)
         /\ total' = 0 /\ pc' = "write"
<1> DEFINE slab == Split(Frame(q))
           head == slab[1][1]
<1>1. q \in Request /\ Plain(q)  BY DEF PlainRequest
<1>2. head = HeadOf(q)
  <2>1. Frame(q) \in Seq(PhpToken) /\ Frame(q) # <<>> /\ Last(Frame(q)) = NL
    BY <1>1, OneNewline
  <2>2. head = Frame(q)[1]  BY <2>1, SplitType
  <2> QED  BY <1>1, <2>2, FrameBegins
<1>3. head \in Heads /\ head[1] = q.op /\ q.op \in {"push", "pop"} \cup Unnamed
  BY <1>1, <1>2, HeadType, RequestType
<1>4. /\ head[1] = "push" => Push(slab, head[2])
      /\ head[1] = "pop" => Pop(slab, head[2])
      /\ head[1] \in Unnamed => Say(head[1], ONE) /\ held' = held
  <2>1. IsHead(head)  BY <1>3 DEF IsHead
  <2> QED  BY <2>1 DEF Execute, Unnamed, store
<1> HIDE DEF slab, head
<1>5. CASE q.op = "push"
  <2>1. Push(Split(Frame(q)), HeadOf(q)[2])  BY <1>2, <1>3, <1>4, <1>5 DEF slab
  <2> QED  BY <1>5, <2>1, PushExact
<1>6. CASE q.op = "pop"
  <2>1. Pop(Split(Frame(q)), HeadOf(q)[2])  BY <1>2, <1>3, <1>4, <1>6 DEF slab
  <2> QED  BY <1>6, <2>1, PopExact
<1>7. CASE q.op \in Unnamed
  <2>1. Say(q.op, ONE) /\ held' = held  BY <1>3, <1>4, <1>7
  <2>2. q.op # "pop"  BY <1>7 DEF Unnamed
  <2>3. out' = Reply(fifo, q) /\ total' = 0 /\ pc' = "write"  BY <2>1, <2>2 DEF Say, Answer, Reply
  <2>4. Held(fifo, q) = fifo.held  BY <1>7 DEF Held
  <2> QED  BY <2>1, <2>3, <2>4
<1> QED  BY <1>3, <1>5, <1>6, <1>7

-----------------------------------------------------------------------------
(* Where a client that waits stands, if all its requests are plain: it has *)
(* heard all there is to hear, its last request is on its way, or the      *)
(* answer is.  The queues are those of the FIFO.                           *)
Heard == Said \cup {JUNK}

Told(fifo) ==
  /\ Matches(held, fifo.held)
  /\ Found(fifo.said, got) >= Len(fifo.said)
  /\ blocks = 0 => got = fifo.said

Quiet ==
  /\ served = Len(asked) /\ pc = "idle" /\ buf = <<>> /\ wire = <<>>
  /\ Told(FifoAfter(asked))

OnItsWay ==
  \E before \in Seq(Request), q \in Request :
    /\ asked = Append(before, q) /\ served = Len(before)
    /\ pc \in {"idle", "read"} /\ buf \o wire = Frame(q)
    /\ Told(FifoAfter(before))

BeingTold(fifo, q) ==
  /\ Matches(held, Held(fifo, q)) /\ out = Reply(fifo, q)
  /\ Found(fifo.said \o out, got) >= Len(fifo.said) + Begun(total)
  /\ blocks = 0 => total >= 0 /\ got = fifo.said \o SubSeq(out, 1, total)

InAnswer ==
  \E before \in Seq(Request), q \in Request :
    /\ asked = Append(before, q) /\ served = Len(before)
    /\ pc = "write" /\ buf = <<>> /\ wire = <<>>
    /\ BeingTold(FifoAfter(before), q)

Exact ==
  /\ got \in Seq(Heard)
  /\ AllPlain /\ ~eager => Quiet \/ OnItsWay \/ InAnswer

(* The last request.                                                       *)
LEMMA LastAsked ==
  ASSUME NEW before \in Seq(Request), NEW q \in Request, asked = Append(before, q)
  PROVE  Len(asked) = Len(before) + 1 /\ Len(before) \in Nat
BY AppendProperties, LenProperties

(* If all requests are plain.                                              *)
LEMMA AllArePlain ==
  ASSUME AllPlain, asked \in Seq(Request)
  PROVE  asked \in Seq(PlainRequest)
<1>1. Len(asked) \in Nat /\ DOMAIN asked = 1..Len(asked) /\ asked = [i \in 1..Len(asked) |-> asked[i]]
  BY LenProperties
<1>2. ASSUME NEW i \in 1..Len(asked) PROVE asked[i] \in PlainRequest
  <2>1. asked[i] \in Request  BY ElementOfSeq
  <2>2. asked[i] \in Range(asked)  BY <1>1 DEF Range
  <2> QED  BY <2>1, <2>2 DEF AllPlain, PlainRequest
<1>3. asked \in [1..Len(asked) -> PlainRequest]  BY <1>1, <1>2
<1> QED  BY <1>1, <1>3, SeqDef

(* The last of them.                                                       *)
LEMMA LastPlain ==
  ASSUME NEW before \in Seq(Request), NEW q \in Request, asked = Append(before, q), AllPlain
  PROVE  /\ q \in PlainRequest /\ Plain(q)
         /\ FifoAfter(before) \in Fifos
         /\ FifoAfter(asked) = Serve(FifoAfter(before), q)
<1>1. /\ Len(asked) = Len(before) + 1 /\ Len(before) \in Nat /\ asked[Len(before) + 1] = q
      /\ asked \in Seq(Request) /\ \A i \in 1..Len(before) : asked[i] = before[i]
  BY AppendProperties, LenProperties
<1>2. asked \in Seq(PlainRequest)  BY <1>1, AllArePlain
<1>3. \A i \in 1..Len(asked) : asked[i] \in PlainRequest  BY <1>2, ElementOfSeq
<1>4. q \in PlainRequest
  <2>1. Len(before) + 1 \in 1..Len(asked)  BY <1>1
  <2> QED  BY <1>1, <1>3, <2>1
<1>5. before \in Seq(PlainRequest)
  <2>1. \A i \in 1..Len(before) : before[i] \in PlainRequest  BY <1>1, <1>3
  <2>2. before = [i \in 1..Len(before) |-> before[i]]  BY LenProperties
  <2>3. before \in [1..Len(before) -> PlainRequest]  BY <2>1, <2>2
  <2> QED  BY <1>1, <2>3, SeqDef
<1>6. FifoAfter(asked) = Serve(FifoAfter(before), q)  BY FifoOfAppend
<1> QED  BY <1>4, <1>5, <1>6, FifoType DEF PlainRequest

(* At first there is nothing to hear.                                      *)
LEMMA ExactInit == Init => Exact
<1> SUFFICES ASSUME Init PROVE Exact
  OBVIOUS
<1>1. /\ got = <<>> /\ asked = <<>> /\ served = 0 /\ pc = "idle" /\ buf = <<>> /\ wire = <<>>
      /\ held = <<>> /\ blocks = 0
  BY DEF Init
<1>2. Len(asked) = 0 /\ got \in Seq(Heard)  BY <1>1, EmptySeq
<1>3. FifoAfter(asked) = Fifo  BY <1>1, FifoOfNone
<1>4. Fifo.said = <<>> /\ \A name \in Names : Fifo.held[name] = <<>>  BY DEF Fifo
<1>5. Matches(held, Fifo.held)
  <2>1. ASSUME NEW name \in Names PROVE ItemsIn(held, name) = ItemsOf(Fifo.held[name])
    <3>1. DOMAIN held = {}  BY <1>1
    <3>2. ItemsIn(held, name) = <<>>  BY <3>1 DEF ItemsIn
    <3> QED  BY <1>4, <3>2, ItemsOfNone
  <2> QED  BY <2>1 DEF Matches
<1>6. Found(Fifo.said, got) >= Len(Fifo.said)
  <2>1. Found(Fifo.said, got) = 0  BY <1>1, FoundInNone
  <2>2. Len(Fifo.said) = 0  BY <1>4, EmptySeq
  <2> QED  BY <2>1, <2>2
<1>7. Quiet  BY <1>1, <1>2, <1>3, <1>4, <1>5, <1>6 DEF Quiet, Told
<1> QED  BY <1>2, <1>7 DEF Exact

(* Who waits asks when nothing is on its way.                              *)
LEMMA AskExact ==
  ASSUME Tool = "aoq.php", Inv, Exact, NEW q \in Request, Ask(q)
  PROVE  Exact'
<1>1. /\ wire' = wire \o Frame(q) /\ asked' = Append(asked, q)
      /\ eager' = (eager \/ served < Len(asked))
      /\ pc' = pc /\ buf' = buf /\ got' = got /\ held' = held /\ served' = served
      /\ blocks' = blocks
  BY DEF Ask, store
<1>2. asked \in Seq(Request) /\ Len(asked) \in Nat  BY LenProperties DEF Inv, Streams
<1>3. ASSUME AllPlain', ~eager' PROVE OnItsWay'
  <2>1. AllPlain /\ ~eager /\ ~(served < Len(asked))
    <3>1. Len(asked') = Len(asked) + 1 /\ \A i \in 1..Len(asked) : asked'[i] = asked[i]
      BY <1>1, <1>2, AppendProperties
    <3>2. DOMAIN asked = 1..Len(asked) /\ DOMAIN asked' = 1..Len(asked) + 1
      BY <1>1, <1>2, <3>1, AppendProperties, LenProperties
    <3>3. ASSUME NEW p \in Range(asked) PROVE Plain(p)
      <4>1. PICK i \in 1..Len(asked) : p = asked[i]  BY <3>2 DEF Range
      <4>2. i \in DOMAIN asked' /\ p = asked'[i]  BY <1>2, <3>1, <3>2, <4>1
      <4>3. p \in Range(asked')  BY <4>2 DEF Range
      <4> QED  BY <1>3, <4>3 DEF AllPlain
    <3> QED  BY <1>1, <1>3, <3>3 DEF AllPlain
  <2>2. Quiet
    <3>1. ~OnItsWay /\ ~InAnswer
      <4>1. ASSUME NEW before \in Seq(Request), NEW p \in Request,
                   asked = Append(before, p), served = Len(before)
            PROVE  FALSE
        <5>1. Len(asked) = Len(before) + 1 /\ Len(before) \in Nat  BY <4>1, LastAsked
        <5> QED  BY <2>1, <4>1, <5>1
      <4> QED  BY <4>1 DEF OnItsWay, InAnswer
    <3> QED  BY <2>1, <3>1 DEF Exact
  <2>3. /\ served = Len(asked) /\ pc = "idle" /\ buf = <<>> /\ wire = <<>>
        /\ Told(FifoAfter(asked))
    BY <2>2 DEF Quiet
  <2>4. buf' \o wire' = Frame(q)
    <3>1. Frame(q) \in Seq(Token)  BY FrameType
    <3>2. <<>> \o Frame(q) = Frame(q)  BY <3>1, ConcatEmptySeq
    <3> QED  BY <1>1, <2>3, <3>2
  <2>5. PICK before \in Seq(Request) : before = asked  BY <1>2
  <2>6. Told(FifoAfter(before))'
    <3>1. Told(FifoAfter(before))  BY <2>3, <2>5
    <3> QED  BY <1>1, <3>1 DEF Told
  <2>7. asked' = Append(before, q) /\ served' = Len(before) /\ pc' \in {"idle", "read"}
    BY <1>1, <2>3, <2>5
  <2> QED  BY <2>4, <2>6, <2>7 DEF OnItsWay
<1>4. got' \in Seq(Heard)  BY <1>1 DEF Exact
<1> QED  BY <1>3, <1>4 DEF Exact

(* The first part of a frame that ends with a newline is all of it.        *)
LEMMA WholeFrame ==
  ASSUME Tool = "aoq.php", NEW q \in Request, Plain(q),
         NEW all \in Seq(Token), NEW rest \in Seq(Token), all # <<>>,
         all \o rest = Frame(q), Last(all) = NL
  PROVE  all = Frame(q) /\ rest = <<>>
<1> DEFINE f == Frame(q)
<1>1. \A i \in 1..Len(f) : f[i] = NL => i = Len(f)  BY OneNewline
<1>2. /\ Len(all) \in Nat \ {0} /\ Len(rest) \in Nat /\ Last(all) = all[Len(all)]
      /\ Len(f) = Len(all) + Len(rest)
      /\ \A i \in 1..Len(all) + Len(rest) : f[i] = IF i <= Len(all) THEN all[i] ELSE rest[i - Len(all)]
  BY LastOf, LenProperties, ConcatProperties
<1> HIDE DEF f
<1>3. Len(all) \in 1..Len(all) + Len(rest) /\ Len(all) <= Len(all)  BY <1>2
<1>4. f[Len(all)] = NL  BY <1>2, <1>3
<1>5. Len(rest) = 0  BY <1>1, <1>2, <1>3, <1>4
<1>6. rest = <<>>  BY <1>5, EmptySeq
<1>7. all \o <<>> = all  BY ConcatEmptySeq
<1> QED  BY <1>6, <1>7

(* The rest of a request comes, and with its last part the answer.         *)
LEMMA ReadExact ==
  ASSUME Tool = "aoq.php", Inv, Exact, Read
  PROVE  Exact'
<1>1. PICK k \in 1..Len(wire) :
        LET all == buf \o SubSeq(wire, 1, k)
            rest == SubSeq(wire, k + 1, Len(wire))
        IN  /\ all \in Seq(Token) /\ all # <<>> /\ rest \in Seq(Token)
            /\ all \o rest = buf \o wire /\ wire' = rest
            /\ IF Last(all) = NL
                 THEN buf' = <<>> /\ Execute(Split(all)) /\ Split(all) \in Seq(Seq(Token))
                      /\ Split(all) # <<>> /\ Split(all)[1][1] = all[1]
                 ELSE buf' = all /\ pc' = "read" /\ UNCHANGED <<done, store, reply>>
  BY ReadMeans DEF Inv
<1> DEFINE all == buf \o SubSeq(wire, 1, k)
           rest == SubSeq(wire, k + 1, Len(wire))
<1>2. /\ all \in Seq(Token) /\ all # <<>> /\ rest \in Seq(Token)
      /\ all \o rest = buf \o wire /\ wire' = rest
      /\ Last(all) = NL => buf' = <<>> /\ Execute(Split(all))
      /\ Last(all) # NL => buf' = all /\ pc' = "read" /\ held' = held
  BY <1>1 DEF store
<1>3. /\ pc \in {"idle", "read"}
      /\ got' = got /\ asked' = asked /\ eager' = eager /\ served' = served /\ blocks' = blocks
  BY DEF Read, client
<1> HIDE DEF all, rest
<1>4. ASSUME AllPlain, ~eager PROVE OnItsWay' \/ InAnswer'
  <2>1. OnItsWay
    <3>1. ~Quiet
      <4>1. wire = <<>> => Len(wire) = 0  BY EmptySeq
      <4> QED  BY <4>1 DEF Quiet
    <3>2. ~InAnswer  BY <1>3 DEF InAnswer
    <3> QED  BY <1>4, <3>1, <3>2 DEF Exact
  <2>2. PICK before \in Seq(Request), q \in Request :
          /\ asked = Append(before, q) /\ served = Len(before)
          /\ pc \in {"idle", "read"} /\ buf \o wire = Frame(q)
          /\ Told(FifoAfter(before))
    BY <2>1 DEF OnItsWay
  <2>3. q \in PlainRequest /\ Plain(q) /\ FifoAfter(before) \in Fifos
    BY <1>4, <2>2, LastPlain
  <2>4. all \o rest = Frame(q)  BY <1>2, <2>2
  <2>5. CASE Last(all) # NL
    <3>1. Told(FifoAfter(before))'  BY <1>2, <1>3, <2>2, <2>5 DEF Told
    <3>2. buf' \o wire' = Frame(q) /\ pc' \in {"idle", "read"}  BY <1>2, <2>4, <2>5
    <3>3. OnItsWay'  BY <1>3, <2>2, <3>1, <3>2 DEF OnItsWay
    <3> QED  BY <3>3
  <2>6. CASE Last(all) = NL
    <3>1. all = Frame(q) /\ rest = <<>>  BY <1>2, <2>3, <2>4, <2>6, WholeFrame
    <3>2. Execute(Split(Frame(q))) /\ buf' = <<>> /\ wire' = <<>>  BY <1>2, <2>6, <3>1
    <3> DEFINE fifo == FifoAfter(before)
    <3>3. /\ Matches(held, fifo.held) /\ Found(fifo.said, got) >= Len(fifo.said)
          /\ blocks = 0 => got = fifo.said
      BY <2>2 DEF Told
    <3>4. fifo \in Fifos  BY <2>3
    <3> HIDE DEF fifo
    <3>5. /\ Matches(held', Held(fifo, q)) /\ out' = Reply(fifo, q)
          /\ total' = 0 /\ pc' = "write"
      BY <2>3, <3>2, <3>3, <3>4, ExecuteExact
    <3>6. fifo.said \in Seq(Said) /\ Reply(fifo, q) \in Seq(Said) /\ got \in Seq(Heard)
      BY <2>3, <3>4, ServeMeans DEF Exact, Fifos
    <3> DEFINE said == fifo.said
               answer == Reply(fifo, q)
    <3>7. said \in Seq(Said) /\ answer \in Seq(Said)  BY <3>6
    <3>8. Found(said, got) >= Len(said)  BY <3>3
    <3> HIDE DEF said, answer
    <3>9. Found(said \o answer, got) >= Len(said) + Begun(0)
      <4>1. Found(said, got) <= Found(said \o answer, got)  BY <3>6, <3>7, FoundLonger
      <4>2. said \o answer \in Seq(Said)  BY <3>7, ConcatProperties
      <4>3. /\ Found(said, got) \in 0..Len(said)
            /\ Found(said \o answer, got) \in 0..Len(said \o answer)
            /\ Len(said) \in Nat /\ Len(said \o answer) \in Nat
        BY <3>6, <3>7, <4>2, FoundType, LenProperties
      <4> QED  BY <3>8, <4>1, <4>3 DEF Begun
    <3>10. blocks = 0 => got = said \o SubSeq(answer, 1, 0)
      <4>1. SubSeq(answer, 1, 0) = <<>>  BY <3>7, SubSeqEmpty
      <4>2. said \o <<>> = said  BY <3>7, ConcatEmptySeq
      <4> QED  BY <3>3, <4>1, <4>2 DEF said
    <3>11. /\ Matches(held', Held(fifo, q)) /\ out' = Reply(fifo, q)
           /\ Found(fifo.said \o out', got') >= Len(fifo.said) + Begun(total')
           /\ blocks' = 0 => total' >= 0 /\ got' = fifo.said \o SubSeq(out', 1, total')
      BY <1>3, <3>5, <3>9, <3>10 DEF said, answer
    <3>12. BeingTold(FifoAfter(before), q)'  BY <3>11 DEF BeingTold, fifo
    <3>13. InAnswer'  BY <1>3, <2>2, <3>2, <3>5, <3>12 DEF InAnswer
    <3> QED  BY <3>13
  <2> QED  BY <2>5, <2>6
<1>5. AllPlain' = AllPlain  BY <1>3 DEF AllPlain
<1>6. got' \in Seq(Heard)  BY <1>3 DEF Exact
<1> QED  BY <1>3, <1>4, <1>5, <1>6 DEF Exact

(* What is written behind the first ones makes more first ones.            *)
LEMMA MoreFirstOnes ==
  ASSUME NEW S, NEW s \in Seq(S), NEW m \in 0..Len(s), NEW n \in m..Len(s),
         NEW w \in Seq(S), Len(w) = n - m, \A i \in 1..n - m : w[i] = s[m + i]
  PROVE  SubSeq(s, 1, m) \o w = SubSeq(s, 1, n)
<1> DEFINE a == SubSeq(s, 1, m)
           b == SubSeq(s, 1, n)
           c == a \o w
<1>1. Len(s) \in Nat /\ m \in Nat /\ n \in Nat /\ m <= n /\ n \in 0..Len(s)  BY LenProperties
<1>2. a \in Seq(S) /\ Len(a) = m /\ \A i \in 1..m : a[i] = s[i]  BY FirstOnes
<1>3. b \in Seq(S) /\ Len(b) = n /\ \A i \in 1..n : b[i] = s[i]  BY <1>1, FirstOnes
<1> HIDE DEF a, b
<1>4. /\ c \in Seq(S) /\ Len(c) = n
      /\ \A i \in 1..n : c[i] = IF i <= m THEN a[i] ELSE w[i - m]
  <2>1. /\ c \in Seq(S) /\ Len(c) = Len(a) + Len(w)
        /\ \A i \in 1..Len(a) + Len(w) : c[i] = IF i <= Len(a) THEN a[i] ELSE w[i - Len(a)]
    BY <1>2, ConcatProperties
  <2>2. Len(a) + Len(w) = n  BY <1>1, <1>2
  <2> QED  BY <1>2, <2>1, <2>2
<1> HIDE DEF c
<1>5. ASSUME NEW i \in 1..n PROVE c[i] = b[i]
  <2>1. CASE i <= m
    <3>1. i \in 1..m  BY <1>1, <2>1
    <3> QED  BY <1>2, <1>3, <1>4, <2>1, <3>1
  <2>2. CASE ~(i <= m)
    <3>1. i - m \in 1..n - m /\ m + (i - m) = i  BY <1>1, <2>2
    <3>2. w[i - m] = s[m + (i - m)]  BY <3>1
    <3> QED  BY <1>3, <1>4, <2>2, <3>1, <3>2
  <2> QED  BY <2>1, <2>2
<1>6. c = b  BY <1>3, <1>4, <1>5, SeqEqual
<1> QED  BY <1>6 DEF a, b, c

(* More of the answer, or the last of it.                                  *)
LEMMA WriteExact ==
  ASSUME Tool = "aoq.php", Inv, Exact, Write
  PROVE  Exact'
<1>1. PICK k \in 1..Len(out) - total :
        /\ got' = got \o [i \in 1..k |-> Byte(total + i)]
        /\ total' = total + k
  BY DEF Write
<1> DEFINE w == [i \in 1..k |-> Byte(total + i)]
<1>2. /\ pc = "write"
      /\ IF total' = Len(out) THEN pc' = "idle" /\ served' = served + 1
                              ELSE pc' = pc /\ served' = served
      /\ wire' = wire /\ buf' = buf /\ out' = out /\ held' = held
      /\ asked' = asked /\ eager' = eager /\ blocks' = blocks
  BY DEF Write, client, store
<1>3. /\ out \in Seq(Said) /\ Len(out) \in Nat /\ total \in Int /\ total < Len(out)
      /\ blocks \in Nat /\ k \in Nat \ {0} /\ total + k <= Len(out)
  <2>1. MaxBlocks \in Nat  BY BoundAssumption
  <2>2. out \in Seq(Said) /\ Len(out) \in Nat  BY LenProperties DEF Inv, Streams
  <2>3. blocks \in Nat  BY <2>1 DEF Inv, Counts
  <2>4. total \in -blocks..Len(out) - 1  BY <1>2 DEF Inv, Turn
  <2> QED  BY <2>2, <2>3, <2>4
<1>4. w \in Seq(Heard) /\ Len(w) = k /\ \A i \in 1..k : total + i >= 1 => w[i] = out[total + i]
  <2>1. ASSUME NEW i \in 1..k
        PROVE  Byte(total + i) \in Heard /\ (total + i >= 1 => Byte(total + i) = out[total + i])
    <3>1. CASE total + i >= 1
      <4>1. total + i \in 1..Len(out)  BY <1>3, <3>1
      <4>2. out[total + i] \in Said  BY <1>3, <4>1, ElementOfSeq
      <4> QED  BY <3>1, <4>2 DEF Byte, Heard
    <3>2. CASE ~(total + i >= 1)  BY <3>2 DEF Byte, Heard
    <3> QED  BY <3>1, <3>2
  <2>2. k \in Nat  BY <1>3
  <2> QED  BY <2>1, <2>2
<1>5. got' = got \o w /\ total' = total + k  BY <1>1
<1> HIDE DEF w
<1>6. got \in Seq(Heard) /\ got' \in Seq(Heard)
  <2>1. got \in Seq(Heard)  BY DEF Exact
  <2> QED  BY <1>4, <1>5, <2>1, ConcatProperties
<1>7. ASSUME AllPlain, ~eager PROVE Quiet' \/ InAnswer'
  <2>1. InAnswer  BY <1>2, <1>7 DEF Exact, Quiet, OnItsWay
  <2>2. PICK before \in Seq(Request), q \in Request :
          /\ asked = Append(before, q) /\ served = Len(before)
          /\ pc = "write" /\ buf = <<>> /\ wire = <<>>
          /\ BeingTold(FifoAfter(before), q)
    BY <2>1 DEF InAnswer
  <2> DEFINE fifo == FifoAfter(before)
             said == fifo.said
             all == said \o out
             base == Len(said)
  <2>3. /\ fifo \in Fifos /\ Len(asked) = Len(before) + 1 /\ FifoAfter(asked) = Serve(fifo, q)
        /\ Len(before) \in Nat /\ q \in PlainRequest
    BY <1>7, <2>2, LastAsked, LastPlain
  <2>4. /\ Matches(held, Held(fifo, q)) /\ out = Reply(fifo, q)
        /\ Found(all, got) >= base + Begun(total)
        /\ blocks = 0 => total >= 0 /\ got = said \o SubSeq(out, 1, total)
    BY <2>2 DEF BeingTold
  <2>5. said \in Seq(Said) /\ base \in Nat
    <3>1. said \in Seq(Said)  BY <2>3 DEF Fifos
    <3> QED  BY <3>1, LenProperties
  <2> HIDE DEF fifo
  <2>6. Serve(fifo, q).held = Held(fifo, q) /\ Serve(fifo, q).said = all
    BY <2>3, <2>4, ServeMeans
  <2> HIDE DEF said
  <2>7. /\ all \in Seq(Said) /\ Len(all) = base + Len(out)
        /\ \A i \in 1..base + Len(out) : all[i] = IF i <= base THEN said[i] ELSE out[i - base]
    BY <1>3, <2>5, ConcatProperties
  <2> HIDE DEF all, base
  <2>8. Found(all, got') >= base + Begun(total')
    <3>1. ASSUME NEW i \in 1..Len(w), total + i >= 1 PROVE w[i] = all[base + total + i]
      <4>1. /\ base + total + i \in 1..base + Len(out) /\ ~(base + total + i <= base)
            /\ (base + total + i) - base = total + i
        BY <1>3, <1>4, <2>5, <3>1
      <4>2. all[base + total + i] = out[total + i]  BY <2>7, <4>1
      <4> QED  BY <1>4, <3>1, <4>2
    <3>2. base + total + Len(w) <= Len(all)  BY <1>3, <1>4, <2>5, <2>7
    <3>3. Found(all, got) >= base + Begun(total)  BY <2>4
    <3>4. Found(all, got \o w) >= base + Begun(total + Len(w))
      BY <1>3, <1>4, <1>6, <2>5, <2>7, <3>1, <3>2, <3>3, FoundWritten
    <3> QED  BY <1>4, <1>5, <3>4
  <2>9. ASSUME blocks = 0 PROVE total' \in 0..Len(out) /\ got' = said \o SubSeq(out, 1, total')
    <3>1. total >= 0 /\ got = said \o SubSeq(out, 1, total)  BY <2>4, <2>9
    <3>2. total \in 0..Len(out) /\ total + k \in total..Len(out) /\ (total + k) - total = k
          /\ total + k \in 0..Len(out)
      BY <1>3, <3>1
    <3>3. ASSUME NEW i \in 1..k PROVE total + i >= 1 /\ total + i \in 1..Len(out)
      BY <1>3, <3>1
    <3>4. w \in Seq(Said)
      <4>1. \A i \in 1..k : w[i] \in Said  BY <1>3, <1>4, <3>3, ElementOfSeq
      <4>2. k \in Nat /\ w = [i \in 1..k |-> w[i]]  BY <1>3, <1>4, LenProperties
      <4>3. w \in [1..k -> Said]  BY <4>1, <4>2
      <4> QED  BY <4>2, <4>3, SeqDef
    <3>5. \A i \in 1..k : w[i] = out[total + i]  BY <1>4, <3>3
    <3> DEFINE first == SubSeq(out, 1, total)
               n == total + k
    <3>6. first \in Seq(Said)  BY <1>3, <3>2, FirstOnes
    <3>7. first \o w = SubSeq(out, 1, n)
      <4>1. n \in total..Len(out) /\ n - total = k  BY <3>2
      <4> HIDE DEF n
      <4>2. Len(w) = n - total /\ \A i \in 1..n - total : w[i] = out[total + i]
        BY <1>4, <3>5, <4>1
      <4> QED  BY <1>3, <3>2, <3>4, <4>1, <4>2, MoreFirstOnes
    <3> HIDE DEF first
    <3>8. (said \o first) \o w = said \o (first \o w)
      BY <2>5, <3>4, <3>6, ConcatAssociative, SMTT(30)
    <3>9. got = said \o first  BY <3>1 DEF first
    <3> QED  BY <1>5, <3>2, <3>7, <3>8, <3>9
  <2>10. CASE total' = Len(out)
    <3>1. pc' = "idle" /\ served' = Len(asked) /\ buf' = <<>> /\ wire' = <<>>
      BY <1>2, <2>2, <2>3, <2>10
    <3>2. Found(all, got') >= Len(all)
      <4>1. Begun(total') = Len(out)  BY <1>3, <2>10 DEF Begun
      <4> QED  BY <2>7, <2>8, <4>1
    <3>3. ASSUME blocks = 0 PROVE got' = all
      <4>1. SubSeq(out, 1, Len(out)) = out  BY <1>3, SubSeqFull
      <4> QED  BY <2>9, <2>10, <3>3, <4>1 DEF all
    <3>4. PICK requests \in Seq(Request) : requests = asked  BY DEF Inv, Streams
    <3>5. FifoAfter(requests).held = Held(fifo, q) /\ FifoAfter(requests).said = all
      BY <2>3, <2>6, <3>4
    <3>6. Told(FifoAfter(requests))'  BY <1>2, <2>4, <3>2, <3>3, <3>5 DEF Told
    <3>7. asked' = requests  BY <1>2, <3>4
    <3> QED  BY <1>2, <3>1, <3>4, <3>6, <3>7 DEF Quiet
  <2>11. CASE total' # Len(out)
    <3>1. pc' = "write" /\ served' = served  BY <1>2, <2>11
    <3>2. /\ Matches(held', Held(fifo, q)) /\ out' = Reply(fifo, q)
          /\ Found(fifo.said \o out', got') >= Len(fifo.said) + Begun(total')
          /\ blocks' = 0 => total' >= 0 /\ got' = fifo.said \o SubSeq(out', 1, total')
      <4>1. Matches(held', Held(fifo, q)) /\ out' = Reply(fifo, q)  BY <1>2, <2>4
      <4>2. Found(fifo.said \o out', got') >= Len(fifo.said) + Begun(total')
        BY <1>2, <2>8 DEF all, base, said
      <4>3. ASSUME blocks' = 0
            PROVE  total' >= 0 /\ got' = fifo.said \o SubSeq(out', 1, total')
        <5>1. blocks = 0 /\ out' = out  BY <1>2, <4>3
        <5>2. total' \in 0..Len(out) /\ got' = fifo.said \o SubSeq(out, 1, total')
          BY <2>9, <5>1 DEF said
        <5> QED  BY <1>3, <5>1, <5>2
      <4> QED  BY <4>1, <4>2, <4>3
    <3>3. BeingTold(FifoAfter(before), q)'  BY <3>2 DEF BeingTold, fifo
    <3>4. InAnswer'  BY <1>2, <2>2, <3>1, <3>3 DEF InAnswer
    <3> QED  BY <3>4
  <2> QED  BY <2>10, <2>11
<1>8. AllPlain' = AllPlain  BY <1>2 DEF AllPlain
<1> QED  BY <1>2, <1>6, <1>7, <1>8 DEF Exact

(* A write that would block takes one back and is never the first again.   *)
LEMMA BlockExact ==
  ASSUME Tool = "aoq.php", Inv, Exact, WriteBlocks
  PROVE  Exact'
<1>1. /\ pc = "write" /\ total' = total - 1 /\ blocks' = blocks + 1
      /\ pc' = pc /\ wire' = wire /\ buf' = buf /\ got' = got /\ out' = out /\ held' = held
      /\ asked' = asked /\ eager' = eager /\ served' = served
  BY DEF WriteBlocks, socket, client, store
<1>2. blocks \in Nat /\ total \in Int
  <2>1. MaxBlocks \in Nat  BY BoundAssumption
  <2>2. blocks \in Nat  BY <2>1 DEF Inv, Counts
  <2>3. Len(out) \in Nat  BY LenProperties DEF Inv, Streams
  <2>4. total \in -blocks..Len(out) - 1  BY <1>1 DEF Inv, Turn
  <2> QED  BY <2>2, <2>3, <2>4
<1>3. ASSUME AllPlain, ~eager PROVE InAnswer'
  <2>1. InAnswer  BY <1>1, <1>3 DEF Exact, Quiet, OnItsWay
  <2>2. PICK before \in Seq(Request), q \in Request :
          /\ asked = Append(before, q) /\ served = Len(before)
          /\ pc = "write" /\ buf = <<>> /\ wire = <<>>
          /\ BeingTold(FifoAfter(before), q)
    BY <2>1 DEF InAnswer
  <2> DEFINE fifo == FifoAfter(before)
  <2>3. fifo \in Fifos  BY <1>3, <2>2, LastPlain
  <2>4. /\ Matches(held, Held(fifo, q)) /\ out = Reply(fifo, q)
        /\ Found(fifo.said \o out, got) >= Len(fifo.said) + Begun(total)
    BY <2>2 DEF BeingTold
  <2> HIDE DEF fifo
  <2>5. Found(fifo.said \o out', got') >= Len(fifo.said) + Begun(total')
    <3> DEFINE all == fifo.said \o out
               found == Found(all, got)
               base == Len(fifo.said)
    <3>1. found \in Nat /\ base \in Nat
      <4>1. fifo.said \in Seq(Said) /\ out \in Seq(Said) /\ got \in Seq(Heard)
        BY <2>3 DEF Fifos, Inv, Streams, Exact
      <4>2. all \in Seq(Said)  BY <4>1, ConcatProperties
      <4> HIDE DEF all
      <4>3. Found(all, got) \in 0..Len(all) /\ Len(all) \in Nat  BY <4>1, <4>2, FoundType, LenProperties
      <4> QED  BY <4>1, <4>3, LenProperties
    <3>2. found >= base + Begun(total)  BY <2>4
    <3> HIDE DEF found, base
    <3>3. found >= base + Begun(total - 1)  BY <1>2, <3>1, <3>2 DEF Begun
    <3> QED  BY <1>1, <3>3 DEF found, base
  <2>6. blocks' # 0  BY <1>1, <1>2
  <2>7. BeingTold(FifoAfter(before), q)'  BY <1>1, <2>4, <2>5, <2>6 DEF BeingTold, fifo
  <2> QED  BY <1>1, <2>2, <2>7 DEF InAnswer
<1>4. AllPlain' = AllPlain  BY <1>1 DEF AllPlain
<1>5. got' \in Seq(Heard)  BY <1>1 DEF Exact
<1> QED  BY <1>1, <1>3, <1>4, <1>5 DEF Exact

(* The step as a whole.                                                    *)
LEMMA ExactNext ==
  ASSUME Tool = "aoq.php", Inv, Exact, [Next]_vars
  PROVE  Exact'
<1>1. CASE UNCHANGED vars
  <2>1. /\ pc' = pc /\ wire' = wire /\ buf' = buf /\ got' = got /\ out' = out /\ total' = total
        /\ held' = held /\ asked' = asked /\ eager' = eager /\ served' = served
        /\ blocks' = blocks
    BY <1>1 DEF vars, socket, reply, client, store
  <2>2. AllPlain' = AllPlain  BY <2>1 DEF AllPlain
  <2>3. OnItsWay => OnItsWay'  BY <2>1 DEF OnItsWay, Told
  <2>4. InAnswer => InAnswer'  BY <2>1 DEF InAnswer, BeingTold
  <2>5. Quiet => Quiet'
    <3>1. ASSUME Quiet PROVE Quiet'
      <4>1. PICK requests \in Seq(Request) : requests = asked  BY DEF Inv, Streams
      <4>2. Told(FifoAfter(requests))'  BY <2>1, <3>1, <4>1 DEF Quiet, Told
      <4> QED  BY <2>1, <3>1, <4>1, <4>2 DEF Quiet
    <3> QED  BY <3>1
  <2> QED  BY <2>1, <2>2, <2>3, <2>4, <2>5 DEF Exact
<1> QED  BY <1>1, AskExact, ReadExact, WriteExact, BlockExact DEF Next

(* What has been heard is the start of what a FIFO says, and all of it     *)
(* when the last request is answered.                                      *)
LEMMA ExactMeans ==
  ASSUME Inv, Exact
  PROVE  AnswersExact
<1>1. got \in Seq(Heard) /\ asked \in Seq(Request) /\ out \in Seq(Said)
  BY DEF Exact, Inv, Streams
<1>2. Said \subseteq Heard  BY DEF Heard
<1> DEFINE told == Expected(asked)
<1>3. ASSUME AllPlain PROVE told \in Seq(Said) /\ told = FifoAfter(asked).said
  <2>1. asked \in Seq(PlainRequest)  BY <1>1, <1>3, AllArePlain
  <2> QED  BY <2>1, FifoType DEF Expected, Fifos
<1>4. ASSUME AllPlain, ~eager
      PROVE  /\ blocks = 0 => IsPrefix(got, told)
             /\ served = Len(asked) => IsSubsequence(told, got)
  <2>1. CASE Quiet
    <3>1. Found(told, got) >= Len(told) /\ (blocks = 0 => got = told)
      BY <1>3, <1>4, <2>1 DEF Quiet, Told
    <3> HIDE DEF told
    <3>2. Found(told, got) \in 0..Len(told) /\ Len(told) \in Nat
      BY <1>1, <1>3, <1>4, FoundType, LenProperties
    <3>3. Found(told, got) = Len(told)  BY <3>1, <3>2
    <3>4. IsPrefix(told, told)
      <4>1. <<>> \in Seq(Said)  BY EmptySeq
      <4> QED  BY <1>3, <1>4, <4>1, PrefixOfLonger
    <3> QED  BY <3>1, <3>3, <3>4 DEF IsSubsequence
  <2>2. ASSUME NEW before \in Seq(Request), NEW q \in Request, asked = Append(before, q),
               served = Len(before),
               blocks = 0 =>
                 \E n \in 0..Len(Reply(FifoAfter(before), q)) :
                   got = FifoAfter(before).said \o SubSeq(Reply(FifoAfter(before), q), 1, n)
        PROVE  /\ blocks = 0 => IsPrefix(got, told)
               /\ served = Len(asked) => IsSubsequence(told, got)
    <3> DEFINE fifo == FifoAfter(before)
               said == fifo.said
               answer == Reply(fifo, q)
    <3>1. /\ Len(asked) = Len(before) + 1 /\ Len(before) \in Nat
          /\ fifo \in Fifos /\ FifoAfter(asked) = Serve(fifo, q) /\ q \in PlainRequest
      BY <1>4, <2>2, LastAsked, LastPlain
    <3>2. served # Len(asked)  BY <2>2, <3>1
    <3>3. said \in Seq(Said) /\ answer \in Seq(Said) /\ told = said \o answer
      BY <1>3, <1>4, <3>1, ServeMeans DEF Fifos
    <3> HIDE DEF told, fifo, said, answer
    <3>4. ASSUME blocks = 0 PROVE IsPrefix(got, told)
      <4>1. PICK n \in 0..Len(answer) : got = said \o SubSeq(answer, 1, n)
        BY <2>2, <3>4 DEF answer, said, fifo
      <4> DEFINE first == SubSeq(answer, 1, n)
                 last == SubSeq(answer, n + 1, Len(answer))
      <4>2. first \in Seq(Said) /\ last \in Seq(Said) /\ first \o last = answer
        BY <3>3, CutInTwo
      <4> HIDE DEF first, last
      <4>3. (said \o first) \o last = said \o (first \o last)
        <5>1. said \in Seq(Said) /\ first \in Seq(Said) /\ last \in Seq(Said)  BY <3>3, <4>2
        <5> QED  BY <5>1, ConcatAssociative, SMTT(30)
      <4>4. said \o first \in Seq(Said)  BY <3>3, <4>2, ConcatProperties
      <4>5. IsPrefix(said \o first, (said \o first) \o last)  BY <4>2, <4>4, PrefixOfLonger
      <4> QED  BY <3>3, <4>1, <4>2, <4>3, <4>5 DEF first
    <3> QED  BY <3>2, <3>4
  <2>3. CASE OnItsWay
    <3>1. PICK before \in Seq(Request), q \in Request :
            /\ asked = Append(before, q) /\ served = Len(before)
            /\ Told(FifoAfter(before))
      BY <2>3 DEF OnItsWay
    <3> DEFINE fifo == FifoAfter(before)
               answer == Reply(fifo, q)
    <3>2. fifo.said \in Seq(Said) /\ answer \in Seq(Said)
      <4>1. fifo \in Fifos /\ q \in PlainRequest  BY <1>4, <3>1, LastPlain
      <4> QED  BY <4>1, ServeMeans DEF Fifos
    <3>3. ASSUME blocks = 0
          PROVE  \E n \in 0..Len(answer) : got = fifo.said \o SubSeq(answer, 1, n)
      <4>1. got = fifo.said  BY <3>1, <3>3 DEF Told
      <4> HIDE DEF fifo, answer
      <4>2. SubSeq(answer, 1, 0) = <<>> /\ fifo.said \o <<>> = fifo.said
        BY <3>2, SubSeqEmpty, ConcatEmptySeq
      <4>3. 0 \in 0..Len(answer)  BY <3>2, LenProperties
      <4> QED  BY <4>1, <4>2, <4>3
    <3> QED  BY <2>2, <3>1, <3>3
  <2>4. CASE InAnswer
    <3>1. PICK before \in Seq(Request), q \in Request :
            /\ asked = Append(before, q) /\ served = Len(before) /\ pc = "write"
            /\ BeingTold(FifoAfter(before), q)
      BY <2>4 DEF InAnswer
    <3> DEFINE fifo == FifoAfter(before)
               answer == Reply(fifo, q)
    <3>2. /\ out = answer
          /\ blocks = 0 => total >= 0 /\ got = fifo.said \o SubSeq(out, 1, total)
      BY <3>1 DEF BeingTold
    <3>3. ASSUME blocks = 0
          PROVE  \E n \in 0..Len(answer) : got = fifo.said \o SubSeq(answer, 1, n)
      <4>1. total \in -blocks..Len(out) - 1  BY <3>1 DEF Inv, Turn
      <4>2. Len(out) \in Nat  BY <1>1, LenProperties
      <4>3. total \in 0..Len(out)  BY <3>2, <3>3, <4>1, <4>2
      <4> HIDE DEF fifo, answer
      <4> QED  BY <3>2, <3>3, <4>3
    <3> QED  BY <2>2, <3>1, <3>3
  <2> QED  BY <1>4, <2>1, <2>3, <2>4 DEF Exact
<1> QED  BY <1>4 DEF AnswersExact

(* A client that waits for its answers hears exactly what a FIFO for each  *)
(* name would say, which takes no more than -q lets it: for any plain      *)
(* requests of aoq.php, whatever the other sizes are, and any pieces that  *)
(* requests are read in (read_cmd) and answers are written in              *)
(* (write_reply).  What blocked may be said twice, and nothing of it is    *)
(* missing when the last request is answered.  Plain leaves out the names  *)
(* that the table cannot find again and the values that kill the server.   *)
THEOREM AnswersAreExact ==
  ASSUME Tool = "aoq.php"
  PROVE  Spec => []AnswersExact
<1>1. Inv /\ Exact /\ [Next]_vars => Exact'  BY ExactNext
<1>2. Inv /\ Exact => AnswersExact  BY ExactMeans
<1> QED  BY InitInv, NextInv, ExactInit, <1>1, <1>2, PTL DEF Spec

-----------------------------------------------------------------------------
(* Why a waiting client is answered.  First, the server lives and there is *)
(* always something to do for it: the rest of its request is in the        *)
(* socket, or bytes of the answer are not written yet.  This is what fails *)
(* for aoq-client, whose request may be in the buffer with nothing to      *)
(* follow it.                                                              *)
THEOREM WaitingHasWork ==
  ASSUME Tool = "aoq.php"
  PROVE  Spec => [](Waiting /\ ~eager => /\ pc # "dead"
                                         /\ IF pc = "write" THEN total < Len(out) ELSE wire # <<>>)
<1> DEFINE Work == Waiting /\ ~eager => /\ pc # "dead"
                                        /\ IF pc = "write" THEN total < Len(out) ELSE wire # <<>>
<1>1. Inv /\ Exact => Work
  <2> SUFFICES ASSUME Inv, Exact, Waiting, ~eager
               PROVE  pc # "dead" /\ IF pc = "write" THEN total < Len(out) ELSE wire # <<>>
    OBVIOUS
  <2>1. AllPlain /\ served < Len(asked) /\ served \in Nat /\ Len(asked) \in Nat
    BY LenProperties DEF Waiting, Inv, Streams, Counts
  <2>2. CASE pc = "write"
    <3>1. total \in -blocks..Len(out) - 1 /\ blocks \in Nat /\ Len(out) \in Nat
      BY <2>2, LenProperties, BoundAssumption DEF Inv, Turn, Counts, Streams
    <3> QED  BY <2>2, <3>1
  <2>3. CASE pc # "write"
    <3>1. ~Quiet /\ ~InAnswer  BY <2>1, <2>3 DEF Quiet, InAnswer
    <3>2. PICK before \in Seq(Request), q \in Request :
            asked = Append(before, q) /\ buf \o wire = Frame(q) /\ pc \in {"idle", "read"}
      BY <2>1, <3>1 DEF Exact, OnItsWay
    <3>3. Plain(q)  BY <2>1, <3>2, LastPlain
    <3>4. Frame(q) # <<>> /\ Last(Frame(q)) = NL  BY <3>3, OneNewline
    <3>5. ASSUME wire = <<>> PROVE FALSE
      <4>1. buf \in Seq(Token)  BY DEF Inv, Streams
      <4>2. buf = Frame(q)  BY <3>2, <3>5, <4>1, ConcatEmptySeq
      <4> QED  BY <3>4, <4>2 DEF Inv, Turn
    <3> QED  BY <2>3, <3>2, <3>5
  <2> QED  BY <2>2, <2>3
<1> HIDE DEF Work
<1>2. Spec => []Work
  <2>1. Inv /\ Exact /\ [Next]_vars => Exact'  BY ExactNext
  <2> QED  BY <1>1, <2>1, InitInv, NextInv, ExactInit, PTL DEF Spec
<1> QED  BY <1>2 DEF Work

(* What read_cmd has to read, or write_reply to write: a write that blocks *)
(* takes one byte back, but uses up one of the times it may.               *)
ToGo == IF pc = "write" THEN Len(out) - total + 2 * (MaxBlocks - blocks) ELSE Len(wire)

(* Second, every step of a server that lives brings the answer nearer: it  *)
(* is written, or its writing begins, or less of the one or the other is   *)
(* left to do.  For both clients and any requests, as long as none is      *)
(* added while one is in work.                                             *)
THEOREM AnswerComesNearer ==
  Spec => [][served < Len(asked) /\ ~eager' =>
               \/ served' = served + 1
               \/ pc' = "dead"
               \/ pc # "write" /\ pc' = "write"
               \/ /\ (pc' = "write") = (pc = "write")
                  /\ ToGo \in Nat /\ ToGo' \in Nat /\ ToGo' < ToGo]_vars
<1> DEFINE Nearer == served < Len(asked) /\ ~eager' =>
                       \/ served' = served + 1
                       \/ pc' = "dead"
                       \/ pc # "write" /\ pc' = "write"
                       \/ /\ (pc' = "write") = (pc = "write")
                          /\ ToGo \in Nat /\ ToGo' \in Nat /\ ToGo' < ToGo
<1>1. Inv /\ Inv' /\ [Next]_vars => [Nearer]_vars
  <2> SUFFICES ASSUME Inv, Inv', Next, served < Len(asked), ~eager' PROVE Nearer
    OBVIOUS
  <2>1. ~(\E q \in Request : Ask(q))  BY DEF Ask
  <2>2. /\ Len(wire) \in Nat /\ Len(out) \in Nat
        /\ blocks \in Nat /\ MaxBlocks \in Nat /\ blocks <= MaxBlocks
        /\ pc = "write" => total \in -blocks..Len(out) - 1
    BY LenProperties, BoundAssumption DEF Inv, Turn, Counts, Streams
  <2>3. /\ Len(wire') \in Nat /\ Len(out') \in Nat
        /\ blocks' \in Nat /\ blocks' <= MaxBlocks
        /\ pc' = "write" => total' \in -blocks'..Len(out') - 1
    <3>1. wire' \in Seq(Token) /\ out' \in Seq(Said)  BY DEF Inv, Streams
    <3> QED  BY <3>1, LenProperties, BoundAssumption DEF Inv, Turn, Counts
  <2>4. CASE Read
    <3>1. PICK k \in 1..Len(wire) : wire' = SubSeq(wire, k + 1, Len(wire))
      BY <2>4 DEF Read
    <3>2. wire \in Seq(Token)  BY DEF Inv, Streams
    <3>3. Len(wire') < Len(wire)
      <4>1. Len(SubSeq(wire, k + 1, Len(wire))) = Len(wire) - k
        BY <2>2, <3>2, SMT
      <4> QED  BY <2>2, <3>1, <4>1
    <3>4. pc # "write"  BY <2>4 DEF Read
    <3>5. CASE pc' # "write"
      <4>1. ToGo = Len(wire) /\ ToGo' = Len(wire')  BY <3>4, <3>5 DEF ToGo
      <4> QED  BY <2>2, <2>3, <3>3, <3>4, <3>5, <4>1
    <3> QED  BY <3>4, <3>5
  <2>5. CASE Write
    <3>1. PICK k \in 1..Len(out) - total : total' = total + k  BY <2>5 DEF Write
    <3>2. /\ pc = "write" /\ out' = out /\ blocks' = blocks
          /\ IF total' = Len(out) THEN pc' = "idle" /\ served' = served + 1
                                  ELSE pc' = pc
      BY <2>5 DEF Write
    <3>3. CASE total' # Len(out)
      <4>1. /\ ToGo = Len(out) - total + 2 * (MaxBlocks - blocks)
            /\ ToGo' = Len(out) - total' + 2 * (MaxBlocks - blocks)
        BY <3>2, <3>3 DEF ToGo
      <4>2. /\ total \in Int /\ total < Len(out) /\ k \in Nat /\ k > 0
            /\ total' = total + k /\ total' < Len(out)
        BY <2>2, <2>3, <3>1, <3>2, <3>3
      <4> HIDE DEF ToGo
      <4>3. ToGo \in Nat /\ ToGo' \in Nat /\ ToGo' < ToGo
        BY <2>2, <4>1, <4>2
      <4> QED  BY <3>2, <3>3, <4>3
    <3> QED  BY <3>2, <3>3
  <2>6. CASE WriteBlocks
    <3>1. /\ pc = "write" /\ pc' = "write" /\ out' = out
          /\ blocks' = blocks + 1 /\ total' = total - 1
      BY <2>6 DEF WriteBlocks
    <3>2. /\ ToGo = Len(out) - total + 2 * (MaxBlocks - blocks)
          /\ ToGo' = Len(out) - (total - 1) + 2 * (MaxBlocks - (blocks + 1))
      BY <3>1 DEF ToGo
    <3>3. total \in Int /\ total < Len(out) /\ blocks + 1 <= MaxBlocks
      BY <2>2, <2>3, <3>1
    <3> HIDE DEF ToGo
    <3>4. ToGo \in Nat /\ ToGo' \in Nat /\ ToGo' < ToGo
      BY <2>2, <3>2, <3>3
    <3> QED  BY <3>1, <3>4
  <2> QED  BY <2>1, <2>4, <2>5, <2>6 DEF Next
<1> HIDE DEF Nearer
<1>2. Spec => [][Nearer]_vars
  <2>1. Inv /\ [Next]_vars => Inv'  BY NextInv
  <2> QED  BY <1>1, <2>1, InitInv, PTL DEF Spec
<1> QED  BY <1>2 DEF Nearer
=============================================================================

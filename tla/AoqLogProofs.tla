----------------------------- MODULE AoqLogProofs -----------------------------
(***************************************************************************)
(* Proofs about AoqLog for any requests, any chunk size, threshold and     *)
(* stdio buffer, and without the bounds of the run: that the log is exact, *)
(* how recovery reads it, and from both what a stop, a crash and a second  *)
(* recovery keep of the requests that were executed.                       *)
(***************************************************************************)
EXTENDS AoqLog, AoqFacts

(* The part of the types that does not depend on what Replay returns.      *)
Buffers ==
  /\ pc \in {"down", "idle", "copy", "count", "logged", "clear", "sigclear", "close"}
  /\ log \in Seq(Piece) /\ stdio \in Seq(Piece)
  /\ file \in Seq(Piece) /\ issued \in Seq(Piece)
  /\ clean \in BOOLEAN

Copying ==
  /\ pc \in {"copy", "count", "logged"} => req \in Request /\ copied \in 1..Size[req]
  /\ pc = "copy" => copied < Size[req]

(* Between two operations the count is that of the bytes in the buffer.    *)
Counted ==
  /\ pc \in {"idle", "logged", "clear"} => len = Len(log)
  /\ pc = "down" => len = 0 /\ log = <<>> /\ stdio = <<>>
  /\ clean /\ pc = "close" => len = 0 /\ log = <<>>

Inv == Buffers /\ Copying /\ Counted /\ LogExact

-----------------------------------------------------------------------------
(* fprintf: file and stdio together become what they were with the buffer  *)
(* behind it.                                                              *)
LEMMA WriteOutExact ==
  ASSUME Buffers, WriteOut
  PROVE  /\ file' \in Seq(Piece) /\ stdio' \in Seq(Piece)
         /\ file' \o stdio' = file \o stdio \o log
<1> DEFINE all == file \o stdio \o log
<1>1. all \in Seq(Piece) /\ Len(file) \in Nat
  BY ConcatProperties, LenProperties DEF Buffers
<1>2. PICK cut \in Len(file)..Len(all) :
        file' = SubSeq(all, 1, cut) /\ stdio' = SubSeq(all, cut + 1, Len(all))
  BY DEF WriteOut
<1>3. cut \in 0..Len(all)  BY <1>1, <1>2, LenProperties
<1> HIDE DEF all
<1>4. file' \in Seq(Piece) /\ stdio' \in Seq(Piece) /\ file' \o stdio' = all
  BY <1>1, <1>2, <1>3, CutInTwo
<1> QED  BY <1>4 DEF all

(* A failed fprintf leaves some of it in the file.                         *)
LEMMA WriteFailsTyped ==
  ASSUME Buffers, WriteFails
  PROVE  file' \in Seq(Piece) /\ stdio' \in Seq(Piece) /\ clean' = FALSE
<1> DEFINE all == file \o stdio \o log
<1>1. all \in Seq(Piece) /\ Len(file) \in Nat
  BY ConcatProperties, LenProperties DEF Buffers
<1>2. PICK cut \in Len(file)..Len(all) - 1 : file' = SubSeq(all, 1, cut)
  BY DEF WriteFails
<1>3. cut \in 0..Len(all)  BY <1>1, <1>2, LenProperties
<1> QED  BY <1>1, <1>2, <1>3, CutInTwo, EmptySeq DEF WriteFails

-----------------------------------------------------------------------------
(* Inv holds before the first start.                                       *)
LEMMA InitInv == Init => Inv
BY EmptySeq, ConcatEmptySeq DEF Init, Inv, Buffers, Copying, Counted, LogExact

(* A piece is copied: the log and its history grow by the same.            *)
LEMMA PieceCopied ==
  ASSUME Inv, pc \in {"idle", "copy"}, NEW r \in Request, NEW i \in 1..Size[r],
         CopyPiece(r, i), req' = r, UNCHANGED disk,
         clean' \in BOOLEAN, clean' => clean
  PROVE  Inv'
<1>1. <<r, i>> \in Piece  BY DEF Piece
<1>2. log' \in Seq(Piece) /\ issued' \in Seq(Piece)
  BY <1>1, AppendProperties DEF Inv, Buffers, CopyPiece
<1>3. pc' \in {"count", "copy"} /\ (pc' = "copy" => i < Size[r])
  BY SizeAssumption DEF CopyPiece
<1>4. clean' => issued' = file' \o stdio' \o log'
  <2>1. file \o stdio \o Append(log, <<r, i>>) = Append(file \o stdio \o log, <<r, i>>)
    BY <1>1, AppendToLast DEF Inv, Buffers
  <2>2. clean => issued = file \o stdio \o log  BY DEF Inv, LogExact
  <2> QED  BY <2>1, <2>2 DEF CopyPiece, disk
<1>5. copied' = i  BY DEF CopyPiece
<1> QED
  BY <1>2, <1>3, <1>4, <1>5 DEF Inv, Buffers, Copying, Counted, LogExact, disk

(* Every step preserves Inv.                                               *)
LEMMA NextInv == Inv /\ [Next]_vars => Inv'
<1> SUFFICES ASSUME Inv, [Next]_vars PROVE Inv'  OBVIOUS
<1> USE DEF Inv
<1>1. ASSUME NEW r \in Request, Begin(r) PROVE Inv'
  <2>1. 1 \in 1..Size[r]  BY SizeAssumption
  <2> QED  BY <1>1, <2>1, PieceCopied DEF Begin, Buffers
<1>2. CASE Copy
  <2>1. req \in Request /\ copied + 1 \in 1..Size[req]
    BY <1>2, SizeAssumption DEF Copy, Copying
  <2> QED  BY <1>2, <2>1, PieceCopied DEF Copy, Buffers
<1>3. CASE Count
  <2>1. pc' \in {"copy", "logged"} /\ (pc' = "copy" => copied < Size[req])
    BY <1>3, SizeAssumption DEF Count, Copying
  <2> QED  BY <1>3, <2>1 DEF Count, Buffers, Copying, Counted, LogExact, disk, history
<1>4. CASE Handle
  BY <1>4 DEF Handle, Buffers, Copying, Counted, LogExact, disk, history
<1>5. CASE TimerSave
  BY <1>5, WriteOutExact DEF TimerSave, Buffers, Copying, Counted, LogExact, memory, history
<1>6. CASE TimerFails
  BY <1>6, WriteFailsTyped DEF TimerFails, Buffers, Copying, Counted, LogExact, memory
<1>7. CASE Clear
  <2>1. file \o stdio \in Seq(Piece)  BY ConcatProperties DEF Buffers
  <2>2. (file \o stdio) \o <<>> = file \o stdio  BY <2>1, ConcatEmptySeq
  <2> QED
    BY <1>7, <2>2, EmptySeq DEF Clear, Buffers, Copying, Counted, LogExact, disk, history
<1>8. CASE Signal
  <2>1. CASE len = 0 /\ pc' = "close" /\ UNCHANGED disk /\ clean' = (clean /\ Orderly)
    <3>1. clean' => log = <<>> /\ issued = file \o stdio \o log
      BY <1>8, <2>1, EmptySeq DEF Signal, Orderly, Buffers, Counted, LogExact
    <3> QED
      BY <1>8, <2>1, <3>1 DEF Signal, Orderly, Buffers, Copying, Counted, LogExact, disk
  <2>2. CASE pc' = "sigclear" /\ WriteOut /\ clean' = (clean /\ Orderly)
    <3>1. clean' => issued = file' \o stdio'
      BY <1>8, <2>2, WriteOutExact DEF Signal, Orderly, Buffers, LogExact
    <3> QED
      BY <1>8, <2>2, <3>1, WriteOutExact DEF Signal, Orderly, Buffers, Copying, Counted, LogExact
  <2>3. CASE pc' = "close" /\ WriteFails
    BY <1>8, <2>3, WriteFailsTyped DEF Signal, Buffers, Copying, Counted, LogExact
  <2> QED  BY <1>8, <2>1, <2>2, <2>3 DEF Signal
<1>9. CASE SigClear
  <2>1. file \o stdio \in Seq(Piece)  BY ConcatProperties DEF Buffers
  <2>2. (file \o stdio) \o <<>> = file \o stdio  BY <2>1, ConcatEmptySeq
  <2> QED
    BY <1>9, <2>2, EmptySeq DEF SigClear, Buffers, Copying, Counted, LogExact, disk, history
<1>10. CASE Close
  <2>1. CASE file' = file \o stdio /\ UNCHANGED <<clean, kept>>
    <3>1. file' \in Seq(Piece) /\ <<>> \in Seq(Piece)
      BY <2>1, ConcatProperties, EmptySeq DEF Buffers
    <3>2. file' \o <<>> \o <<>> = file \o stdio /\ file \o stdio \o <<>> = file \o stdio
      BY <2>1, <3>1, ConcatEmptySeq
    <3> QED
      BY <1>10, <2>1, <3>1, <3>2 DEF Close, Buffers, Copying, Counted, LogExact
  <2>2. ASSUME NEW n \in 0..Len(stdio) - 1,
               file' = file \o SubSeq(stdio, 1, n), clean' = FALSE
        PROVE  Inv'
    <3>1. n \in 0..Len(stdio)  BY LenProperties DEF Buffers
    <3>2. file' \in Seq(Piece) /\ <<>> \in Seq(Piece)
      BY <2>2, <3>1, CutInTwo, ConcatProperties, EmptySeq DEF Buffers
    <3> QED  BY <1>10, <2>2, <3>2 DEF Close, Buffers, Copying, Counted, LogExact
  <2> QED  BY <1>10, <2>1, <2>2 DEF Close
<1>11. CASE Crash
  BY <1>11, EmptySeq DEF Crash, Buffers, Copying, Counted, LogExact
<1>12. ASSUME Open, clean' \in BOOLEAN PROVE Inv'
  <2>1. log = <<>> /\ stdio = <<>> /\ len = 0  BY <1>12 DEF Open, Counted
  <2>2. file \o <<>> \o <<>> = file  BY ConcatEmptySeq DEF Buffers
  <2>3. Len(log) = 0  BY <2>1, EmptySeq
  <2> QED
    BY <1>12, <2>1, <2>2, <2>3 DEF Open, Buffers, Copying, Counted, LogExact, memory, disk
<1>13. CASE Recover
  BY <1>12, <1>13 DEF Recover, Torn
<1>14. CASE StartEmpty
  BY <1>12, <1>14 DEF StartEmpty
<1>15. CASE UNCHANGED vars
  BY <1>15 DEF vars, memory, disk, history, Buffers, Copying, Counted, LogExact
<1> QED
  BY <1>1, <1>2, <1>3, <1>4, <1>5, <1>6, <1>7, <1>8, <1>9, <1>10, <1>11, <1>13, <1>14, <1>15
  DEF Next

-----------------------------------------------------------------------------
(* The inductive invariant of AoqLog.                                      *)
THEOREM LogInvariant == Spec => []Inv
BY InitInv, NextInv, PTL DEF Spec

(* File, stdio's buffer and log buffer together are the bytes of the       *)
(* requests, each once and in order, through writeAoqLog, the save timer,  *)
(* orderly stops and restarts, as long as no write failed, no signal came  *)
(* at a bad moment and no crash tore the tail.                             *)
THEOREM LogIsExact == Spec => []LogExact
<1>1. Inv => LogExact  BY DEF Inv
<1> QED  BY <1>1, LogInvariant, PTL

-----------------------------------------------------------------------------
(* Reading a log, piece by piece.                                          *)

(* What has been read after the first n pieces.                            *)
ReadBody(f, got, n) == IF n = 0 THEN Unread ELSE Read(got[n - 1], f[n])
ReadUpTo(f) == CHOOSE got : got = [n \in 0..Len(f) |-> ReadBody(f, got, n)]

(* Reading the whole is reading up to the last piece.                      *)
LEMMA ReadingIsReadUpTo ==
  ASSUME NEW f
  PROVE  Reading(f) = ReadUpTo(f)[Len(f)]
BY Zenon DEF Reading, ReadUpTo, ReadBody

(* The recursive function satisfies its equation.                          *)
LEMMA ReadEquation ==
  ASSUME NEW f, Len(f) \in Nat
  PROVE  \A n \in 0..Len(f) : ReadUpTo(f)[n] = ReadBody(f, ReadUpTo(f), n)
<1> DEFINE Eq(h, m) == h = [n \in 0..m |-> ReadBody(f, h, n)]
           S == {m \in Nat : \E h : Eq(h, m)}
<1>1. 0 \in S
  <2> DEFINE h == [n \in 0..0 |-> ReadBody(f, <<>>, n)]
  <2>1. ReadBody(f, h, 0) = ReadBody(f, <<>>, 0)  BY DEF ReadBody
  <2>2. Eq(h, 0)  BY <2>1
  <2> QED  BY <2>2
<1>2. ASSUME NEW m \in Nat, m \in S PROVE m + 1 \in S
  <2>1. PICK h : Eq(h, m)  BY <1>2
  <2> DEFINE g == [n \in 0..(m + 1) |-> ReadBody(f, h, n)]
  <2>2. \A n \in 0..m : g[n] = h[n]  BY <2>1
  <2>3. ASSUME NEW n \in 0..(m + 1) PROVE ReadBody(f, g, n) = ReadBody(f, h, n)
    <3>1. CASE n = 0  BY <3>1 DEF ReadBody
    <3>2. CASE n # 0
      <4> HIDE DEF g
      <4>1. n - 1 \in 0..m  BY <3>2
      <4>2. g[n - 1] = h[n - 1]  BY <4>1, <2>2
      <4> QED  BY <4>2 DEF ReadBody
    <3> QED  BY <3>1, <3>2
  <2>4. Eq(g, m + 1)  BY <2>3
  <2>5. m + 1 \in Nat  OBVIOUS
  <2> HIDE DEF Eq, g
  <2> QED  BY <2>4, <2>5, Zenon
<1>3. Len(f) \in S
  <2> HIDE DEF S
  <2> QED  BY <1>1, <1>2, Induction
<1>4. \E h : Eq(h, Len(f))  BY <1>3
<1>5. ReadUpTo(f) = CHOOSE h : Eq(h, Len(f))  BY Zenon DEF ReadUpTo
<1>6. Eq(ReadUpTo(f), Len(f))
  <2> HIDE DEF Eq
  <2> QED  BY <1>4, <1>5, Zenon
<1> QED  BY <1>6

(* How a log is read does not depend on what follows.                      *)
LEMMA ReadPrefix ==
  ASSUME NEW f, NEW h, Len(f) \in Nat, Len(h) \in Nat, Len(f) <= Len(h),
         \A i \in 1..Len(f) : f[i] = h[i]
  PROVE  \A n \in 0..Len(f) : ReadUpTo(f)[n] = ReadUpTo(h)[n]
<1> DEFINE S == {n \in Nat : n <= Len(f) => ReadUpTo(f)[n] = ReadUpTo(h)[n]}
<1>1. /\ \A n \in 0..Len(f) : ReadUpTo(f)[n] = ReadBody(f, ReadUpTo(f), n)
      /\ \A n \in 0..Len(f) : ReadUpTo(h)[n] = ReadBody(h, ReadUpTo(h), n)
  BY ReadEquation
<1>2. 0 \in S  BY <1>1 DEF ReadBody
<1>3. ASSUME NEW n \in Nat, n \in S PROVE n + 1 \in S
  <2>1. CASE n + 1 <= Len(f)
    <3>1. ReadUpTo(f)[n] = ReadUpTo(h)[n] /\ f[n + 1] = h[n + 1]  BY <1>3, <2>1
    <3>2. n + 1 \in 0..Len(f) /\ n + 1 # 0 /\ (n + 1) - 1 = n  BY <2>1
    <3>3. ReadUpTo(f)[n + 1] = ReadUpTo(h)[n + 1]  BY <1>1, <3>1, <3>2 DEF ReadBody
    <3> QED  BY <3>3
  <2> QED  BY <2>1
<1>4. Nat \subseteq S
  <2> HIDE DEF S
  <2> QED  BY <1>2, <1>3, Induction
<1> QED  BY <1>4

(* Nothing is read in an empty log.                                        *)
LEMMA ReadingOfNone == Reading(<<>>) = Unread
<1>1. Len(<<>>) = 0  BY EmptySeq
<1>2. Reading(<<>>) = ReadUpTo(<<>>)[0]  BY <1>1, ReadingIsReadUpTo
<1> QED  BY <1>1, <1>2, ReadEquation DEF ReadBody

(* A piece more is one more to read.                                       *)
LEMMA ReadingOfAppend ==
  ASSUME NEW S, NEW f \in Seq(S), NEW p \in S
  PROVE  Reading(Append(f, p)) = Read(Reading(f), p)
<1> DEFINE h == Append(f, p)
<1>1. /\ Len(f) \in Nat /\ Len(h) = Len(f) + 1 /\ Len(h) \in Nat
      /\ h[Len(f) + 1] = p /\ \A i \in 1..Len(f) : h[i] = f[i]
  BY AppendProperties, LenProperties
<1> HIDE DEF h
<1>2. ReadUpTo(h)[Len(f)] = ReadUpTo(f)[Len(f)]  BY <1>1, ReadPrefix
<1>3. ReadUpTo(h)[Len(h)] = ReadBody(h, ReadUpTo(h), Len(h))  BY <1>1, ReadEquation
<1>4. Len(h) # 0 /\ Len(h) - 1 = Len(f)  BY <1>1
<1>5. ReadUpTo(h)[Len(h)] = Read(ReadUpTo(f)[Len(f)], p)  BY <1>1, <1>2, <1>3, <1>4 DEF ReadBody
<1> QED  BY <1>5, ReadingIsReadUpTo DEF h

(* What each piece keeps of what was read, more of the log keeps.          *)
LEMMA ReadingKeeps ==
  ASSUME NEW S, NEW f \in Seq(S), NEW x \in Seq(S), NEW G,
         Reading(f) \in G, \A g \in G, p \in S : Read(g, p) \in G
  PROVE  Reading(f \o x) \in G
<1> DEFINE first(n) == SubSeq(x, 1, n)
           T == {n \in Nat : n <= Len(x) => Reading(f \o first(n)) \in G}
<1>1. Len(x) \in Nat /\ \A i \in 1..Len(x) : x[i] \in S  BY LenProperties, ElementOfSeq
<1>2. \A n \in 0..Len(x) : first(n) \in Seq(S)  BY <1>1, CutInTwo
<1>3. 0 \in T
  <2>1. first(0) = <<>>  BY <1>1, SubSeqEmpty
  <2>2. f \o first(0) = f  BY <2>1, ConcatEmptySeq
  <2> QED  BY <2>2
<1>4. ASSUME NEW n \in Nat, n \in T PROVE n + 1 \in T
  <2>1. CASE n + 1 <= Len(x)
    <3>1. first(n) \in Seq(S) /\ x[n + 1] \in S  BY <1>1, <1>2, <2>1
    <3>2. first(n + 1) = Append(first(n), x[n + 1])
      <4> n \in 0..Len(x) /\ n + 1 \in 0..Len(x)  BY <1>1, <2>1
      <4>1. /\ first(n + 1) \in Seq(S) /\ Len(first(n + 1)) = n + 1
            /\ \A i \in 1..(n + 1) : first(n + 1)[i] = x[i]
        BY FirstOnes
      <4>2. Len(first(n)) = n /\ \A i \in 1..n : first(n)[i] = x[i]
        BY FirstOnes
      <4>3. /\ Append(first(n), x[n + 1]) \in Seq(S)
            /\ Len(Append(first(n), x[n + 1])) = n + 1
            /\ \A i \in 1..n : Append(first(n), x[n + 1])[i] = x[i]
            /\ Append(first(n), x[n + 1])[n + 1] = x[n + 1]
        BY <3>1, <4>2, AppendProperties
      <4>4. \A i \in 1..(n + 1) : first(n + 1)[i] = Append(first(n), x[n + 1])[i]
        BY <4>1, <4>3
      <4> HIDE DEF first
      <4> QED  BY <4>1, <4>3, <4>4, SeqEqual
    <3>3. f \o first(n + 1) = Append(f \o first(n), x[n + 1])
      <4>1. f \o first(n) \in Seq(S) /\ <<x[n + 1]>> \in Seq(S)  BY <3>1, ConcatProperties
      <4>2. f \o Append(first(n), x[n + 1]) = f \o (first(n) \o <<x[n + 1]>>)
        BY <3>1, AppendIsConcat
      <4>3. @ = (f \o first(n)) \o <<x[n + 1]>>  BY <3>1, <4>1, ConcatAssociative
      <4>4. @ = Append(f \o first(n), x[n + 1])  BY <3>1, <4>1, AppendIsConcat
      <4> QED  BY <3>2, <4>2, <4>3, <4>4
    <3>4. f \o first(n) \in Seq(S)  BY <3>1, ConcatProperties
    <3>5. Reading(f \o first(n)) \in G  BY <1>4, <2>1
    <3> HIDE DEF first
    <3>6. Reading(Append(f \o first(n), x[n + 1])) = Read(Reading(f \o first(n)), x[n + 1])
      BY <3>1, <3>4, ReadingOfAppend
    <3>7. Reading(f \o first(n + 1)) \in G  BY <3>1, <3>3, <3>5, <3>6
    <3>8. n + 1 \in Nat  OBVIOUS
    <3> QED  BY <3>7, <3>8
  <2> QED  BY <2>1
<1>5. Len(x) \in T
  <2> HIDE DEF T
  <2> QED  BY <1>1, <1>3, <1>4, Induction
<1>6. first(Len(x)) = x  BY SubSeqFull
<1> HIDE DEF first
<1>7. Reading(f \o first(Len(x))) \in G  BY <1>1, <1>5
<1> QED  BY <1>6, <1>7

-----------------------------------------------------------------------------
(* Lines.                                                                  *)

(* What may have been read: whole lines were executed, and the last one    *)
(* has not ended.                                                          *)
Unended(line) == \A i \in 1..Len(line) : ~EndsLine(line[i])
Got == {g \in [line : Seq(Piece), done : Seq(Executed)] : Unended(g.line)}

(* The first n pieces of a request, all of which are its record.           *)
Begun(r, n) == [i \in 1..n |-> <<r, i>>]

(* The pieces a request begins with.                                       *)
LEMMA BegunPieces ==
  ASSUME NEW r \in Request, NEW n \in 0..Size[r]
  PROVE  Begun(r, n) \in Seq(Piece) /\ Len(Begun(r, n)) = n
<1>1. n \in Nat /\ \A i \in 1..n : <<r, i>> \in Piece  BY SizeAssumption DEF Piece
<1>2. Begun(r, n) \in Seq(Piece)  BY <1>1, IsASeq DEF Begun
<1> QED  BY <1>1, <1>2, LenProperties DEF Begun

(* A line runs as what it is, or not at all.                               *)
LEMMA CommandOfLine ==
  ASSUME NEW line \in Seq(Piece)
  PROVE  /\ Command(line) \in Seq(Executed)
         /\ Command(line) \in {<<>>, <<line>>}
         /\ Len(line) # 1 => Command(line) = <<line>>
<1>1. line \in Executed  BY DEF Executed
<1>2. <<line>> \in Seq(Executed) /\ <<>> \in Seq(Executed)  BY <1>1, EmptySeq
<1> QED  BY <1>2 DEF Command

(* The record of a request ends its line.                                  *)
LEMMA RecordEnds ==
  ASSUME NEW r \in Request
  PROVE  /\ Record(r) \in Seq(Piece) /\ Len(Record(r)) = Size[r]
         /\ Size[r] \in 1..Size[r] /\ EndsLine(Record(r)[Size[r]])
<1>1. Size[r] \in 1..Size[r] /\ Size[r] \in 0..Size[r]  BY SizeAssumption
<1>2. Record(r) = Begun(r, Size[r])  BY DEF Record, Begun
<1>3. Record(r)[Size[r]] = <<r, Size[r]>>  BY <1>1 DEF Record
<1> QED  BY <1>1, <1>2, <1>3, BegunPieces DEF EndsLine

(* It runs, however short the request is.                                  *)
LEMMA CommandOfRecord ==
  ASSUME NEW r \in Request
  PROVE  Record(r) \in Executed /\ Command(Record(r)) = <<Record(r)>>
<1>1. Record(r) \in Seq(Piece) /\ Len(Record(r)) = Size[r] /\ 1 \in 1..Size[r]
  BY RecordEnds, SizeAssumption
<1>2. Record(r)[1] = <<r, 1>>  BY <1>1 DEF Record
<1>3. Record(r)[1][1] = r  BY <1>2
<1>4. Size[r] \in Nat  BY SizeAssumption
<1>5. ~(Len(Record(r)) = 1 /\ Record(r)[1][2] = 1 /\ Size[Record(r)[1][1]] > 1)
  BY <1>1, <1>3, <1>4
<1> QED  BY <1>1, <1>5 DEF Command, Executed

(* A line with a piece more.                                               *)
LEMMA LineLonger ==
  ASSUME NEW line \in Seq(Piece), NEW p \in Piece
  PROVE  /\ Append(line, p) \in Seq(Piece) /\ Append(line, p) # <<>>
         /\ Unended(line) /\ ~EndsLine(p) => Unended(Append(line, p))
<1> DEFINE m == Append(line, p)
<1>1. /\ Len(line) \in Nat /\ m \in Seq(Piece) /\ Len(m) = Len(line) + 1
      /\ m[Len(line) + 1] = p /\ \A i \in 1..Len(line) : m[i] = line[i]
  BY AppendProperties, LenProperties
<1> HIDE DEF m
<1>2. m # <<>>  BY <1>1, EmptySeq
<1>3. ASSUME Unended(line), ~EndsLine(p) PROVE Unended(m)
  <2>1. ASSUME NEW i \in 1..Len(m) PROVE ~EndsLine(m[i])
    <3>1. i \in 1..Len(line) \/ i = Len(line) + 1  BY <1>1
    <3> QED  BY <1>1, <1>3, <3>1 DEF Unended
  <2> QED  BY <2>1 DEF Unended
<1> QED  BY <1>1, <1>2, <1>3 DEF m

(* A piece read.                                                           *)
LEMMA ReadGot ==
  ASSUME NEW g \in Got, NEW p \in Piece
  PROVE  /\ Read(g, p) \in Got
         /\ Read(g, p).line = <<>> <=> EndsLine(p)
         /\ ~EndsLine(p) => /\ Read(g, p).line = Append(g.line, p)
                            /\ Read(g, p).done = g.done
         /\ EndsLine(p) => Read(g, p).done = g.done \o Command(Append(g.line, p))
<1>1. g.line \in Seq(Piece) /\ g.done \in Seq(Executed) /\ Unended(g.line)  BY DEF Got
<1>2. /\ Append(g.line, p) \in Seq(Piece) /\ Append(g.line, p) # <<>>
      /\ ~EndsLine(p) => Unended(Append(g.line, p))
  BY <1>1, LineLonger
<1>3. g.done \o Command(Append(g.line, p)) \in Seq(Executed)
  BY <1>1, <1>2, CommandOfLine, ConcatProperties
<1>4. <<>> \in Seq(Piece) /\ Unended(<<>>)  BY EmptySeq DEF Unended
<1> QED  BY <1>1, <1>2, <1>3, <1>4 DEF Read, Got

(* What is read in a log.                                                  *)
LEMMA ReadingType ==
  ASSUME NEW f \in Seq(Piece)
  PROVE  Reading(f) \in Got
<1>1. <<>> \in Seq(Piece) /\ <<>> \in Seq(Executed) /\ Unended(<<>>)  BY EmptySeq DEF Unended
<1>2. Unread \in Got  BY <1>1 DEF Unread, Got
<1>3. Reading(<<>>) \in Got  BY <1>2, ReadingOfNone
<1>4. \A g \in Got, p \in Piece : Read(g, p) \in Got  BY ReadGot
<1>5. Reading(<<>> \o f) \in Got  BY <1>1, <1>3, <1>4, ReadingKeeps
<1> QED  BY <1>5, ConcatEmptySeq

(* What recovery makes of it: the unfinished line runs as well, if it is   *)
(* not too short.                                                          *)
LEMMA ReplayOfGot ==
  ASSUME NEW f \in Seq(Piece)
  PROVE  /\ Replay(f) \in Seq(Executed)
         /\ \/ Replay(f) = Reading(f).done
            \/ /\ Reading(f).line # <<>> /\ Reading(f).line \in Executed
               /\ Replay(f) = Append(Reading(f).done, Reading(f).line)
         /\ Reading(f).line = <<>> => Replay(f) = Reading(f).done
<1> DEFINE g == Reading(f)
<1>1. g \in Got  BY ReadingType
<1>2. g.line \in Seq(Piece) /\ g.done \in Seq(Executed)  BY <1>1 DEF Got
<1>3. Replay(f) = IF g.line = <<>> THEN g.done ELSE g.done \o Command(g.line)  BY DEF Replay
<1> HIDE DEF g
<1>4. g.line \in Executed  BY <1>2 DEF Executed
<1>5. g.done \o <<>> = g.done /\ g.done \o <<g.line>> = Append(g.done, g.line)
  BY <1>2, <1>4, ConcatEmptySeq, AppendIsConcat
<1>6. Append(g.done, g.line) \in Seq(Executed)  BY <1>2, <1>4, AppendProperties
<1>7. CASE g.line = <<>>
  BY <1>2, <1>3, <1>7 DEF g
<1>8. CASE g.line # <<>>
  <2>1. Command(g.line) \in {<<>>, <<g.line>>}  BY <1>2, CommandOfLine
  <2> QED  BY <1>2, <1>3, <1>4, <1>5, <1>6, <1>8, <2>1 DEF g
<1> QED  BY <1>7, <1>8

(* A line has not ended exactly when the log is torn.                      *)
LEMMA TornLine ==
  ASSUME NEW f \in Seq(Piece)
  PROVE  Torn(f) <=> Reading(f).line # <<>>
<1>1. CASE f = <<>>
  BY <1>1, ReadingOfNone DEF Torn, Unread
<1>2. CASE f # <<>>
  <2> DEFINE n == Len(f)
             front == SubSeq(f, 1, n - 1)
  <2>1. n \in Nat /\ n # 0 /\ \A i \in 1..n : f[i] \in Piece
    BY <1>2, EmptySeq, LenProperties, ElementOfSeq
  <2>2. n - 1 \in 0..n /\ n \in 1..n  BY <2>1
  <2>3. front \in Seq(Piece)  BY <2>2, CutInTwo
  <2>4. Len(front) = n - 1 /\ \A i \in 1..n - 1 : front[i] = f[i]
    BY <2>2, FirstOnes
  <2>5. Append(front, f[n]) = f
    <3>1. /\ Append(front, f[n]) \in Seq(Piece) /\ Len(Append(front, f[n])) = n
          /\ \A i \in 1..n - 1 : Append(front, f[n])[i] = f[i]
          /\ Append(front, f[n])[n] = f[n]
      BY <2>1, <2>2, <2>3, <2>4, AppendProperties
    <3>2. \A i \in 1..n : Append(front, f[n])[i] = f[i]  BY <2>1, <3>1
    <3> HIDE DEF front
    <3> QED  BY <3>1, <3>2, SeqEqual
  <2> HIDE DEF front
  <2>6. Reading(f) = Read(Reading(front), f[n])  BY <2>1, <2>2, <2>3, <2>5, ReadingOfAppend
  <2>7. Reading(front) \in Got /\ f[n] \in Piece  BY <2>1, <2>2, <2>3, ReadingType
  <2>8. Reading(f).line = <<>> <=> EndsLine(f[n])
    <3> DEFINE g == Reading(front)
               e == f[n]
    <3>1. g \in Got /\ e \in Piece /\ Reading(f) = Read(g, e)  BY <2>6, <2>7
    <3> HIDE DEF g, e
    <3>2. Read(g, e).line = <<>> <=> EndsLine(e)  BY <3>1, ReadGot
    <3> QED  BY <3>1, <3>2 DEF e
  <2> QED  BY <1>2, <2>8 DEF Torn
<1> QED  BY <1>1, <1>2

-----------------------------------------------------------------------------
(* The types.                                                              *)

(* What is in hand, and what was run.                                      *)
InHand ==
  /\ req \in Request \cup {NULL}
  /\ (req # NULL) = (pc \in {"copy", "count", "logged"})
  /\ IF req = NULL THEN copied = 0 ELSE copied \in 1..Size[req]

Runs ==
  /\ ran \in Seq(Executed) /\ was \in Seq(Executed)
  /\ kept \in [how : {"none", "stop", "killed", "crash"}, ran : Seq(Executed)]

(* TypeOK is what Inv knows of the buffers, with these.                    *)
LEMMA TypeParts ==
  Inv => (TypeOK <=> InHand /\ Runs /\ len \in 0..Len(log) /\ starts \in Nat)
BY DEF Inv, Buffers, TypeOK, InHand, Runs

(* A piece copied leaves no more to count than was copied.                 *)
LEMMA PieceCounted ==
  ASSUME log \in Seq(Piece), len \in 0..Len(log), NEW r, NEW i, <<r, i>> \in Piece,
         CopyPiece(r, i)
  PROVE  len \in 0..Len(log')
<1>1. Len(log') = Len(log) + 1 /\ Len(log) \in Nat
  BY AppendProperties, LenProperties DEF CopyPiece
<1> QED  BY <1>1

(* What the server has run when it goes down is a sequence.                *)
LEMMA RanType ==
  ASSUME InHand, Runs
  PROVE  Ran \in Seq(Executed)
<1>1. req # NULL => Record(req) \in Executed  BY CommandOfRecord DEF InHand
<1> QED  BY <1>1, AppendProperties DEF Ran, Runs

(* It holds at first.                                                      *)
LEMMA InitTypes == Init => TypeOK
<1> SUFFICES ASSUME Init PROVE TypeOK  OBVIOUS
<1>1. Inv  BY InitInv
<1>2. <<>> \in Seq(Executed) /\ Len(<<>>) = 0  BY EmptySeq
<1>3. InHand /\ Runs /\ len \in 0..Len(log) /\ starts \in Nat
  BY <1>2, NullAssumption DEF Init, Nothing, InHand, Runs
<1> QED  BY <1>1, <1>3, TypeParts

(* Every step keeps the types.                                             *)
LEMMA NextTypes == Inv /\ TypeOK /\ [Next]_vars => TypeOK'
<1> SUFFICES ASSUME Inv, TypeOK, [Next]_vars PROVE TypeOK'  OBVIOUS
<1> DEFINE Goal == InHand' /\ Runs' /\ len' \in 0..Len(log') /\ starts' \in Nat
<1>1. Inv'  BY NextInv
<1>2. InHand /\ Runs /\ len \in 0..Len(log) /\ starts \in Nat  BY TypeParts
<1>3. log \in Seq(Piece) /\ log' \in Seq(Piece) /\ Len(log) \in Nat /\ Len(log') \in Nat
  BY <1>1, LenProperties DEF Inv, Buffers
<1>4. <<>> \in Seq(Executed) /\ Len(<<>>) = 0  BY EmptySeq
<1>4a. Nothing \in [how : {"none", "stop", "killed", "crash"}, ran : Seq(Executed)]
  BY <1>4 DEF Nothing
<1>5. ASSUME UNCHANGED <<ran, was, kept>> PROVE Runs'  BY <1>2, <1>5 DEF Runs
<1>6. ASSUME UNCHANGED log, len' = len PROVE len' \in 0..Len(log')  BY <1>2, <1>6
<1>7. ASSUME log' = <<>>, len' = 0 PROVE len' \in 0..Len(log')  BY <1>4, <1>7
<1>8. ASSUME NEW r \in Request, Begin(r) PROVE Goal
  <2>1. 1 \in 1..Size[r] /\ <<r, 1>> \in Piece  BY SizeAssumption DEF Piece
  <2>2. InHand'  BY <1>8, <2>1, NullAssumption DEF Begin, CopyPiece, InHand
  <2>3. len' \in 0..Len(log')  BY <1>2, <1>3, <1>8, <2>1, PieceCounted DEF Begin
  <2> QED  BY <1>2, <1>5, <1>8, <2>2, <2>3 DEF Begin
<1>9. ASSUME Copy PROVE Goal
  <2>1. req \in Request /\ copied + 1 \in 1..Size[req]
    BY <1>9, SizeAssumption DEF Copy, Inv, Copying
  <2>2. <<req, copied + 1>> \in Piece  BY <2>1 DEF Piece
  <2>3. InHand'  BY <1>9, <2>1, NullAssumption DEF Copy, CopyPiece, InHand
  <2>4. len' \in 0..Len(log')  BY <1>2, <1>3, <1>9, <2>2, PieceCounted DEF Copy
  <2> QED  BY <1>2, <1>5, <1>9, <2>3, <2>4 DEF Copy
<1>10. ASSUME Count PROVE Goal
  <2>1. InHand'  BY <1>2, <1>10 DEF Count, InHand
  <2>2. len' \in 0..Len(log')  BY <1>3, <1>10 DEF Count
  <2> QED  BY <1>2, <1>5, <1>10, <2>1, <2>2 DEF Count, history
<1>11. ASSUME Handle PROVE Goal
  <2>1. Record(req) \in Executed  BY <1>2, <1>11, CommandOfRecord DEF Handle, InHand
  <2>2. InHand'  BY <1>11 DEF Handle, InHand
  <2>3. Runs'  BY <1>2, <1>11, <2>1, AppendProperties DEF Handle, Runs, history
  <2> QED  BY <1>2, <1>6, <1>11, <2>2, <2>3 DEF Handle
<1>12. ASSUME TimerSave \/ TimerFails PROVE Goal
  <2>1. InHand'  BY <1>2, <1>12 DEF TimerSave, TimerFails, memory, InHand
  <2> QED  BY <1>2, <1>5, <1>6, <1>12, <2>1 DEF TimerSave, TimerFails, memory, history
<1>13. ASSUME Clear \/ SigClear PROVE Goal
  <2>1. InHand'  BY <1>2, <1>13 DEF Clear, SigClear, InHand
  <2> QED  BY <1>2, <1>5, <1>7, <1>13, <2>1 DEF Clear, SigClear, history
<1>14. ASSUME Signal PROVE Goal
  <2>1. InHand'  BY <1>14 DEF Signal, InHand
  <2>2. Runs'  BY <1>2, <1>14, RanType DEF Signal, Runs
  <2> QED  BY <1>2, <1>6, <1>14, <2>1, <2>2 DEF Signal
<1>15. ASSUME Close PROVE Goal
  <2>1. InHand'  BY <1>2, <1>15 DEF Close, InHand
  <2>2. kept' = kept \/ kept' = Nothing  BY <1>15 DEF Close
  <2>3. Runs'  BY <1>2, <1>4, <1>15, <1>4a, <2>2 DEF Close, Runs
  <2> QED  BY <1>2, <1>7, <1>15, <2>1, <2>3 DEF Close
<1>16. ASSUME Crash PROVE Goal
  <2>1. InHand'  BY <1>16 DEF Crash, InHand
  <2>2. Runs'  BY <1>2, <1>4, <1>16, <1>4a, RanType DEF Crash, Runs
  <2> QED  BY <1>2, <1>7, <1>16, <2>1, <2>2 DEF Crash
<1>17. ASSUME Recover \/ StartEmpty PROVE Goal
  <2>1. InHand'  BY <1>2, <1>17 DEF Recover, StartEmpty, Open, memory, InHand
  <2>2. Replay(file) \in Seq(Executed)  BY ReplayOfGot DEF Inv, Buffers
  <2>3. Runs'  BY <1>2, <1>4, <1>17, <1>4a, <2>2 DEF Recover, StartEmpty, Open, Runs
  <2>4. starts' \in Nat  BY <1>2, <1>17 DEF Recover, StartEmpty, Open
  <2> QED  BY <1>6, <1>17, <2>1, <2>3, <2>4 DEF Recover, StartEmpty, Open, memory
<1>18. ASSUME UNCHANGED vars PROVE Goal
  <2>1. InHand'  BY <1>2, <1>18 DEF vars, memory, InHand
  <2> QED  BY <1>2, <1>5, <1>6, <1>18, <2>1 DEF vars, memory, history
<1>19. Goal
  <2> HIDE DEF Goal
  <2> QED
    BY <1>8, <1>9, <1>10, <1>11, <1>12, <1>13, <1>14, <1>15, <1>16, <1>17, <1>18 DEF Next
<1>20. Inv' => (TypeOK' <=> Goal)
  BY DEF Inv, Buffers, TypeOK, InHand, Runs
<1> QED  BY <1>1, <1>19, <1>20

(* The variables of the log have their types: half a request is in hand    *)
(* exactly while it is being logged, no more is counted than was copied,   *)
(* and recovery executes nothing but lines made of pieces of requests.     *)
THEOREM TypeCorrect == Spec => []TypeOK
<1>1. Init => Inv /\ TypeOK  BY InitInv, InitTypes
<1>2. Inv /\ TypeOK /\ [Next]_vars => Inv' /\ TypeOK'  BY NextInv, NextTypes
<1> QED  BY <1>1, <1>2, PTL DEF Spec

-----------------------------------------------------------------------------
(* What fprintf moves to the file is the beginning of what was not there.  *)
Unwritten == stdio \o log

LEMMA WriteMoves ==
  ASSUME Buffers
  PROVE  /\ WriteOut => \E n \in 0..Len(Unwritten) :
              /\ file' = file \o SubSeq(Unwritten, 1, n)
              /\ stdio' = SubSeq(Unwritten, n + 1, Len(Unwritten))
         /\ WriteFails => \E n \in 0..Len(Unwritten) :
              file' = file \o SubSeq(Unwritten, 1, n) /\ stdio' = <<>>
<1> DEFINE z == Unwritten
           all == file \o z
<1>1. z \in Seq(Piece) /\ file \in Seq(Piece)  BY ConcatProperties DEF Buffers, Unwritten
<1>2. file \o stdio \o log = all  BY ConcatAssociative, SMTT(30) DEF Buffers, Unwritten
<1> HIDE DEF z
<1>3. Len(file) \in Nat /\ Len(z) \in Nat /\ Len(all) = Len(file) + Len(z)
  BY <1>1, ConcatProperties, LenProperties
<1>4. ASSUME NEW cut \in Len(file)..Len(all)
      PROVE  \E n \in 0..Len(z) : /\ SubSeq(all, 1, cut) = file \o SubSeq(z, 1, n)
                                  /\ SubSeq(all, cut + 1, Len(all)) = SubSeq(z, n + 1, Len(z))
  <2> DEFINE n == cut - Len(file)
  <2>1. n \in 0..Len(z) /\ cut = Len(file) + n  BY <1>3
  <2> HIDE DEF n
  <2>2. /\ SubSeq(all, 1, Len(file) + n) = file \o SubSeq(z, 1, n)
        /\ SubSeq(all, Len(file) + n + 1, Len(all)) = SubSeq(z, n + 1, Len(z))
    BY <1>1, <2>1, CutBehind
  <2> QED  BY <2>1, <2>2
<1> HIDE DEF all
<1>5. ASSUME WriteOut
      PROVE  \E n \in 0..Len(z) : file' = file \o SubSeq(z, 1, n) /\ stdio' = SubSeq(z, n + 1, Len(z))
  <2>1. PICK cut \in Len(file)..Len(all) :
          file' = SubSeq(all, 1, cut) /\ stdio' = SubSeq(all, cut + 1, Len(all))
    BY <1>2, <1>5 DEF WriteOut
  <2> QED  BY <1>4, <2>1
<1>6. ASSUME WriteFails
      PROVE  \E n \in 0..Len(z) : file' = file \o SubSeq(z, 1, n) /\ stdio' = <<>>
  <2>1. PICK cut \in Len(file)..Len(all) - 1 : file' = SubSeq(all, 1, cut)
    BY <1>2, <1>6 DEF WriteFails
  <2>2. cut \in Len(file)..Len(all)  BY <1>3, <2>1
  <2> QED  BY <1>4, <1>6, <2>1, <2>2 DEF WriteFails
<1> QED  BY <1>5, <1>6 DEF z

-----------------------------------------------------------------------------
(* Reading what the server has logged gives what it has run.               *)

Ended(done) == [line |-> <<>>, done |-> done]

(* The next piece of a request that is logged whole: the last one executes *)
(* it.                                                                     *)
LEMMA ReadOwn ==
  ASSUME NEW r \in Request, Plain(r), NEW n \in 0..Size[r] - 1, NEW done \in Seq(Executed),
         NEW got, got = [line |-> Begun(r, n), done |-> done]
  PROVE  Read(got, <<r, n + 1>>) =
           IF n + 1 = Size[r] THEN Ended(Append(done, Record(r)))
           ELSE [line |-> Begun(r, n + 1), done |-> done]
<1> DEFINE p == <<r, n + 1>>
           m == Append(Begun(r, n), p)
<1>1. Size[r] \in Nat /\ n \in 0..Size[r] /\ n + 1 \in 0..Size[r] /\ n + 1 \in 1..Size[r]
  BY SizeAssumption
<1>2. p \in Piece  BY <1>1 DEF Piece
<1>3. EndsLine(p) <=> n + 1 = Size[r]  BY DEF EndsLine, Plain
<1>4. m = Begun(r, n + 1)
  <2> DEFINE a == Begun(r, n)
             b == Begun(r, n + 1)
  <2>1. /\ a \in Seq(Piece) /\ Len(a) = n /\ b \in Seq(Piece) /\ Len(b) = n + 1
    BY <1>1, BegunPieces
  <2>2. /\ \A i \in 1..n : a[i] = <<r, i>>
        /\ \A i \in 1..n + 1 : b[i] = <<r, i>>
    BY DEF Begun
  <2> HIDE DEF a, b, p
  <2>3. /\ Append(a, p) \in Seq(Piece) /\ Len(Append(a, p)) = n + 1
        /\ \A i \in 1..n : Append(a, p)[i] = a[i]
        /\ Append(a, p)[n + 1] = p
    BY <1>2, <2>1, AppendProperties
  <2>4. ASSUME NEW i \in 1..n + 1 PROVE Append(a, p)[i] = b[i]
    <3>1. CASE i = n + 1
      <4>1. b[n + 1] = <<r, n + 1>>  BY <1>1, <2>2
      <4> QED  BY <2>3, <3>1, <4>1 DEF p
    <3>2. CASE i # n + 1
      <4>1. i \in 1..n  BY <1>1, <3>2
      <4> QED  BY <2>2, <2>3, <4>1
    <3> QED  BY <3>1, <3>2
  <2>5. Append(a, p) = b  BY <2>1, <2>3, <2>4, SeqEqual
  <2> QED  BY <2>5 DEF a, b
<1>5. CASE n + 1 = Size[r]
  <2>1. m = Record(r)  BY <1>4, <1>5 DEF Record, Begun
  <2>2. Command(m) = <<Record(r)>>  BY <2>1, CommandOfRecord
  <2>3. done \o <<Record(r)>> = Append(done, Record(r))
    BY CommandOfRecord, AppendIsConcat
  <2> HIDE DEF m
  <2>4. Read(got, p) = [line |-> <<>>, done |-> done \o Command(m)]
    BY <1>3, <1>5 DEF Read, m
  <2> QED  BY <1>5, <2>2, <2>3, <2>4 DEF Ended, p
<1>6. CASE n + 1 # Size[r]
  <2>1. ~EndsLine(p)  BY <1>3, <1>6
  <2>2. Read(got, p) = [line |-> m, done |-> done]
    <3> HIDE DEF p
    <3> QED  BY <2>1 DEF Read
  <2> QED  BY <1>4, <1>6, <2>2 DEF p
<1> QED  BY <1>5, <1>6

(* More of the log takes nothing back of what was executed.                *)
LEMMA MoreIsDone ==
  ASSUME NEW f \in Seq(Piece), NEW x \in Seq(Piece)
  PROVE  IsPrefix(Reading(f).done, Reading(f \o x).done)
<1> DEFINE s == Reading(f).done
           G == {g \in Got : IsPrefix(s, g.done)}
<1>1. Reading(f) \in Got /\ s \in Seq(Executed)  BY ReadingType DEF Got
<1>2. Reading(f) \in G
  <2>1. IsPrefix(s, s)  BY <1>1, PrefixOfLonger
  <2> QED  BY <1>1, <2>1
<1>3. ASSUME NEW g \in G, NEW p \in Piece PROVE Read(g, p) \in G
  <2>1. g \in Got /\ IsPrefix(s, g.done) /\ g.line \in Seq(Piece) /\ g.done \in Seq(Executed)
    BY DEF Got
  <2>2. Read(g, p) \in Got  BY <2>1, ReadGot
  <2> HIDE DEF s, G
  <2>3. CASE ~EndsLine(p)
    <3>1. Read(g, p).done = g.done  BY <2>1, <2>3, ReadGot
    <3> QED  BY <2>1, <2>2, <3>1 DEF G
  <2>4. CASE EndsLine(p)
    <3> DEFINE c == Command(Append(g.line, p))
    <3>1. Read(g, p).done = g.done \o c  BY <2>1, <2>4, ReadGot
    <3>2. Append(g.line, p) \in Seq(Piece)  BY <2>1, LineLonger
    <3>3. c \in Seq(Executed)  BY <3>2, CommandOfLine
    <3> HIDE DEF c
    <3>4. g.done \o c \in Seq(Executed) /\ IsPrefix(g.done, g.done \o c)
      BY <2>1, <3>3, PrefixOfLonger, ConcatProperties
    <3>5. IsPrefix(s, g.done \o c)  BY <1>1, <2>1, <3>4, PrefixOfPrefix
    <3> QED  BY <2>2, <3>1, <3>5 DEF G
  <2> QED  BY <2>3, <2>4
<1> HIDE DEF G
<1>4. Reading(f \o x) \in G  BY <1>2, <1>3, ReadingKeeps
<1> QED  BY <1>4 DEF G

(* While nothing has happened that the log does not survive, what was      *)
(* logged reads as what was executed, and as the part of the record in     *)
(* hand that was copied.  The signal handler has noted what that is.       *)
Truth ==
  /\ pc = "logged" => copied = Size[req]
  /\ clean /\ pc \in {"idle", "clear"} => Reading(issued) = Ended(ran)
  /\ clean /\ pc \in {"copy", "count", "logged"} =>
       /\ Plain(req)
       /\ Reading(issued) = IF copied = Size[req] THEN Ended(Append(ran, Record(req)))
                            ELSE [line |-> Begun(req, copied), done |-> ran]
  /\ clean /\ pc \in {"sigclear", "close"} => kept.how = "stop"

(* After a stop that the log survives, it reads as what had been run.      *)
Stopped ==
  kept.how = "stop" => /\ clean /\ pc \in {"sigclear", "close", "down"}
                       /\ Reading(issued) = Ended(kept.ran)

(* They hold at first.                                                     *)
LEMMA InitTruth == Init => Truth /\ Stopped
BY DEF Init, Truth, Stopped, Nothing

(* A piece of the request in hand.                                         *)
LEMMA CopyTruth ==
  ASSUME Inv, NEW r \in Request, NEW n \in 0..Size[r] - 1, CopyPiece(r, n + 1),
         ran \in Seq(Executed), UNCHANGED <<ran, kept>>, req' = r, kept.how # "stop",
         clean' => Plain(r) /\ Reading(issued) = [line |-> Begun(r, n), done |-> ran]
  PROVE  Truth' /\ Stopped'
<1>1. Size[r] \in Nat /\ n + 1 \in 1..Size[r]  BY SizeAssumption
<1>2. <<r, n + 1>> \in Piece /\ issued \in Seq(Piece)  BY <1>1 DEF Piece, Inv, Buffers
<1>3. Reading(issued') = Read(Reading(issued), <<r, n + 1>>)
  BY <1>2, ReadingOfAppend DEF CopyPiece
<1>4. clean' => Reading(issued') = IF n + 1 = Size[r] THEN Ended(Append(ran, Record(r)))
                                   ELSE [line |-> Begun(r, n + 1), done |-> ran]
  BY <1>3, ReadOwn
<1>5. pc' \in {"copy", "count"} /\ copied' = n + 1  BY DEF CopyPiece
<1>6. Truth'  BY <1>4, <1>5 DEF Truth
<1>7. Stopped'  BY DEF Stopped
<1> QED  BY <1>6, <1>7

(* Every step keeps them.                                                  *)
LEMMA NextTruth == Inv /\ TypeOK /\ Truth /\ Stopped /\ [Next]_vars => Truth' /\ Stopped'
<1> SUFFICES ASSUME Inv, TypeOK, Truth, Stopped, [Next]_vars PROVE Truth' /\ Stopped'
  OBVIOUS
<1> DEFINE Goal == Truth' /\ Stopped'
<1>1. /\ ran \in Seq(Executed) /\ clean \in BOOLEAN
      /\ (req # NULL) = (pc \in {"copy", "count", "logged"})
      /\ req = NULL => copied = 0
  BY DEF TypeOK
<1>2. ASSUME NEW r \in Request, Begin(r) PROVE Goal
  <2>1. 0 \in 0..Size[r] - 1 /\ Size[r] \in Nat  BY SizeAssumption
  <2>2. Begun(r, 0) = <<>>
    <3>1. Begun(r, 0) \in Seq(Piece) /\ Len(Begun(r, 0)) = 0  BY <2>1, BegunPieces
    <3> QED  BY <3>1, EmptySeq
  <2>3. clean' => Plain(r) /\ Reading(issued) = [line |-> Begun(r, 0), done |-> ran]
    BY <1>2, <2>2 DEF Begin, Truth, Ended
  <2>4. CopyPiece(r, 0 + 1) /\ UNCHANGED <<ran, kept>> /\ req' = r  BY <1>2 DEF Begin
  <2>5. kept.how # "stop"  BY <1>2 DEF Begin, Stopped
  <2> QED  BY <1>1, <2>1, <2>3, <2>4, <2>5, CopyTruth
<1>3. ASSUME Copy PROVE Goal
  <2>1. req \in Request /\ copied \in 0..Size[req] - 1 /\ copied # Size[req]
    BY <1>3, SizeAssumption DEF Copy, Inv, Copying
  <2>2. clean' => Plain(req) /\ Reading(issued) = [line |-> Begun(req, copied), done |-> ran]
    BY <1>3, <2>1 DEF Copy, Truth
  <2>3. CopyPiece(req, copied + 1) /\ UNCHANGED <<ran, kept>> /\ req' = req  BY <1>3 DEF Copy
  <2>4. kept.how # "stop"  BY <1>3 DEF Copy, Stopped
  <2> QED  BY <1>1, <2>1, <2>2, <2>3, <2>4, CopyTruth
<1>4. ASSUME Count PROVE Goal
  BY <1>4 DEF Count, Truth, Stopped, history
<1>5. ASSUME Handle PROVE Goal
  BY <1>5 DEF Handle, Truth, Stopped, history
<1>6. ASSUME TimerSave PROVE Goal
  BY <1>6 DEF TimerSave, Truth, Stopped, memory, history
<1>7. ASSUME TimerFails PROVE Goal
  BY <1>7 DEF TimerFails, WriteFails, Truth, Stopped, memory
<1>8. ASSUME Clear PROVE Goal
  BY <1>8 DEF Clear, Truth, Stopped, history
<1>9. ASSUME Signal PROVE Goal
  <2>1. pc' \in {"sigclear", "close"} /\ UNCHANGED issued /\ (clean' => clean /\ Orderly)
    BY <1>9 DEF Signal, WriteFails
  <2>2. kept'.ran = Ran /\ (kept'.how = "stop" <=> clean')  BY <1>9 DEF Signal
  <2>3. clean' \in BOOLEAN  BY <1>1, <1>9 DEF Signal, WriteFails, Orderly
  <2>4. ASSUME clean' PROVE Reading(issued) = Ended(Ran)
    <3>1. CASE pc = "close"
      BY <2>1, <2>4, <3>1 DEF Ran, Stopping, Truth, Stopped
    <3>2. CASE pc \in {"idle", "logged"}
      BY <1>1, <2>1, <2>4, <3>2 DEF Ran, Stopping, Truth
    <3> QED  BY <2>1, <2>4, <3>1, <3>2 DEF Orderly
  <2>5. Truth'  BY <2>1, <2>2 DEF Truth
  <2>6. Stopped'  BY <2>1, <2>2, <2>4 DEF Stopped
  <2> QED  BY <2>5, <2>6
<1>10. ASSUME SigClear PROVE Goal
  BY <1>10 DEF SigClear, Truth, Stopped, history
<1>11. ASSUME Close PROVE Goal
  <2>1. UNCHANGED <<clean, kept>> \/ kept' = Nothing  BY <1>11 DEF Close
  <2> QED  BY <1>11, <2>1 DEF Close, Truth, Stopped, Nothing
<1>12. ASSUME Crash PROVE Goal
  BY <1>12 DEF Crash, Truth, Stopped, Nothing
<1>13. ASSUME Recover PROVE Goal
  <2>1. file \in Seq(Piece)  BY DEF Inv, Buffers
  <2>2. clean' => Reading(file).line = <<>>
    BY <1>13, <2>1, TornLine DEF Recover
  <2>3. Reading(file) \in Got  BY <2>1, ReadingType
  <2>4. Reading(file).line = <<>> => Reading(file) = Ended(Replay(file))
    BY <2>3 DEF Got, Ended, Replay
  <2> QED  BY <1>13, <2>2, <2>4 DEF Recover, Open, Truth, Stopped, Nothing, Ended
<1>14. ASSUME StartEmpty PROVE Goal
  BY <1>14, ReadingOfNone DEF StartEmpty, Open, Truth, Stopped, Nothing, Ended, Unread
<1>15. ASSUME UNCHANGED vars PROVE Goal
  BY <1>15 DEF vars, Truth, Stopped
<1>16. Goal
  <2> HIDE DEF Goal
  <2> QED
    BY <1>2, <1>3, <1>4, <1>5, <1>6, <1>7, <1>8, <1>9, <1>10, <1>11, <1>12, <1>13, <1>14, <1>15
    DEF Next
<1> QED  BY <1>16

-----------------------------------------------------------------------------
(* What a crash leaves in the file is some of the first lines, and perhaps *)
(* the beginning of the next.                                              *)
CutIn(g, t) ==
  /\ Len(g.done) < Len(t)
  /\ \E k \in 1..Len(t[Len(g.done) + 1]) - 1 :
       g.line = SubSeq(t[Len(g.done) + 1], 1, k)

CutOf(g, t) == IsPrefix(g.done, t) /\ (g.line # <<>> => CutIn(g, t))

(* What is read of a log after what was read of its beginning.             *)
Follows(g, h) ==
  /\ IsPrefix(g.done, h.done)
  /\ g.line # <<>> => \/ g.done = h.done /\ IsPrefix(g.line, h.line)
                      \/ CutIn(g, h.done)

Crashed ==
  kept.how = "crash" => pc = "down" /\ CutOf(Reading(file), kept.ran)

(* The file holds the beginning of what was logged.                        *)
LEMMA FileIsFirst ==
  ASSUME Inv, clean
  PROVE  \E y \in Seq(Piece) : issued = file \o y
<1>1. file \in Seq(Piece) /\ stdio \in Seq(Piece) /\ log \in Seq(Piece)  BY DEF Inv, Buffers
<1>2. stdio \o log \in Seq(Piece)  BY <1>1, ConcatProperties
<1>3. file \o stdio \o log = file \o (stdio \o log)  BY <1>1, ConcatAssociative, SMTT(30)
<1>4. issued \in {file \o stdio, file \o stdio \o log}  BY DEF Inv, LogExact
<1> QED  BY <1>1, <1>2, <1>3, <1>4

(* More lines leave a line cut where it was.                               *)
LEMMA CutStays ==
  ASSUME NEW g \in Got, NEW s \in Seq(Executed), NEW t \in Seq(Executed),
         IsPrefix(s, t), CutIn(g, s)
  PROVE  CutIn(g, t)
<1>1. Len(g.done) \in Nat  BY LenProperties DEF Got
<1>2. /\ Len(s) \in Nat /\ Len(t) \in Nat /\ Len(s) <= Len(t)
      /\ \A i \in 1..Len(s) : s[i] = t[i]
  BY PrefixMeans, LenProperties
<1>3. Len(g.done) + 1 \in 1..Len(s) /\ Len(g.done) < Len(t)  BY <1>1, <1>2 DEF CutIn
<1>4. s[Len(g.done) + 1] = t[Len(g.done) + 1]  BY <1>2, <1>3
<1> QED  BY <1>3, <1>4 DEF CutIn

(* A line read on from its beginning has this cut in it once it ends.      *)
LEMMA LineEnds ==
  ASSUME NEW g \in Got, NEW h \in Got, NEW p \in Piece, g.line # <<>>,
         g.done = h.done, IsPrefix(g.line, h.line)
  PROVE  /\ IsPrefix(g.line, Append(h.line, p))
         /\ CutIn(g, h.done \o Command(Append(h.line, p)))
<1> DEFINE a == g.line
           b == h.line
           m == Append(b, p)
           d == g.done
           n == Len(d)
<1>1. a \in Seq(Piece) /\ b \in Seq(Piece) /\ d \in Seq(Executed)  BY DEF Got
<1>2. /\ m \in Seq(Piece) /\ Len(m) = Len(b) + 1 /\ Len(b) \in Nat /\ Len(a) \in Nat
      /\ Len(a) # 0 /\ \A i \in 1..Len(b) : m[i] = b[i]
  BY <1>1, AppendProperties, LenProperties, EmptySeq
<1> HIDE DEF m
<1>3. Len(a) <= Len(b) /\ \A i \in 1..Len(a) : a[i] = b[i]  BY <1>1, PrefixMeans
<1>4. Len(a) <= Len(m) /\ \A i \in 1..Len(a) : a[i] = m[i]  BY <1>2, <1>3
<1>5. IsPrefix(a, m)  BY <1>1, <1>2, <1>4, PrefixMeans
<1>6. Len(a) \in 0..Len(m) /\ Len(a) \in 1..Len(m) - 1 /\ Len(m) # 1  BY <1>2, <1>3
<1>7. a = SubSeq(m, 1, Len(a))
  <2>1. /\ SubSeq(m, 1, Len(a)) \in Seq(Piece) /\ Len(SubSeq(m, 1, Len(a))) = Len(a)
        /\ \A i \in 1..Len(a) : SubSeq(m, 1, Len(a))[i] = m[i]
    BY <1>2, <1>6, FirstOnes
  <2>2. \A i \in 1..Len(a) : SubSeq(m, 1, Len(a))[i] = a[i]  BY <1>4, <2>1
  <2> QED  BY <1>1, <2>1, <2>2, SeqEqual
<1>8. Command(m) = <<m>> /\ m \in Executed  BY <1>2, <1>6, CommandOfLine DEF Executed
<1>9. d \o <<m>> = Append(d, m)  BY <1>1, <1>8, AppendIsConcat
<1>10. n \in Nat /\ Len(Append(d, m)) = n + 1 /\ Append(d, m)[n + 1] = m
  BY <1>1, <1>8, AppendProperties, LenProperties
<1> DEFINE t == Append(d, m)
<1>11. Len(t) = n + 1 /\ t[n + 1] = m /\ t = h.done \o Command(m)
  BY <1>8, <1>9, <1>10
<1> HIDE DEF t
<1>12. n < Len(t)  BY <1>10, <1>11
<1>13. CutIn(g, t)  BY <1>6, <1>7, <1>11, <1>12 DEF CutIn
<1> QED  BY <1>5, <1>11, <1>13 DEF m

(* A piece more still follows.                                             *)
LEMMA ReadFollows ==
  ASSUME NEW g \in Got, NEW h \in Got, NEW p \in Piece, Follows(g, h)
  PROVE  Follows(g, Read(h, p))
<1> DEFINE m == Append(h.line, p)
           c == Command(m)
           k == Read(h, p)
<1>1. g.done \in Seq(Executed) /\ h.done \in Seq(Executed) /\ h.line \in Seq(Piece)
  BY DEF Got
<1>2. m \in Seq(Piece) /\ c \in Seq(Executed)  BY <1>1, LineLonger, CommandOfLine
<1>3. /\ ~EndsLine(p) => k.line = m /\ k.done = h.done
      /\ EndsLine(p) => k.done = h.done \o c
  BY ReadGot
<1>4. /\ h.done \o c \in Seq(Executed) /\ IsPrefix(h.done, h.done \o c)
  BY <1>1, <1>2, PrefixOfLonger, ConcatProperties
<1>5. IsPrefix(g.done, h.done \o c)  BY <1>1, <1>4, PrefixOfPrefix DEF Follows
<1>6. ASSUME g.line # <<>>, g.done = h.done, IsPrefix(g.line, h.line)
      PROVE  IsPrefix(g.line, m) /\ CutIn(g, h.done \o c)
  BY <1>6, LineEnds
<1>7. CutIn(g, h.done) => CutIn(g, h.done \o c)  BY <1>1, <1>4, CutStays
<1> HIDE DEF m, c, k
<1>8. CASE ~EndsLine(p)
  <2>1. k.line = m /\ k.done = h.done  BY <1>3, <1>8
  <2>2. CutIn(g, h.done) => CutIn(g, k.done)  BY <2>1
  <2> QED  BY <1>6, <2>1, <2>2 DEF Follows, k
<1>9. CASE EndsLine(p)
  <2>1. k.done = h.done \o c  BY <1>3, <1>9
  <2>2. CutIn(g, h.done \o c) => CutIn(g, k.done)  BY <2>1
  <2> QED  BY <1>5, <1>6, <1>7, <2>1, <2>2 DEF Follows, k
<1> QED  BY <1>8, <1>9

(* More of the log follows what was read of the first part.                *)
LEMMA MoreFollows ==
  ASSUME NEW f \in Seq(Piece), NEW x \in Seq(Piece)
  PROVE  Follows(Reading(f), Reading(f \o x))
<1> DEFINE s == Reading(f)
           G == {g \in Got : Follows(s, g)}
<1>1. s \in Got  BY ReadingType
<1>2. s.done \in Seq(Executed) /\ s.line \in Seq(Piece)  BY <1>1 DEF Got
<1>3. IsPrefix(s.done, s.done) /\ IsPrefix(s.line, s.line)  BY <1>2, PrefixOfLonger
<1> HIDE DEF s
<1>4. s \in G  BY <1>1, <1>3 DEF Follows
<1>5. \A g \in G, p \in Piece : Read(g, p) \in G  BY <1>1, ReadGot, ReadFollows
<1> HIDE DEF G
<1>6. Reading(f) \in G  BY <1>4 DEF s
<1>7. Reading(f \o x) \in G  BY <1>5, <1>6, ReadingKeeps
<1> QED  BY <1>7 DEF G, s

(* Followed by whole lines alone, it is cut out of these.                  *)
LEMMA CutOfEnded ==
  ASSUME NEW g \in Got, NEW s \in Seq(Executed), Follows(g, Ended(s)),
         NEW t \in Seq(Executed), IsPrefix(s, t)
  PROVE  CutOf(g, t)
<1>1. g.done \in Seq(Executed) /\ g.line \in Seq(Piece) /\ Len(g.line) \in Nat
  BY LenProperties DEF Got
<1>2. Ended(s).line = <<>> /\ Ended(s).done = s  BY DEF Ended
<1>3. IsPrefix(g.done, t)  BY <1>1, <1>2, PrefixOfPrefix DEF Follows
<1>4. IsPrefix(g.line, <<>>) => g.line = <<>>
  <2>1. Len(<<>>) = 0 /\ <<>> \in Seq(Piece)  BY EmptySeq
  <2>2. IsPrefix(g.line, <<>>) => Len(g.line) <= 0  BY <1>1, <2>1, PrefixMeans
  <2> QED  BY <1>1, <2>2, EmptySeq
<1>5. CutIn(g, Ended(s).done) => CutIn(g, s)  BY <1>2
<1>6. g.line # <<>> => CutIn(g, s)  BY <1>2, <1>4, <1>5 DEF Follows
<1>7. CutIn(g, s) => CutIn(g, t)  BY CutStays
<1> QED  BY <1>3, <1>6, <1>7 DEF CutOf

(* Followed by a request that is being logged, out of these and this one.  *)
LEMMA CutOfBegun ==
  ASSUME NEW g \in Got, NEW s \in Seq(Executed), NEW r \in Request,
         NEW n \in 0..Size[r] - 1,
         Follows(g, [line |-> Begun(r, n), done |-> s])
  PROVE  CutOf(g, Append(s, Record(r)))
<1> DEFINE t == Append(s, Record(r))
           b == Begun(r, n)
           w == Record(r)
           h == [line |-> b, done |-> s]
<1>1. g.done \in Seq(Executed) /\ g.line \in Seq(Piece)  BY DEF Got
<1>2. Size[r] \in Nat /\ n \in 0..Size[r]  BY SizeAssumption
<1>3. /\ w \in Executed /\ w \in Seq(Piece) /\ Len(w) = Size[r]
      /\ b \in Seq(Piece) /\ Len(b) = n
  BY <1>2, CommandOfRecord, RecordEnds, BegunPieces
<1>4. \A i \in 1..n : b[i] = w[i]
  <2>1. \A i \in 1..n : i \in 1..Size[r]  BY <1>2
  <2> QED  BY <2>1 DEF Begun, Record
<1>5. h.line = b /\ h.done = s  OBVIOUS
<1>6. Follows(g, h)  OBVIOUS
<1> HIDE DEF b, w, h
<1>7. /\ t \in Seq(Executed) /\ Len(s) \in Nat /\ Len(t) = Len(s) + 1
      /\ t[Len(s) + 1] = w /\ t = s \o <<w>> /\ <<w>> \in Seq(Executed)
  BY <1>3, AppendProperties, LenProperties, AppendIsConcat DEF w
<1> HIDE DEF t
<1>8. IsPrefix(s, t)  BY <1>7, PrefixOfLonger
<1>9. IsPrefix(g.done, t)  BY <1>1, <1>5, <1>6, <1>7, <1>8, PrefixOfPrefix DEF Follows
<1>10. CutIn(g, h.done) => CutIn(g, t)
  <2>1. CutIn(g, h.done) => CutIn(g, s)  BY <1>5
  <2>2. CutIn(g, s) => CutIn(g, t)  BY <1>7, <1>8, CutStays
  <2> QED  BY <2>1, <2>2
<1>11. ASSUME g.line # <<>>, g.done = s, IsPrefix(g.line, b) PROVE CutIn(g, t)
  <2> DEFINE a == g.line
  <2>1. Len(a) \in Nat /\ Len(a) # 0  BY <1>1, <1>11, LenProperties, EmptySeq
  <2>2. Len(a) <= n /\ \A i \in 1..Len(a) : a[i] = b[i]  BY <1>1, <1>3, <1>11, PrefixMeans
  <2>3. Len(a) \in 0..Len(w) /\ Len(a) \in 1..Len(w) - 1  BY <1>2, <1>3, <2>1, <2>2
  <2>4. /\ SubSeq(w, 1, Len(a)) \in Seq(Piece) /\ Len(SubSeq(w, 1, Len(a))) = Len(a)
        /\ \A i \in 1..Len(a) : SubSeq(w, 1, Len(a))[i] = w[i]
    BY <1>3, <2>3, FirstOnes
  <2>5. \A i \in 1..Len(a) : SubSeq(w, 1, Len(a))[i] = a[i]
    <3>1. \A i \in 1..Len(a) : i \in 1..n  BY <1>2, <2>1, <2>2
    <3> QED  BY <1>4, <2>2, <2>4, <3>1
  <2>6. a = SubSeq(w, 1, Len(a))  BY <1>1, <2>4, <2>5, SeqEqual
  <2>7. Len(g.done) < Len(t) /\ t[Len(g.done) + 1] = w  BY <1>7, <1>11
  <2> QED  BY <2>3, <2>6, <2>7 DEF CutIn
<1>12. g.line # <<>> => CutIn(g, t)  BY <1>5, <1>6, <1>10, <1>11 DEF Follows
<1> QED  BY <1>9, <1>12 DEF CutOf, t, w

(* Every step keeps that.                                                  *)
LEMMA NextCrashed ==
  Inv /\ TypeOK /\ Truth /\ Stopped /\ Crashed /\ [Next]_vars => Crashed'
<1> SUFFICES ASSUME Inv, TypeOK, Truth, Stopped, Crashed, [Next]_vars PROVE Crashed'
  OBVIOUS
<1>1. ASSUME pc # "down", UNCHANGED kept PROVE Crashed'
  BY <1>1 DEF Crashed
<1>2. ASSUME Crash PROVE Crashed'
  <2>1. SUFFICES ASSUME clean PROVE CutOf(Reading(file), Ran)
    BY <1>2 DEF Crash, Crashed, Nothing
  <2>2. /\ file \in Seq(Piece) /\ issued \in Seq(Piece)
        /\ ran \in Seq(Executed) /\ kept.ran \in Seq(Executed)
        /\ req # NULL => req \in Request
    BY DEF TypeOK
  <2>3. PICK y \in Seq(Piece) : issued = file \o y  BY <2>1, FileIsFirst
  <2> DEFINE g == Reading(file)
             h == Reading(issued)
  <2>4. g \in Got /\ Follows(g, h)  BY <2>2, <2>3, MoreFollows, ReadingType
  <2>5. IsPrefix(ran, ran) /\ IsPrefix(kept.ran, kept.ran)  BY <2>2, PrefixOfLonger
  <2>6. CASE pc \in {"sigclear", "close"}
    <3>1. h = Ended(kept.ran) /\ Ran = kept.ran
      BY <2>1, <2>6 DEF Truth, Stopped, Ran, Stopping
    <3> HIDE DEF g, h
    <3>2. CutOf(g, kept.ran)  BY <2>2, <2>4, <2>5, <3>1, CutOfEnded
    <3> QED  BY <3>1, <3>2 DEF g
  <2>7. CASE pc \in {"idle", "clear"}
    <3>1. h = Ended(ran) /\ Ran = ran
      BY <2>1, <2>7 DEF Truth, Ran, Stopping, TypeOK
    <3> HIDE DEF g, h
    <3>2. CutOf(g, ran)  BY <2>2, <2>4, <2>5, <3>1, CutOfEnded
    <3> QED  BY <3>1, <3>2 DEF g
  <2>8. CASE pc \in {"copy", "count", "logged"}
    <3>1. req \in Request /\ Ran = Append(ran, Record(req)) /\ copied \in 1..Size[req]
      BY <2>2, <2>8 DEF Ran, Stopping, TypeOK
    <3>2. h = IF copied = Size[req] THEN Ended(Append(ran, Record(req)))
              ELSE [line |-> Begun(req, copied), done |-> ran]
      BY <2>1, <2>8 DEF Truth
    <3> HIDE DEF g, h
    <3>3. Ran \in Seq(Executed)  BY <2>2, <3>1, CommandOfRecord, AppendProperties
    <3>4. IsPrefix(Ran, Ran)  BY <3>3, PrefixOfLonger
    <3>5. CASE copied = Size[req]
      <4>1. h = Ended(Ran)  BY <3>1, <3>2, <3>5
      <4>2. CutOf(g, Ran)  BY <2>4, <3>3, <3>4, <4>1, CutOfEnded
      <4> QED  BY <4>2 DEF g
    <3>6. CASE copied # Size[req]
      <4>1. copied \in 0..Size[req] - 1  BY <3>1, <3>6, SizeAssumption
      <4>2. h = [line |-> Begun(req, copied), done |-> ran]  BY <3>2, <3>6
      <4>3. CutOf(g, Append(ran, Record(req)))  BY <2>2, <2>4, <3>1, <4>1, <4>2, CutOfBegun
      <4> QED  BY <3>1, <4>3 DEF g
    <3> QED  BY <3>5, <3>6
  <2> QED  BY <1>2, <2>6, <2>7, <2>8 DEF Crash, TypeOK
<1>3. ASSUME Recover \/ StartEmpty PROVE Crashed'
  BY <1>3 DEF Recover, StartEmpty, Open, Crashed, Nothing
<1>4. ASSUME Signal PROVE Crashed'
  BY <1>4 DEF Signal, Crashed
<1>5. ASSUME Close PROVE Crashed'
  <2>1. UNCHANGED kept \/ kept' = Nothing  BY <1>5 DEF Close
  <2> QED  BY <1>1, <1>5, <2>1 DEF Close, Crashed, Nothing
<1>6. ASSUME UNCHANGED vars PROVE Crashed'
  BY <1>6 DEF vars, Crashed
<1>7. ASSUME NEW r \in Request, Begin(r) PROVE Crashed'
  BY <1>1, <1>7 DEF Begin
<1>8. ASSUME Copy \/ Count \/ Handle PROVE Crashed'
  BY <1>1, <1>8 DEF Copy, Count, Handle, history
<1>9. ASSUME TimerSave \/ TimerFails \/ Clear \/ SigClear PROVE Crashed'
  BY <1>1, <1>9 DEF TimerSave, TimerFails, Clear, SigClear, history
<1> QED
  BY <1>2, <1>3, <1>4, <1>5, <1>6, <1>7, <1>8, <1>9 DEF Next

-----------------------------------------------------------------------------
(* The inductive invariant of what the log means.                          *)
Meaning == Inv /\ TypeOK /\ Truth /\ Stopped /\ Crashed

LEMMA MeaningInvariant == Spec => []Meaning
<1>1. Init => Meaning
  <2>1. Init => Crashed  BY DEF Init, Crashed, Nothing
  <2> QED  BY <2>1, InitInv, InitTypes, InitTruth DEF Meaning
<1>2. Meaning /\ [Next]_vars => Meaning'
  BY NextInv, NextTypes, NextTruth, NextCrashed DEF Meaning
<1> QED  BY <1>1, <1>2, PTL DEF Spec

(* Between two requests, as long as nothing has happened that the log does *)
(* not survive, recovery from what has been logged would execute exactly   *)
(* the requests this server has executed, in their order.                  *)
THEOREM ReplayShowsState == Spec => []ReplayIsState
<1>1. Meaning => ReplayIsState
  <2> SUFFICES ASSUME Meaning, clean, pc = "idle"
               PROVE  Replay(file \o stdio \o log) = ran
    BY DEF ReplayIsState
  <2>1. issued = file \o stdio \o log  BY DEF Meaning, Inv, LogExact
  <2>2. Reading(issued) = Ended(ran)  BY DEF Meaning, Truth
  <2> QED  BY <2>1, <2>2 DEF Replay, Ended
<1> QED  BY <1>1, MeaningInvariant, PTL

(* A stop by a signal that found no request half logged and no save half   *)
(* done costs nothing: -r brings back every request that was executed and  *)
(* the one that was logged and not yet executed.                           *)
THEOREM StopLosesNothing == Spec => StopKeepsAll
<1>1. Meaning /\ Recover /\ kept.how = "stop" => ran' = kept.ran
  <2> SUFFICES ASSUME Meaning, Recover, kept.how = "stop" PROVE ran' = kept.ran
    OBVIOUS
  <2>1. pc = "down" /\ ran' = Replay(file)  BY DEF Recover, Open
  <2>2. clean /\ Reading(issued) = Ended(kept.ran)  BY DEF Meaning, Stopped
  <2>3. log = <<>> /\ stdio = <<>> /\ file \in Seq(Piece)
    BY <2>1 DEF Meaning, Inv, Counted, Buffers
  <2>4. issued = file \o stdio \o log  BY <2>1, <2>2 DEF Meaning, Inv, LogExact
  <2>5. file \o <<>> \o <<>> = file  BY <2>3, ConcatEmptySeq
  <2> QED  BY <2>1, <2>2, <2>3, <2>4, <2>5 DEF Replay, Ended
<1>2. Meaning /\ [Next]_vars => [Recover /\ kept.how = "stop" => ran' = kept.ran]_vars
  BY <1>1
<1> QED  BY <1>2, MeaningInvariant, PTL DEF Spec, StopKeepsAll

(* A crash costs the last requests and no other: what -r brings back after *)
(* a kill -9, or a handler that failed, is some of the first that were     *)
(* executed, and then at most a beginning of the next.                     *)
THEOREM CrashLosesLast == Spec => CrashKeepsPrefix
<1> DEFINE Kept == \E n \in 0..Len(kept.ran) :
             \/ ran' = SubSeq(kept.ran, 1, n)
             \/ /\ n < Len(kept.ran)
                /\ \E k \in 1..Len(kept.ran[n + 1]) - 1 :
                     ran' = Append(SubSeq(kept.ran, 1, n), SubSeq(kept.ran[n + 1], 1, k))
<1>1. Meaning /\ Recover /\ kept.how = "crash" => Kept
  <2> SUFFICES ASSUME Meaning, Recover, kept.how = "crash" PROVE Kept
    OBVIOUS
  <2> DEFINE g == Reading(file)
             s == g.done
             t == kept.ran
             n == Len(s)
  <2>1. file \in Seq(Piece) /\ t \in Seq(Executed)  BY DEF Meaning, TypeOK
  <2>2. s \in Seq(Executed)  BY <2>1, ReadingType DEF Got
  <2>3. CutOf(g, t)  BY DEF Meaning, Crashed
  <2>4. ran' = s \/ (g.line # <<>> /\ ran' = Append(s, g.line))
    BY <2>1, ReplayOfGot DEF Recover
  <2>5. g.line # <<>> =>
          /\ n < Len(t)
          /\ \E k \in 1..Len(t[n + 1]) - 1 : g.line = SubSeq(t[n + 1], 1, k)
    BY <2>3 DEF CutOf, CutIn
  <2>6. IsPrefix(s, t)  BY <2>3 DEF CutOf
  <2> DEFINE m == g.line
  <2> HIDE DEF m, s, t
  <2>7. SubSeq(s, 1, Len(s)) = s  BY <2>2, SubSeqFull
  <2>8. n \in 0..Len(t) /\ s = SubSeq(t, 1, n)
    BY <2>1, <2>2, <2>6, <2>7, LenProperties DEF IsPrefix
  <2>9. \/ ran' = SubSeq(t, 1, n)
        \/ /\ n < Len(t)
           /\ \E k \in 1..Len(t[n + 1]) - 1 :
                ran' = Append(SubSeq(t, 1, n), SubSeq(t[n + 1], 1, k))
    <3>1. CASE ran' = s  BY <2>8, <3>1
    <3>2. CASE m # <<>> /\ ran' = Append(s, m)
      <4>1. n < Len(t)  BY <2>5, <3>2 DEF m
      <4>2. PICK k \in 1..Len(t[n + 1]) - 1 : m = SubSeq(t[n + 1], 1, k)  BY <2>5, <3>2 DEF m
      <4> QED  BY <2>8, <3>2, <4>1, <4>2
    <3> QED  BY <2>4, <3>1, <3>2 DEF m
  <2> HIDE DEF n
  <2> QED  BY <2>8, <2>9 DEF t
<1>2. Meaning /\ [Next]_vars => [Recover /\ kept.how = "crash" => Kept]_vars
  <2> HIDE DEF Kept
  <2> QED  BY <1>1
<1> QED  BY <1>2, MeaningInvariant, PTL DEF Spec, CrashKeepsPrefix

-----------------------------------------------------------------------------
(* What one recovery has brought back, in spite of torn or doubled records *)
(* and of writes that failed, is among the lines that have ended, apart    *)
(* from one that had no end: more of the file takes none of these back.    *)
Sure == IsPrefix(Settled(was), Reading(file).done)

(* Without a last line, a sequence of lines begins as it did.              *)
LEMMA SettledIsFirst ==
  ASSUME NEW w \in Seq(Executed)
  PROVE  Settled(w) \in Seq(Executed) /\ IsPrefix(Settled(w), w)
<1> DEFINE v == SubSeq(w, 1, Len(w) - 1)
<1>1. IsPrefix(w, w)  BY PrefixOfLonger
<1>2. ASSUME w # <<>> PROVE v \in Seq(Executed) /\ IsPrefix(v, w)
  <2>1. Len(w) \in Nat /\ Len(w) # 0  BY <1>2, EmptySeq, LenProperties
  <2>2. Len(w) - 1 \in 0..Len(w)  BY <2>1
  <2>3. v \in Seq(Executed) /\ Len(v) = Len(w) - 1 /\ \A i \in 1..Len(w) - 1 : v[i] = w[i]
    BY <2>2, FirstOnes
  <2> HIDE DEF v
  <2>4. Len(v) <= Len(w) /\ \A i \in 1..Len(v) : v[i] = w[i]  BY <2>1, <2>3
  <2> QED  BY <2>3, <2>4, PrefixMeans
<1>3. Settled(w) = w \/ (w # <<>> /\ Settled(w) = v)  BY DEF Settled
<1> HIDE DEF v
<1> QED  BY <1>1, <1>2, <1>3

(* Without its unfinished line, a recovery ran the lines that have ended.  *)
LEMMA ReplaySettles ==
  ASSUME NEW f \in Seq(Piece)
  PROVE  IsPrefix(Settled(Replay(f)), Reading(f).done)
<1> DEFINE g == Reading(f)
           d == g.done
           w == Replay(f)
<1>1. g \in Got  BY ReadingType
<1>2. d \in Seq(Executed) /\ g.line \in Seq(Piece) /\ Unended(g.line)  BY <1>1 DEF Got
<1>3. w = d \/ (g.line # <<>> /\ g.line \in Executed /\ w = Append(d, g.line))
  BY ReplayOfGot
<1>4. IsPrefix(d, d)  BY <1>2, PrefixOfLonger
<1> DEFINE m == g.line
<1> HIDE DEF m, d, w
<1>5. CASE w = d
  BY <1>2, <1>5, SettledIsFirst DEF d, w
<1>6. CASE m # <<>> /\ m \in Executed /\ w = Append(d, m)
  <2>1. /\ w \in Seq(Executed) /\ Len(d) \in Nat /\ Len(w) = Len(d) + 1
        /\ w[Len(d) + 1] = m /\ \A i \in 1..Len(d) : w[i] = d[i]
    BY <1>2, <1>6, AppendProperties, LenProperties
  <2>2. w # <<>>  BY <2>1, EmptySeq
  <2>3. Torn(m)
    <3>1. Len(m) \in Nat /\ Len(m) # 0  BY <1>2, <1>6, EmptySeq, LenProperties DEF m
    <3>2. Len(m) \in 1..Len(m)  BY <3>1
    <3> QED  BY <1>2, <1>6, <3>2 DEF Torn, Unended, m
  <2>4. Len(w) - 1 = Len(d) /\ Len(d) \in 0..Len(w)  BY <2>1
  <2>5. SubSeq(w, 1, Len(d)) = d
    <3>1. /\ SubSeq(w, 1, Len(d)) \in Seq(Executed) /\ Len(SubSeq(w, 1, Len(d))) = Len(d)
          /\ \A i \in 1..Len(d) : SubSeq(w, 1, Len(d))[i] = w[i]
      BY <2>1, <2>4, FirstOnes
    <3>2. \A i \in 1..Len(d) : SubSeq(w, 1, Len(d))[i] = d[i]  BY <2>1, <3>1
    <3> QED  BY <1>2, <3>1, <3>2, SeqEqual
  <2>6. w[Len(w)] = m  BY <2>1
  <2>7. Settled(w) = d  BY <2>2, <2>3, <2>4, <2>5, <2>6 DEF Settled
  <2> QED  BY <1>4, <2>7 DEF d, w
<1> QED  BY <1>3, <1>5, <1>6 DEF m

(* What is sure stays so when the file grows.                              *)
LEMMA SureStays ==
  ASSUME Sure, was \in Seq(Executed), file \in Seq(Piece), NEW x \in Seq(Piece),
         file' = file \o x, UNCHANGED was
  PROVE  Sure'
<1> DEFINE s == Settled(was)
           a == Reading(file).done
           b == Reading(file \o x).done
<1>1. file \o x \in Seq(Piece)  BY ConcatProperties
<1>2. a \in Seq(Executed) /\ b \in Seq(Executed)  BY <1>1, ReadingType DEF Got
<1>3. s \in Seq(Executed)  BY SettledIsFirst
<1>4. IsPrefix(s, a)  BY DEF Sure
<1>5. IsPrefix(a, b)  BY MoreIsDone
<1> HIDE DEF s, a, b
<1>6. IsPrefix(s, b)  BY <1>2, <1>3, <1>4, <1>5, PrefixOfPrefix
<1> QED  BY <1>6 DEF Sure, s, b

(* It holds at first.                                                      *)
LEMMA InitSure == Init => Sure
<1> SUFFICES ASSUME Init PROVE Sure  OBVIOUS
<1>1. Settled(<<>>) = <<>> /\ Reading(<<>>).done = <<>>
  BY ReadingOfNone DEF Settled, Unread
<1>2. <<>> \in Seq(Executed)  BY EmptySeq
<1>3. IsPrefix(<<>>, <<>>)  BY <1>2, PrefixOfLonger
<1> QED  BY <1>1, <1>3 DEF Init, Sure

(* Every step keeps what was recovered.                                    *)
LEMMA NextSure == Inv /\ TypeOK /\ Sure /\ [Next]_vars => Sure'
<1> SUFFICES ASSUME Inv, TypeOK, Sure, [Next]_vars PROVE Sure'
  OBVIOUS
<1>1. /\ was \in Seq(Executed) /\ file \in Seq(Piece) /\ stdio \in Seq(Piece)
      /\ log \in Seq(Piece)
  BY DEF TypeOK
<1>2. ASSUME UNCHANGED <<was, file>> PROVE Sure'
  BY <1>2 DEF Sure
<1>3. ASSUME NEW z \in Seq(Piece), NEW n \in 0..Len(z), file' = file \o SubSeq(z, 1, n),
             UNCHANGED was
      PROVE  Sure'
  <2>1. SubSeq(z, 1, n) \in Seq(Piece)  BY CutInTwo
  <2> QED  BY <1>1, <1>3, <2>1, SureStays
<1>4. ASSUME WriteOut \/ WriteFails, UNCHANGED was PROVE Sure'
  <2>1. Unwritten \in Seq(Piece)  BY <1>1, ConcatProperties DEF Unwritten
  <2>2. \E n \in 0..Len(Unwritten) : file' = file \o SubSeq(Unwritten, 1, n)
    BY <1>4, WriteMoves DEF Inv
  <2> QED  BY <1>3, <1>4, <2>1, <2>2
<1>5. ASSUME NEW r \in Request, Begin(r) PROVE Sure'
  BY <1>2, <1>5 DEF Begin, disk
<1>6. CASE Copy \/ Count \/ Handle \/ Clear \/ SigClear
  BY <1>2, <1>6 DEF Copy, Count, Handle, Clear, SigClear, disk, history
<1>7. CASE TimerSave \/ TimerFails
  BY <1>4, <1>7 DEF TimerSave, TimerFails, history
<1>8. CASE Signal
  BY <1>2, <1>4, <1>8 DEF Signal, disk
<1>9. CASE Close
  <2>1. UNCHANGED was  BY <1>9 DEF Close
  <2>2. CASE file' = file \o stdio
    BY <1>1, <2>1, <2>2, SureStays
  <2>3. CASE \E n \in 0..Len(stdio) - 1 : file' = file \o SubSeq(stdio, 1, n)
    <3>1. PICK n \in 0..Len(stdio) - 1 : file' = file \o SubSeq(stdio, 1, n)  BY <2>3
    <3>2. n \in 0..Len(stdio)  BY <1>1, LenProperties
    <3> QED  BY <1>1, <1>3, <2>1, <3>1, <3>2
  <2> QED  BY <1>9, <2>2, <2>3 DEF Close
<1>10. CASE Crash \/ StartEmpty
  BY <1>2, <1>10 DEF Crash, StartEmpty, Open, disk
<1>11. CASE Recover
  <2>1. was' = Replay(file) /\ file' = file  BY <1>11 DEF Recover, Open, disk
  <2>2. IsPrefix(Settled(Replay(file)), Reading(file).done)  BY <1>1, ReplaySettles
  <2> QED  BY <2>1, <2>2 DEF Sure
<1>12. CASE UNCHANGED vars
  BY <1>2, <1>12 DEF vars, disk, history
<1> QED
  BY <1>5, <1>6, <1>7, <1>8, <1>9, <1>10, <1>11, <1>12 DEF Next

(* Whatever happens, also a torn or a doubled record, a full disk or a     *)
(* start without -r: what one recovery has brought back every later one    *)
(* does, in the same order, but for a line without an end, which becomes   *)
(* another with what is written behind it.                                 *)
THEOREM RecoveryKeeps == Spec => RecoveryExtends
<1> DEFINE All == Inv /\ TypeOK /\ Sure
           Kept == IsPrefix(Settled(was), was')
<1>1. Init => All  BY InitInv, InitTypes, InitSure
<1>2. All /\ [Next]_vars => All'  BY NextInv, NextTypes, NextSure
<1>3. All /\ [Next]_vars => [Kept]_vars
  <2> SUFFICES ASSUME All, Next PROVE Kept
    OBVIOUS
  <2>1. was \in Seq(Executed) /\ file \in Seq(Piece)  BY DEF TypeOK
  <2>2. CASE UNCHANGED was
    <3>1. IsPrefix(Settled(was), was)  BY <2>1, SettledIsFirst
    <3> QED  BY <2>2, <3>1
  <2>3. CASE Recover
    <3> DEFINE g == Reading(file)
               d == g.done
               w == Replay(file)
               s == Settled(was)
    <3>1. was' = w  BY <2>3 DEF Recover
    <3>2. g \in Got /\ d \in Seq(Executed) /\ w \in Seq(Executed)
      BY <2>1, ReadingType, ReplayOfGot DEF Got
    <3>3. w = d \/ (g.line \in Executed /\ w = Append(d, g.line))
      BY <2>1, ReplayOfGot
    <3>4. IsPrefix(s, d)  BY DEF Sure
    <3>5. s \in Seq(Executed)  BY <2>1, SettledIsFirst
    <3> DEFINE m == g.line
    <3> HIDE DEF m, d, w, s
    <3>6. IsPrefix(d, w)
      <4>1. CASE w = d  BY <3>2, <4>1, PrefixOfLonger
      <4>2. CASE m \in Executed /\ w = Append(d, m)
        <5>1. Append(d, m) = d \o <<m>> /\ <<m>> \in Seq(Executed)  BY <3>2, <4>2, AppendIsConcat
        <5> QED  BY <3>2, <4>2, <5>1, PrefixOfLonger
      <4> QED  BY <3>3, <4>1, <4>2 DEF m
    <3>7. IsPrefix(s, w)  BY <3>2, <3>4, <3>5, <3>6, PrefixOfPrefix
    <3> QED  BY <3>1, <3>7 DEF s
  <2>4. Recover \/ UNCHANGED was
    <3>1. ASSUME NEW r \in Request, Begin(r) PROVE UNCHANGED was  BY <3>1 DEF Begin
    <3>2. CASE Copy \/ Count \/ Handle \/ TimerSave \/ TimerFails \/ Clear
      BY <3>2 DEF Copy, Count, Handle, TimerSave, TimerFails, Clear, history
    <3>3. CASE Signal \/ SigClear \/ Close \/ Crash \/ StartEmpty
      BY <3>3 DEF Signal, SigClear, Close, Crash, StartEmpty, history
    <3> QED  BY <3>1, <3>2, <3>3 DEF Next
  <2> QED  BY <2>2, <2>3, <2>4
<1> HIDE DEF All, Kept
<1>4. Spec => [][Kept]_vars  BY <1>1, <1>2, <1>3, PTL DEF Spec
<1> QED  BY <1>4 DEF Kept, RecoveryExtends

-----------------------------------------------------------------------------
(* What the thread still has to do before the loop, or the end: two steps  *)
(* for every piece that is not copied, fewer if several make a chunk.      *)
Left ==
  CASE pc = "copy" -> 2 * (Size[req] - copied) + 1
    [] pc = "count" -> 2 * (Size[req] - copied) + 2
    [] pc = "sigclear" -> 2
    [] pc \in {"logged", "clear", "close"} -> 1
    [] pc \in {"idle", "down"} -> 0

(* The thread comes back to the loop from writeAoqLog and saveAoqLog, and  *)
(* out of the signal handler, after a number of steps that the size of the *)
(* request bounds.  Only a signal gives it more to do, in whose handler it *)
(* stays then.                                                             *)
THEOREM ThreadReturns ==
  Spec => [][pc \notin {"idle", "down"} =>
               \/ Left \in Nat /\ Left' \in Nat /\ Left' < Left
               \/ Signal /\ pc' \in {"sigclear", "close"}]_vars
<1> DEFINE Returns == pc \notin {"idle", "down"} =>
                        \/ Left \in Nat /\ Left' \in Nat /\ Left' < Left
                        \/ Signal /\ pc' \in {"sigclear", "close"}
<1>1. Inv /\ [Next]_vars => [Returns]_vars
  <2> SUFFICES ASSUME Inv, Next, pc \notin {"idle", "down"} PROVE Returns
    OBVIOUS
  <2>1. pc \in {"copy", "count", "logged"} =>
          req \in Request /\ copied \in 1..Size[req] /\ Size[req] \in Nat \ {0}
    BY SizeAssumption DEF Inv, Copying
  <2>2. CASE Copy
    <3>1. /\ pc = "copy" /\ req' = req /\ copied' = copied + 1 /\ pc' \in {"copy", "count"}
          /\ copied < Size[req]
      BY <2>2 DEF Copy, CopyPiece, Inv, Copying
    <3>2. /\ Left = 2 * (Size[req] - copied) + 1
          /\ Left' \in {2 * (Size[req] - (copied + 1)) + 1, 2 * (Size[req] - (copied + 1)) + 2}
      BY <3>1 DEF Left
    <3> HIDE DEF Left
    <3> QED  BY <2>1, <3>1, <3>2
  <2>3. CASE Count
    <3>1. /\ pc = "count" /\ req' = req /\ copied' = copied /\ pc' \in {"copy", "logged"}
          /\ UNCHANGED Size[req]
      BY <2>3 DEF Count
    <3>2. /\ Left = 2 * (Size[req] - copied) + 2
          /\ Left' \in {2 * (Size[req] - copied) + 1, 1}
      BY <3>1 DEF Left
    <3> HIDE DEF Left
    <3> QED  BY <2>1, <3>1, <3>2
  <2>4. CASE Handle
    BY <2>4 DEF Handle, Left
  <2>5. CASE Clear
    BY <2>5 DEF Clear, Left
  <2>6. CASE SigClear
    BY <2>6 DEF SigClear, Left
  <2>7. CASE Close
    BY <2>7 DEF Close, Left
  <2>8. CASE Signal
    BY <2>8 DEF Signal
  <2>9. CASE Crash
    <3>1. pc' = "down" /\ Left' = 0  BY <2>9 DEF Crash, Left
    <3>2. pc \in {"copy", "count", "logged", "clear", "sigclear", "close"}
      BY DEF Inv, Buffers
    <3>3. Left \in Nat \ {0}
      <4>1. CASE pc = "copy"
        <5>1. Left = 2 * (Size[req] - copied) + 1  BY <4>1 DEF Left
        <5> QED  BY <2>1, <4>1, <5>1
      <4>2. CASE pc = "count"
        <5>1. Left = 2 * (Size[req] - copied) + 2  BY <4>2 DEF Left
        <5> QED  BY <2>1, <4>2, <5>1
      <4>3. CASE pc \in {"logged", "clear", "sigclear", "close"}
        BY <4>3 DEF Left
      <4> QED  BY <3>2, <4>1, <4>2, <4>3
    <3> QED  BY <3>1, <3>3
  <2>10. ~(\E r \in Request : Begin(r)) /\ ~TimerSave /\ ~TimerFails /\ ~Recover /\ ~StartEmpty
    BY DEF Begin, TimerSave, TimerFails, Recover, StartEmpty, Open
  <2> QED  BY <2>2, <2>3, <2>4, <2>5, <2>6, <2>7, <2>8, <2>9, <2>10 DEF Next
<1> HIDE DEF Returns
<1>2. Spec => [][Returns]_vars
  BY <1>1, LogInvariant, PTL DEF Spec
<1> QED  BY <1>2 DEF Returns

=============================================================================

------------------------------- MODULE AoqWire -------------------------------
(***************************************************************************)
(* One connection, byte by byte: how a request is framed by a client, read *)
(* from the socket in whatever pieces it comes (read_cmd), split into      *)
(* chunks (socket_read_cb), parsed (parse_args) and executed, and how the  *)
(* answer is written in whatever pieces the socket takes (write_reply).    *)
(*                                                                         *)
(* A token is a byte of a name or value, NL, NUL, or a head, which is one  *)
(* token: <<command, lengths of the arguments>>.  A value may hold heads:  *)
(* one that comes to stand first in what is read is executed as one.  (A   *)
(* head made of the end of a value and what follows it is not modelled.)   *)
(* All requests but status and queues name a queue; queue and delqueue go  *)
(* the way of pop.  What status and queues say is one token here.          *)
(*                                                                         *)
(* Of the table of queues this module keeps what decides where an item     *)
(* goes: a name of KeySize bytes or more may not be found again.  It ends  *)
(* where the table would grow, which AoqHashTable goes into.               *)
(***************************************************************************)
EXTENDS Integers, Sequences, SequencesExt, FiniteSetsExt

CONSTANTS
  Letter,      \* what names and values are made of
  Request,     \* [op |-> command, args |-> sequences of bytes]
  W,           \* tokens in a chunk: CK_SIZE - 1
  KeySize,     \* bytes of a name that the table keeps: sizeof(char *)
  NameMax,     \* names of so many bytes are refused
  HtSize,      \* queues that the table holds before it grows
  AoqMaxSize,  \* -q
  Tool,        \* who frames the requests: "aoq.php" or "aoq-client"
  Blank,       \* what isspace holds of
  NL, NUL, ONE, ZERO, JUNK,
  MaxAsks, MaxBlocks   \* bounds: of requests, and of writes that would block

ASSUME WidthAssumption == W \in Nat \ {0}
ASSUME SizeAssumption == {KeySize, NameMax, HtSize, AoqMaxSize} \subseteq Nat \ {0}
ASSUME ToolAssumption == Tool \in {"aoq.php", "aoq-client"}
ASSUME BoundAssumption == {MaxAsks, MaxBlocks} \subseteq Nat

VARIABLES
  wire,        \* sent by the client and not yet read
  buf,         \* read_cmd's buffer, from its first byte of this call
  pc,          \* "idle" in the event loop, "read" in read_cmd, "write" in write_reply,
               \* "dead" when the process is gone
  out, total,  \* write_reply's buf and total
  held,        \* items of each queue: declared length, and tokens up to the slab's end
  queues,      \* ht->total
  got,         \* what the client has been sent
  asked, sent, \* history: requests sent, and all their tokens
  done,        \* history: heads of the requests executed
  served,      \* history: answers written
  eager,       \* history: a request was sent before the last was answered
  blocks       \* history: writes that would have blocked

socket == <<wire, buf, got>>
store == <<held, queues>>
reply == <<out, total>>
client == <<asked, sent, eager>>
vars == <<pc, socket, reply, store, client, done, served, blocks>>

Unnamed == {"status", "queues"}
Names == {q.args[1] : q \in {r \in Request : r.op \notin Unnamed}}
ValueOf(q) == q.args[2]

ASSUME RequestAssumption ==
  \A q \in Request :
    /\ q \in [op : {"push", "pop"} \cup Unnamed, args : Seq(Seq(Letter))]
    /\ Len(q.args) = IF q.op = "push" THEN 2 ELSE IF q.op = "pop" THEN 1 ELSE 0
    /\ Tool = "aoq-client" => NL \notin UNION {Range(q.args[i]) : i \in DOMAIN q.args}

Init ==
  /\ pc = "idle"
  /\ wire = <<>> /\ buf = <<>> /\ got = <<>>
  /\ out = <<>> /\ total = 0
  /\ held = <<>> /\ queues = 0
  /\ asked = <<>> /\ sent = <<>> /\ done = <<>>
  /\ served = 0 /\ eager = FALSE /\ blocks = 0

-----------------------------------------------------------------------------
(* The clients.  aoq.php ends a request with a newline.  aoq-client sizes  *)
(* its buffer by the whole line typed and sends all of it: zeros follow.   *)
HeadOf(q) == <<q.op, [i \in DOMAIN q.args |-> Len(q.args[i])]>>

Heads == ({"push", "pop"} \cup Unnamed) \X Seq(Nat)

ASSUME TokenAssumption ==
  /\ NUL \notin Letter \cup {NL} /\ NL \in Blank
  /\ \A token \in {NL, NUL, ONE, ZERO, JUNK} : token \notin Heads

Framed(q) == <<HeadOf(q)>> \o FlattenSeq(q.args)

PhpFrame(q) == Framed(q) \o <<NL>>

ClientFrame(q) ==
  CASE q.op = "push" -> Framed(q) \o <<NL, NL, NUL>>
    [] q.op = "pop" -> Framed(q) \o <<NL, NUL>>
    [] q.op = "status" -> Framed(q) \o <<NL>>
    [] q.op = "queues" -> Framed(q) \o <<NUL>>

Frame(q) == IF Tool = "aoq.php" THEN PhpFrame(q) ELSE ClientFrame(q)

Ask(q) ==
  /\ Len(asked) < MaxAsks
  /\ wire' = wire \o Frame(q) /\ sent' = sent \o Frame(q)
  /\ asked' = Append(asked, q)
  /\ eager' = (eager \/ served < Len(asked))
  /\ UNCHANGED <<pc, buf, got, reply, store, done, served, blocks>>

-----------------------------------------------------------------------------
(* Chunk k of what was read, and the chunks that make the slab: all up to  *)
(* the first whose last byte is a newline.  What is behind it is dropped.  *)
Chunk(b, k) == SubSeq(b, (k - 1) * W + 1, Min({k * W, Len(b)}))

(* MUTANT: the slab always ends with the first chunk.                      *)
BugSplit(b) == <<Chunk(b, 1)>>

Split(b) ==
  LET ends == {k \in 1..Len(b) : (k - 1) * W < Len(b) /\ Last(Chunk(b, k)) = NL}
  IN  [k \in 1..Min(ends) |-> Chunk(b, k)]

(* A chunk as a C string.                                                  *)
Text(chunk) ==
  LET nuls == {i \in DOMAIN chunk : chunk[i] = NUL}
  IN  IF nuls = {} THEN chunk ELSE SubSeq(chunk, 1, Min(nuls) - 1)

(* moveCursor from the end of the head: it stops at the end of a chunk and *)
(* does not go on to the next one.  If the slab ends before, it leaves the *)
(* position where it was, but not the chunk.                               *)
MoveCursor(slab, n) ==
  LET at == n + 1
      node == (at + W - 1) \div W
  IN  IF at <= (Len(slab) - 1) * W + Len(Last(slab))
        THEN [node |-> node, from |-> node, ptr |-> at - (node - 1) * W]
        ELSE [node |-> Len(slab), from |-> 1, ptr |-> 1]

(* What strcat gathers from a cursor on, chunk by chunk.                   *)
From(slab, cursor) ==
  LET rest == SubSeq(slab[cursor.from], cursor.ptr + 1, Len(slab[cursor.from]))
      part(k) == IF k = cursor.node THEN Text(rest) ELSE Text(slab[k])
  IN  FlattenSeq([i \in 1..Len(slab) - cursor.node + 1 |-> part(cursor.node + i - 1)])

(* trim of a name that was said to have n bytes: blanks at its end go only *)
(* if all n are there.                                                     *)
Trim(text, n) ==
  LET ink == {i \in DOMAIN text : text[i] \notin Blank}
  IN  IF ink = {} THEN <<>>
      ELSE SubSeq(text, Min(ink), IF Len(text) = n THEN Max(ink) ELSE Len(text))

(* get_queue_name copies a string out of the first chunk: a name that goes *)
(* on in the next one is cut.                                              *)
NameOf(slab, n) == Trim(Text(SubSeq(slab[1], 2, Min({n + 1, Len(slab[1])}))), n)

(* Whether a request names a queue.                                        *)
HasName(slab, argn) ==
  /\ Len(argn) > 0 /\ argn[1] \in 1..NameMax - 1
  /\ NameOf(slab, argn[1]) # <<>>

IsHead(token) == token \in Heads

(* hash_find.  hash_insert copies KeySize bytes of a name, so that the key *)
(* of a longer one has no end of its own.  If a zero happens to follow, it *)
(* is the key of another name, perhaps in a bucket where that one is not   *)
(* looked for.                                                             *)
Key(name) == SubSeq(name, 1, Min({Len(name), KeySize}))

Finds(name, known) ==
  IF known THEN name \in DOMAIN held
  ELSE name \notin DOMAIN held \/ Len(name) >= KeySize

Items(name, known) == IF known THEN held[name] ELSE <<>>

(* The items of the queue that getQueue has found or made.                 *)
Keep(name, known, items) ==
  /\ known \/ queues < HtSize
  /\ queues' = IF known THEN queues ELSE queues + 1
  /\ \/ held' = [n \in DOMAIN held \cup {Key(name)} |-> IF n = Key(name) THEN items ELSE held[n]]
     \/ ~known /\ Len(name) >= KeySize /\ UNCHANGED held

Answer(tokens) ==
  /\ out' = tokens
  /\ total' = 0 /\ pc' = "write"

Say(op, token) == Answer(<< <<op, <<1>>>>, token, NL>>)

SayNothing == Answer(<< <<"pop", <<0>>>>, NL>>)

(* A queue at its limit takes nothing, and the client is told it did.  A   *)
(* value of length 0 is no argument: the item has no text.                 *)
Push(slab, argn) ==
  LET name == NameOf(slab, argn[1])
      valued == Len(argn) > 1 /\ argn[2] > 0
      item == IF valued
                THEN [len |-> argn[2], text |-> From(slab, MoveCursor(slab, argn[1]))]
                ELSE [len |-> 0, text |-> <<>>]
  IN  IF HasName(slab, argn)
        THEN /\ \E known \in BOOLEAN :
                  LET items == Items(name, known) IN
                    /\ Finds(name, known)
                    /\ Keep(name, known, IF Len(items) <= AoqMaxSize THEN Append(items, item)
                                         ELSE items)
             /\ Say("push", ONE)
        ELSE Say("push", ZERO) /\ UNCHANGED store

(* pop reads the second argument of the item; there is none if its value   *)
(* had length 0, and that is the end of the process.                       *)
Pop(slab, argn) ==
  LET name == NameOf(slab, argn[1]) IN
    IF HasName(slab, argn)
      THEN \E known \in BOOLEAN :
             LET items == Items(name, known) IN
               /\ Finds(name, known)
               /\ \/ items = <<>> /\ Keep(name, known, <<>>) /\ SayNothing
                  \/ /\ items # <<>> /\ Head(items).len > 0
                     /\ Keep(name, known, Tail(items))
                     /\ Answer(<< <<"pop", <<Head(items).len>>>> >> \o Head(items).text)
                  \/ /\ items # <<>> /\ Head(items).len = 0
                     /\ pc' = "dead" /\ UNCHANGED <<store, reply>>
      ELSE SayNothing /\ UNCHANGED store

(* The request that begins the slab is executed.  If there is none nobody  *)
(* is answered.                                                            *)
Execute(slab) ==
  LET head == slab[1][1] IN
    IF IsHead(head)
      THEN /\ done' = Append(done, head)
           /\ CASE head[1] = "push" -> Push(slab, head[2])
                [] head[1] = "pop" -> Pop(slab, head[2])
                [] head[1] \in Unnamed -> Say(head[1], ONE) /\ UNCHANGED store
      ELSE pc' = "idle" /\ UNCHANGED <<done, store, reply>>

(* MUTANT: the rest of a request that came in pieces overwrites its start. *)
BugReadOverwrites ==
  /\ pc \in {"idle", "read"}
  /\ \E k \in 1..Len(wire) :
       LET all == SubSeq(wire, 1, k) IN
         /\ wire' = SubSeq(wire, k + 1, Len(wire))
         /\ IF Last(all) = NL
              THEN buf' = <<>> /\ \E slab \in {Split(all)} : Execute(slab)
              ELSE buf' = all /\ pc' = "read" /\ UNCHANGED <<done, store, reply>>
  /\ UNCHANGED <<got, client, served, blocks>>

(* MUTANT: the buffer is not reset between two requests.                   *)
BugReadKeeps ==
  /\ pc \in {"idle", "read"}
  /\ \E k \in 1..Len(wire) :
       LET all == buf \o SubSeq(wire, 1, k) IN
         /\ wire' = SubSeq(wire, k + 1, Len(wire))
         /\ buf' = all
         /\ IF Last(all) = NL
              THEN \E slab \in {Split(all)} : Execute(slab)
              ELSE pc' = "read" /\ UNCHANGED <<done, store, reply>>
  /\ UNCHANGED <<got, client, served, blocks>>

(* read_cmd reads until what it has ends with a newline; a read that finds *)
(* nothing is repeated.                                                    *)
Read ==
  /\ pc \in {"idle", "read"}
  /\ \E k \in 1..Len(wire) :
       LET all == buf \o SubSeq(wire, 1, k) IN
         /\ wire' = SubSeq(wire, k + 1, Len(wire))
         /\ IF Last(all) = NL
              THEN buf' = <<>> /\ \E slab \in {Split(all)} : Execute(slab)
              ELSE buf' = all /\ pc' = "read" /\ UNCHANGED <<done, store, reply>>
  /\ UNCHANGED <<got, client, served, blocks>>

-----------------------------------------------------------------------------
(* write_reply.  Each write that would block takes buf and total one back, *)
(* also to before the first byte.                                          *)
Byte(i) == IF i >= 1 THEN out[i] ELSE JUNK

(* MUTANT: a short write is taken for a complete one.                      *)
BugWrite ==
  /\ pc = "write"
  /\ \E k \in 1..Len(out) - total : got' = got \o [i \in 1..k |-> Byte(total + i)]
  /\ total' = Len(out) /\ pc' = "idle" /\ served' = served + 1
  /\ UNCHANGED <<wire, buf, out, store, client, done, blocks>>

Write ==
  /\ pc = "write"
  /\ \E k \in 1..Len(out) - total :
       /\ got' = got \o [i \in 1..k |-> Byte(total + i)]
       /\ total' = total + k
  /\ IF total' = Len(out)
       THEN pc' = "idle" /\ served' = served + 1
       ELSE UNCHANGED <<pc, served>>
  /\ UNCHANGED <<wire, buf, out, store, client, done, blocks>>

(* MUTANT: the -1 of a failed write is taken for a length.                 *)
BugWriteBlocks ==
  /\ pc = "write" /\ blocks < MaxBlocks
  /\ total' = total + 1
  /\ blocks' = blocks + 1
  /\ UNCHANGED <<pc, socket, out, store, client, done, served>>

WriteBlocks ==
  /\ pc = "write" /\ blocks < MaxBlocks
  /\ total' = total - 1
  /\ blocks' = blocks + 1
  /\ UNCHANGED <<pc, socket, out, store, client, done, served>>

Next == (\E q \in Request : Ask(q)) \/ Read \/ Write \/ WriteBlocks

Spec == Init /\ [][Next]_vars

(* What is in the socket is read in the end, and what is to be written     *)
(* finds room: the client takes its answers.                               *)
FairSpec == Spec /\ WF_vars(Read) /\ WF_vars(Write)

-----------------------------------------------------------------------------
(* A request that is beyond the doubts of framing: there is no newline in  *)
(* it, its name has no blanks, ends in the first chunk and fits the table, *)
(* and what it pushes is not empty.                                        *)
Plain(q) ==
  /\ NL \notin UNION {Range(q.args[i]) : i \in DOMAIN q.args}
  /\ q.op \notin Unnamed =>
       /\ Len(q.args[1]) \in 1..W - 1 /\ Len(q.args[1]) < KeySize /\ Len(q.args[1]) < NameMax
       /\ Range(q.args[1]) \cap Blank = {}
  /\ q.op = "push" => ValueOf(q) # <<>>

AllPlain == \A q \in Range(asked) : Plain(q)

(* What a FIFO per name makes of a request: the values it holds then and   *)
(* all it has said.                                                        *)
Fifo == [held |-> [name \in Names |-> <<>>], said |-> <<>>]

Serve(fifo, q) ==
  LET name == q.args[1]
      values == fifo.held[name]
  IN  CASE q.op \in Unnamed ->
             [fifo EXCEPT !.said = @ \o << <<q.op, <<1>>>>, ONE, NL>>]
        [] q.op = "push" ->
             [held |-> [fifo.held EXCEPT ![name] =
                          IF Len(@) <= AoqMaxSize THEN Append(@, ValueOf(q)) ELSE @],
              said |-> fifo.said \o << <<"push", <<1>>>>, ONE, NL>>]
        [] q.op = "pop" /\ values = <<>> ->
             [fifo EXCEPT !.said = @ \o << <<"pop", <<0>>>>, NL>>]
        [] q.op = "pop" /\ values # <<>> ->
             [held |-> [fifo.held EXCEPT ![name] = Tail(@)],
              said |-> fifo.said \o (<< <<"pop", <<Len(values[1])>>>> >> \o (values[1] \o <<NL>>))]

(* After requests executed one by one.                                     *)
FifoAfter(requests) ==
  LET fifo[n \in 0..Len(requests)] == IF n = 0 THEN Fifo ELSE Serve(fifo[n - 1], requests[n])
  IN  fifo[Len(requests)]

Expected(requests) == FifoAfter(requests).said

(* How much of s is found in t, token by token.                            *)
Found(s, t) ==
  LET found[n \in 0..Len(t)] ==
        IF n = 0 THEN 0
        ELSE LET m == found[n - 1] IN IF m < Len(s) /\ s[m + 1] = t[n] THEN m + 1 ELSE m
  IN  found[Len(t)]

IsSubsequence(s, t) == Found(s, t) = Len(s)

(* The types.  Only a request that has begun and not ended is kept in the  *)
(* buffer, and the position of a write lies in the answer but for the      *)
(* writes that blocked.                                                    *)
TypeOK ==
  /\ pc \in {"idle", "read", "write", "dead"}
  /\ (buf # <<>>) = (pc = "read")
  /\ buf # <<>> => Last(buf) # NL
  /\ pc = "write" => total \in -blocks..Len(out) - 1
  /\ Len(asked) <= MaxAsks /\ Range(asked) \subseteq Request
  /\ served <= Len(done) /\ blocks \in 0..MaxBlocks
  /\ \A name \in DOMAIN held : \A i \in DOMAIN held[name] : held[name][i].len \in Nat
  /\ queues \in 0..HtSize
  /\ eager \in BOOLEAN

(* A client that waits for its answers gets, in order, exactly those of a  *)
(* FIFO, however requests and answers are cut into pieces on their way and *)
(* into chunks in the server.  Writes that would block may repeat parts of *)
(* an answer and put stray bytes before it; they take nothing away.        *)
AnswersExact ==
  AllPlain /\ ~eager =>
    /\ blocks = 0 => IsPrefix(got, Expected(asked))
    /\ served = Len(asked) => IsSubsequence(Expected(asked), got)

(* The tokens that begin a line.                                           *)
Starts(text) == [i \in DOMAIN text |-> IF i = 1 \/ text[i - 1] = NL THEN text[i] ELSE JUNK]

(* Requests sent without waiting are taken for one and some are lost.  But *)
(* what is executed began a line of what was sent, each line is executed   *)
(* once at most, and in the order they were sent.  A line may be the rest  *)
(* of a value with a newline: read_cmd cannot tell, and if it begins with  *)
(* a head it is executed, though nobody asked it.                          *)
NothingInvented == IsSubsequence(done, Starts(sent))

(* The name of a push is one line, and no further line begins with a head. *)
Innocent(q) ==
  /\ q.op = "push" => NL \notin Range(q.args[1])
  /\ LET frame == Frame(q) IN
       \A i \in 2..Len(frame) : frame[i - 1] = NL => ~IsHead(frame[i])

(* What the server makes of a name.                                        *)
ServerName(name) == Trim(SubSeq(name, 1, Min({Len(name), W - 1})), Len(name))

(* If all requests are innocent, an item begins with the value of a push,  *)
(* whatever follows it in the slab, in a queue with the name that trim,    *)
(* the first chunk and the table leave of the one asked; if the client     *)
(* waits nothing follows but the newline, and a value with a newline is at *)
(* worst cut short there.                                                  *)
ItemsFaithful ==
  (\A q \in Range(asked) : Innocent(q)) =>
    \A name \in DOMAIN held : \A item \in Range(held[name]) :
      \E q \in Range(asked) :
        /\ q.op = "push" /\ item.len = Len(ValueOf(q))
        /\ name = Key(ServerName(q.args[1]))
        /\ NL \notin Range(ValueOf(q)) => IsPrefix(ValueOf(q), item.text)
        /\ ~eager => IsPrefix(item.text, ValueOf(q) \o <<NL>>)

(* Who waits for an answer gets one, as long as the table has room.        *)
Waiting == AllPlain /\ queues < HtSize /\ served < Len(asked)

Answered == (Waiting /\ ~eager) ~> (eager \/ ~Waiting)
=============================================================================

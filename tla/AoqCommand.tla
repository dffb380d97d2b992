----------------------------- MODULE AoqCommand -----------------------------
(***************************************************************************)
(* The commands: socket_read_cb and execute_command_line from the point    *)
(* where a request has been read into a slab, parse_args, and the handlers *)
(* of command.c, which run to completion in the server's one thread.       *)
(*                                                                         *)
(* The names are looked up in the hash table of AoqHashTable.  An AOQ      *)
(* structure is the sequence of its items, which AoqQueueList and          *)
(* AoqQueueProofs show aoq.c to keep; the chunks of a request are counted. *)
(* A request from file descriptor 0 is one that recovery_from_aoflog reads *)
(* from the log before the server listens.                                 *)
(***************************************************************************)
EXTENDS Integers, FiniteSets, Sequences, Functions

CONSTANTS
  Key, LongKey, HashOf, Queue, Sizes, MaxSize, NULL, CUT, JUNK, STALE,
               \* as in AoqHashTable
  Value,       \* second arguments of a push
  Fd,          \* sockets of clients, and 0
  Chunks,      \* numbers of chunks a request may take
  AoqMaxSize,  \* Serv->aoq_max_size
  MaxUsed      \* bound: chunks in use

ASSUME FdAssumption == 0 \in Fd /\ NULL \notin Value
(* No queue is not a queue without items.                                  *)
ASSUME StoreAssumption == NULL \notin Seq([id : Nat, value : Value \cup {NULL}])
ASSUME LimitAssumption == AoqMaxSize \in Nat \ {0} /\ Chunks \subseteq Nat \ {0}

VARIABLES
  ht, queues, dead, map, intact,   \* as in AoqHashTable
  items,       \* what each AOQ structure holds
  used,        \* Serv->chunk_used_num: chunks that are not in the pool
  lost,        \* history: chunks of the pushes a full queue refused
  exchange,    \* the last request and what was written for it, if anything
  serving      \* recovery is over

HT == INSTANCE AoqHashTable

ASSUME TableAssumption ==
  HT!KeyAssumption /\ HT!SizeAssumption /\ HT!NullAssumption

tvars == <<ht, queues, dead, map, intact>>
vars == <<tvars, items, used, lost, exchange, serving>>

Found(k) == HT!Find(k).how = "hit"
QueueOf(k) == ht.value[HT!Find(k).at]

Init ==
  /\ HT!Init
  /\ items = [q \in Queue |-> <<>>]
  /\ used = 0
  /\ lost = 0
  /\ exchange = [fd |-> 0, cmd |-> "none", args |-> <<>>, out |-> <<>>]
  /\ serving = FALSE

-----------------------------------------------------------------------------
(* The descriptor a handler is called with.                                *)
From(fd) == ~dead /\ serving = (fd # 0)

Exchange(fd, cmd, args, out) ==
  exchange' = [fd |-> fd, cmd |-> cmd, args |-> args, out |-> out]

(* What every handler but delqueue does: it writes unless fd is 0.         *)
Reply(fd, cmd, args, body) ==
  Exchange(fd, cmd, args, IF fd = 0 THEN <<>> ELSE <<body>>)

(* A request of n chunks was read, and this many chunks were freed.        *)
Settle(n, freed) == used' = used + n - freed

(* MUTANT: the bucket of the hash value is taken without comparing names.  *)
BugGetQueueHome(k, q) ==
  \/ q = ht.value[HT!Home(ht, k)] /\ UNCHANGED tvars
  \/ HT!CreateQueue(k, q)

(* getQueue: the queue of this name, found or made.                        *)
GetQueue(k, q) ==
  \/ Found(k) /\ q = QueueOf(k) /\ UNCHANGED tvars
  \/ HT!CreateQueue(k, q)

NextId(s) == IF s = <<>> THEN 1 ELSE (s[Len(s)].id + 1) % AoqMaxSize

-----------------------------------------------------------------------------
(* push: the request's chunks go into the queue with it.  A full queue     *)
(* takes no item, which push does not look at.                             *)
Push(fd, k, v, n) ==
  /\ From(fd)
  /\ used + n <= MaxUsed
  /\ \E q \in Queue :
       /\ GetQueue(k, q)
       /\ IF Len(items[q]) > AoqMaxSize
            THEN lost' = lost + n /\ UNCHANGED items
            ELSE /\ items' = [items EXCEPT ![q] =
                                Append(@, [id |-> NextId(@), value |-> v, chunks |-> n])]
                 /\ UNCHANGED lost
  /\ Settle(n, 0)
  /\ Reply(fd, "push", <<k, v>>, 1)
  /\ UNCHANGED serving

(* pop of an empty queue, which it may have had to make.                   *)
PopEmpty(fd, k, n) ==
  /\ From(fd)
  /\ \E q \in Queue : GetQueue(k, q) /\ items[q] = <<>>
  /\ Settle(n, n)
  /\ Reply(fd, "pop", <<k>>, NULL)
  /\ UNCHANGED <<items, lost, serving>>

(* MUTANT: pop frees its own request a second time.                        *)
BugPopFreesTwice(fd, k, n) ==
  /\ From(fd)
  /\ \E q \in Queue :
       /\ GetQueue(k, q)
       /\ items[q] # <<>>
       /\ fd # 0 => Head(items[q]).value # NULL
       /\ items' = [items EXCEPT ![q] = Tail(@)]
       /\ Settle(n, n + n + Head(items[q]).chunks)
       /\ Reply(fd, "pop", <<k>>, Head(items[q]).value)
  /\ UNCHANGED <<lost, serving>>

(* pop: the value goes out before its chunks are freed.                    *)
Pop(fd, k, n) ==
  /\ From(fd)
  /\ \E q \in Queue :
       /\ GetQueue(k, q)
       /\ items[q] # <<>>
       /\ fd # 0 => Head(items[q]).value # NULL
       /\ items' = [items EXCEPT ![q] = Tail(@)]
       /\ Settle(n, n + Head(items[q]).chunks)
       /\ Reply(fd, "pop", <<k>>, Head(items[q]).value)
  /\ UNCHANGED <<lost, serving>>

(* pop of an item pushed without a value: its second argument has no       *)
(* cursor, and the server reads through it.                                *)
PopNoValue(fd, k) ==
  /\ From(fd)
  /\ fd # 0
  /\ Found(k)
  /\ LET s == items[QueueOf(k)] IN
       /\ s # <<>>
       /\ Head(s).value = NULL
       /\ items' = [items EXCEPT ![QueueOf(k)] = Tail(@)]
       /\ used' = used - Head(s).chunks
  /\ dead' = TRUE
  /\ UNCHANGED <<ht, queues, map, intact, lost, exchange, serving>>

(* queue: the number of items and the numbers of the first and the last.   *)
Describe(s) ==
  IF s = <<>> THEN [total |-> 0, head |-> 0, tail |-> 0]
  ELSE [total |-> Len(s), head |-> Head(s).id, tail |-> s[Len(s)].id]

QueryQueue(fd, k, n) ==
  /\ From(fd)
  /\ HT!Find(k).how # "crash"
  /\ Settle(n, n)
  /\ Reply(fd, "queue", <<k>>, IF Found(k) THEN Describe(items[QueueOf(k)]) ELSE NULL)
  /\ UNCHANGED <<tvars, items, lost, serving>>

(* queues: hash_keys lists the buckets that have a key.                    *)
Keys == {ht.key[b] : b \in HT!Bucket} \ {NULL}

Queues(fd, n) ==
  /\ From(fd)
  /\ fd = 0 \/ JUNK \notin Keys
  /\ Settle(n, n)
  /\ Reply(fd, "queues", <<>>, IF ht.total > 0 THEN Keys ELSE {})
  /\ UNCHANGED <<tvars, items, lost, serving>>

(* status: of what it reports, the number of queues in the table.          *)
Status(fd, n) ==
  /\ From(fd)
  /\ Settle(n, n)
  /\ Reply(fd, "status", <<>>, ht.total)
  /\ UNCHANGED <<tvars, items, lost, serving>>

ChunksOf(s) == FoldFunction(+, 0, [i \in DOMAIN s |-> s[i].chunks])

(* MUTANT: the nodes are freed and the requests they carry are not.        *)
BugDelQueueLeaks(fd, k, n) ==
  /\ From(fd)
  /\ LET q == QueueOf(k) IN
       /\ HT!DelQueue(k)
       /\ Settle(n, n)
       /\ items' = [items EXCEPT ![q] = <<>>]
  /\ Exchange(fd, "delqueue", <<k>>, <<1>>)
  /\ UNCHANGED <<lost, serving>>

(* delqueue: every item's chunks go back with the queue, and the answer is *)
(* written whatever fd is.                                                 *)
DelQueue(fd, k, n) ==
  /\ From(fd)
  /\ LET q == QueueOf(k) IN
       /\ HT!DelQueue(k)
       /\ Settle(n, n + ChunksOf(items[q]))
       /\ items' = [items EXCEPT ![q] = <<>>]
  /\ Exchange(fd, "delqueue", <<k>>, <<1>>)
  /\ UNCHANGED <<lost, serving>>

DelMissing(fd, k, n) ==
  /\ From(fd)
  /\ HT!Find(k).how = "miss"
  /\ Settle(n, n)
  /\ Exchange(fd, "delqueue", <<k>>, <<0>>)
  /\ UNCHANGED <<tvars, items, lost, serving>>

-----------------------------------------------------------------------------
(* No name, or one that is too long or blank: the handlers turn it down.   *)
(* parse_args has freed a request without arguments, they free the others. *)
BadName(fd, n) ==
  /\ From(fd)
  /\ Settle(n, n)
  /\ \/ Reply(fd, "push", <<>>, 0)
     \/ Reply(fd, "pop", <<>>, NULL)
     \/ Reply(fd, "queue", <<>>, NULL)
     \/ Exchange(fd, "delqueue", <<>>, <<0>>)
  /\ UNCHANGED <<tvars, items, lost, serving>>

(* A head parse_args does not accept, or, during recovery, a request       *)
(* without arguments: no handler and no answer.                            *)
Malformed(fd, n) ==
  /\ From(fd)
  /\ Settle(n, n)
  /\ Exchange(fd, "none", <<>>, <<>>)
  /\ UNCHANGED <<tvars, items, lost, serving>>

(* A command that follows a pointer to nowhere in the hash table.          *)
Stray(fd, k) ==
  /\ From(fd)
  /\ HT!Crash(k)
  /\ UNCHANGED <<items, used, lost, exchange, serving>>

StrayQueues(fd) ==
  /\ From(fd)
  /\ fd # 0
  /\ ht.total > 0
  /\ JUNK \in Keys
  /\ dead' = TRUE
  /\ UNCHANGED <<ht, queues, map, intact, items, used, lost, exchange, serving>>

(* main has recovered what the log holds, or was not asked to.             *)
StartServing ==
  /\ ~dead
  /\ ~serving
  /\ serving' = TRUE
  /\ Exchange(0, "none", <<>>, <<>>)
  /\ UNCHANGED <<tvars, items, used, lost>>

Next ==
  \/ StartServing
  \/ \E fd \in Fd :
       \/ StrayQueues(fd)
       \/ \E n \in Chunks : Queues(fd, n) \/ Status(fd, n) \/ BadName(fd, n) \/ Malformed(fd, n)
       \/ \E k \in Key :
            \/ PopNoValue(fd, k) \/ Stray(fd, k)
            \/ \E n \in Chunks :
                 \/ \E v \in Value \cup {NULL} : Push(fd, k, v, n)
                 \/ PopEmpty(fd, k, n) \/ Pop(fd, k, n) \/ QueryQueue(fd, k, n)
                 \/ DelQueue(fd, k, n) \/ DelMissing(fd, k, n)

Spec == Init /\ [][Next]_vars

-----------------------------------------------------------------------------
(* Types.                                                                  *)
Item == [id : Nat, value : Value \cup {NULL}, chunks : Chunks]

TypeOK ==
  /\ HT!TypeOK
  /\ items \in [Queue -> Seq(Item)]
  /\ used \in Nat
  /\ lost \in Nat
  /\ serving \in BOOLEAN

(* Every chunk in use belongs to an item of a queue that exists or to a    *)
(* push that was refused: through parsing, handlers, replay and the loss   *)
(* of names in the hash table, each request is freed once, by whoever has  *)
(* it last.                                                                *)
ChunksOwned ==
  /\ used = lost + FoldFunction(+, 0, [q \in queues |-> ChunksOf(items[q])])
  /\ \A q \in Queue \ queues : items[q] = <<>>

(* The items of the queue every name was given: the handlers reach it      *)
(* through the table, and what they answer must come from it.              *)
Store == [k \in Key |->
  IF map[k] = NULL THEN NULL
  ELSE [i \in DOMAIN items[map[k]] |->
          [id |-> items[map[k]][i].id, value |-> items[map[k]][i].value]]]

Service == INSTANCE AoqService WITH
  Value <- Value \cup {NULL}, store <- Store,
  sound <- intact /\ ~dead /\ LongKey = {}

(* The handlers over the hash table are named queues with one answer per   *)
(* request, until the table grows, loses the link of a chain, or meets a   *)
(* name it cannot keep, or until an item without a value is popped.        *)
ImplementsService == Service!Spec

(* "push <queue_name> <data>(push data into queue)", aoq-client.c:55: a    *)
(* push that is answered 1 has put its item into a queue.                  *)
AckedPushIsQueued ==
  [][exchange'.cmd = "push" /\ exchange'.out = <<1>> /\ used' > used
     => \E q \in Queue : Len(items'[q]) = Len(items[q]) + 1]_vars

=============================================================================

# AOQ: models, checks and proofs

AOQ is a queue server: one process, one thread, a libevent loop. Clients send one
request per line (`push`, `pop`, `queue`, `queues`, `delqueue`, `status`) and get one
reply. Named FIFO queues live in memory; with `-x` the requests are also appended to a
log that `-r` replays at the next start, and with `-a` a timer adjusts the pool of
request buffers to a forecast of the load.

Everything here is written from the C sources. File and line numbers are those of the
repository.

## 1. The system

| part | source | state | operations | talks to |
|---|---|---|---|---|
| queue | `aoq.c` | `AOQ` (`head`, `tail`, `total`), `Qnode` (`uniqid`, `arg`, `next`) | `createQueue`, `pushQueue`, `popQueue`, `deleteQueue`, `createQnode` | called by the commands; frees requests through `freeArgs` |
| hash table | `hashtable.c` | array of `Bucket` (`key`, `value`, `next`), `size`, `total` | `hash_init`, `hash_insert`, `hash_find`, `hash_delete`, `hash_keys` | `getQueue` and the commands |
| chunk pool | `mempool.c` | free list `mp`, slabs, `chunk_used_num` | `createMemPool`, `mpalloc`, `mpfree`, `insertMemSlab`, `freeMemSlab`, `tuneMempool` | reading a request takes chunks, `freeArgs` returns them, the `-a` timer tunes |
| commands | `command.c` | none of their own | one handler per command, called with a descriptor, 0 during recovery | table, queues, pool, socket |
| parser and framing | `parser.c`, `func.c` | cursors into a slab | `read_cmd`, `read_buffer`, `parse_args`, `moveCursor`, `freeArgs`, `write_reply` | socket, pool |
| log and recovery | `aoqlog.c` | buffer `aoqlog`, the file | `writeAoqLog`, `saveAoqLog`, `recovery_from_aoflog`, `execute_command_line` | loop, timer, signal handler, commands |
| event loop | `aoq-server.c` | `client_connection`, `status`, events | `accept_cb`, `socket_read_cb`, three timers, `kill_signal` | all of the above |
| load forecast | `lsp.c`, `saveParamtersData` | a file of twenty samples | least-squares fit | `tuneMempool` |
| clients | `aoq-client.c`, `aoq.php` | none | format a request, print a reply | the server |

Because a handler runs to completion before the loop calls the next, interleaving in
this program is the interleaving of *calls*, not of statements, with two exceptions: the
signal handler may interrupt any statement and does not return, and clients act on their
sockets while a handler reads or writes. What is hard is that

- one structure is kept by several functions that each trust a different field: the
  pool is empty when `head` is NULL, when `total` is 0 or when `tail` is NULL, depending
  on who asks;
- a request's chunks change hands (slab, arguments, queue item, pool) and every early
  return must free them exactly once;
- buckets of the hash table are at once array elements and links of other names'
  chains, so deleting or growing touches names that the call does not mention;
- the same handlers run for a client and for a record of the log, with small
  differences;
- counters have limits, restart and wrap;
- a request and its answer cross the socket in pieces, a handler loops until it has all
  of the one and has written all of the other, and nobody else is served meanwhile;
- what was logged is spread over three places (log buffer, stdio's buffer, file) and a
  signal, a full disk or a crash may come between any two steps from one to the next.

The hazards are listed, line by line, in `PROJECT.json`.

## 2. The modules

```
AoqFifo  <== refines ==  AoqQueueList  -- extends -->  AoqQueue
                         AoqQueueProofs (TLAPS) -- extends --> AoqQueueList
                         AoqMemPoolList -- extends -->  AoqMemPool
                         AoqMemPoolProofs (TLAPS) -- extends --> AoqMemPoolList
AoqService <== refines == AoqCommand   -- instance --> AoqHashTable
             AoqCommandProofs (TLAPS)   -- extends --> AoqCommand, AoqFacts
                                        -- instance -> AoqHashTableProofs
AoqHashTable AoqHashTableProofs (TLAPS) -- extends --> AoqHashTable, AoqFacts
AoqLog       AoqLogProofs (TLAPS)       -- extends --> AoqLog, AoqFacts
AoqServer    AoqServerProofs (TLAPS)    -- extends --> AoqServer
AoqWire      AoqWireProofs (TLAPS)      -- extends --> AoqWire, AoqFacts
AoqFacts (TLAPS): induction, sums, and sequences that are cut and joined
```

`AoqQueue` is `aoq.c` pointer by pointer. A node is an address; `next`, `uniqid` and
`arg` are functions over nodes, `head` and `tail` stand for `head->next` and
`tail->next` of the two sentinel nodes. `pushQueue` is three actions, one for each
branch (`PushFirst`, `PushRefused`, `PushLast`); `deleteQueue` is one action per
iteration of its loop. `out` is what the call returns.

`AoqQueueList` adds two history variables, the sequence of nodes the list is meant to
be (`chain`) and the nodes of refused pushes (`leaked`), and states the properties.
`AoqFifo` is what the callers rely on: a sequence of numbered items.

`AoqMemPool` is `mempool.c` with the loop of `socket_read_cb` that fills a slab. The
functions with a loop are modelled an iteration at a time with a program counter, since
termination of those loops is in question; nothing else runs between two iterations.
A buffer is either zeroed or dirty. The result of the forecast is an arbitrary member
of `Forecasts`. `AoqMemPoolList` adds the sequences the lists are meant to be.

`AoqHashTable` is `hashtable.c` as `getQueue` and the commands use it. A table is a
record of the fields; a bucket is an index. `rand()` in the probe may lead to any free
bucket. `realloc` may move the array, after which the pointers between buckets lead into
memory that is no longer the table's (`STALE`), and the buckets it adds hold zeroes or
anything (`JUNK`). Names too long for the eight bytes `hash_insert` allocates are stored
as `CUT`, which equals no name. When the server follows such a pointer, or compares with
a name that is not there, `dead` becomes true and the model ends: what undefined
behaviour does next is not described. The history variables are `map`, the queue each
name was given, and `intact`: no growth yet, and no bucket cleared that belonged to a
chain of several.

`AoqCommand` composes the commands with the table. A request is a command, a name, a
value that may be missing and a number of chunks; an AOQ structure is the sequence of
its items, as `AoqQueueList` justifies; `used` is `chunk_used_num`, changed by
what each path allocates and frees, so that a request freed twice or not at all shows.
Before `StartServing` requests come from the log with descriptor 0, afterwards from
sockets. `AoqService` is what a client may expect, with no table, memory or crash; it
promises something only while `sound` holds. Both record the last request with its answer
(`exchange`), without which a queue could stand in for another unnoticed.

`AoqLog` is `aoqlog.c` with the timer and the signal handler. A request is a record of
pieces (`Size`), of which `Width` make a chunk; `writeAoqLog` copies piece by piece and
counts chunk by chunk, so that a signal may come in between. `log` and `len` are the buffer
up to its first zero and `aoqlog->len`; `stdio` holds what `fprintf` was given and `write`
was not, which is less than a `Block`. `fprintf` may fail after any part. What the queues
contain is a function of the requests executed (that is `AoqCommand` and `AoqService`), so
`ran`, the sequence of the lines executed, stands for it. `Replay` is recovery line by line:
any line is executed for what it is, be it one request, the beginning of one, or two glued
together, and only what is shorter than a head is not. `Crash` is `kill -9` or a fault.
History: `issued` (the bytes the file should hold), `clean` (no misfortune since the last
clean start), `kept` (what the server had run when it went down, and how it went), `was`
(what the last recovery ran).

`AoqServer` is the event loop. `pc` is the callback that has not returned. Of a request
matters whether none, a part or all of it has arrived; of a client, whether it is queued,
served, ignored, or gone, with or without a reset. A connection over the limit keeps its
descriptor without an event (`ignored`), and when its client leaves the descriptor is
`leaked`. The length `accept` gets is not initialized; a negative one makes it drop the
connection (`AcceptDrops`), any other is harmless. A write that fails is repeated, from a
byte further back each time, some two thousand million times (`hung`); then `total`
overflows, which may or may not end it (`Overflow`). Two kinds of client bring the whole
server to this (`WriteFails`): one that leaves between sending its request and getting the
answer, with an earlier answer unread, and one that stays and does not read, so that its
socket is full. Files are opened without a look at the result. With no descriptor left
(`Exhausted`) the message about a client over the limit (`aoq-server.c:149` calls
`serverlog`, `aoqlog.c:85-86`), the memory check and the command `status`
(`serverstat.h:52`) end the process (`Dead`). The default of `-l` is 65535, more than most
processes have descriptors: then failed accepts are counted up to the limit, and the next
one ends the server.

`AoqWire` is one connection byte by byte: what each client program sends for a command,
`read_cmd` on whatever pieces arrive, the split into chunks that stops at a chunk whose
last byte is a newline, the name cut at the end of the first chunk and trimmed (`Trim`),
the value as a cursor into the slab (`MoveCursor`) and `pop` gathering everything from there
to the slab's end, and `write_reply` with its position set back by each write that would
block. A head is one token, as it cannot leave the first chunk. The cursor's position is
computed instead of stepped, which is the same as long as no zero lies before it; beyond
the slab's end it stays where it began, in the last chunk. `Letter` is what names and
values are made of: newlines, blanks and whole heads may be among them, a zero may not
(`TokenAssumption`). So the rest of a value that was cut at a newline may begin with a
head, and is then executed as a request nobody asked (`func.c:47`, `parser.c:80-99`). An
empty value is no argument, and the `pop` of its item ends the process (`dead`,
`command.c:174`). A queue at its limit takes nothing and `push` says it did. Of the table
of queues the module keeps which names can be found: one shorter than the eight bytes that
`hash_insert` copies (`KeySize`) always; a longer one may or may not, for its key has no
end of its own, and if a zero happens to follow, it is the key of another name (`Finds`,
`Keep`). It ends where the table of `HtSize` buckets (`-t`, 1024 by default) would grow,
which `AoqHashTable` goes into.

In every module, definitions named `Bug...` are slips that the properties must catch
(section 3); no action uses them.

## 3. The runs

| run | what it explores | bounds, and why they are enough |
|---|---|---|
| `queue` | all sequences of calls on one queue | five nodes, limit three: the queue fills to limit + 1, one push is refused, numbers wrap and restart |
| `mempool` | two servers: one without `-a` whose load drains the pool, one with `-a` that never drains it | seven chunks, two slabs of any length: one slab is freed while the other is filled; forecasts below zero, zero and above the pool |
| `mempool_drained` | `PoolUsable` is violated with `-a` once a request has drained the pool | a pool of two chunks |
| `hashtable` | all insertions, deletions, probes and one growth | tables of two and three, which grow to four and six; three names of one bucket and a long name; four queues fill any of these tables |
| `hashtable_lookup` | `AlwaysExact` is violated without any growth | a table of three |
| `command` | every command from the log and from a client over a table of two that grows to four | two names of one bucket, requests of two chunks, limit one, six chunks in use: three requests are kept at a time, so a full queue, a refused push and an item without a value all occur |
| `command_acked` | `AckedPushIsQueued` is violated | as above |
| `log` | logging, saving, stops, full disks, crashes and restarts with and without `-r` | requests of one chunk, of two, and with a newline; threshold three, block two, seven pieces in all: two saves, a record torn in stdio, and one torn in the log; three starts: a recovery of what was written after a recovery |
| `log_kill` | `KillKeepsAll` is violated by a signal between two chunks | as above, without fairness |
| `server` | clients that connect, send in parts, leave, reset and come back; the memory limit | three clients, two connections, and one descriptor (accepts fail below the limit and the server dies, as with the default `-l 65535`) or three (a client over the limit is ignored and its descriptor lost; when the last is lost the server dies) |
| `wire` | three requests of `aoq.php` out of eight, waiting or pipelined | chunks of four tokens, keys of two bytes, a table of two, limit one: a value that crosses a chunk, one with a newline at a chunk's end, one with a head behind a newline, an empty one; a name with a blank behind it, one that is a blank, one as long as a key, one longer than the chunk; a third push to a queue of one; one write that would block |
| `wire_client` | `Answered` is violated for `aoq-client` | two requests |

Besides one type invariant per module, the properties are:

- `ListExact`, `NodesAccounted`: the pointers, the counter and the heap of a queue
  describe one list after any calls, also between two iterations of `deleteQueue`.
- `IdsDistinct`: items closer than the limit carry different numbers.
- `ImplementsFifo`: the list implements `AoqFifo`.
- `DeleteTerminates`, `LoopsEnd`: the loops over lists end.
- `PoolExact`, `SlabsExact`, `ChunksConserved`, `PoolZeroed`, `TuneReachesTarget`: the
  free list and the slabs are disjoint lists with every allocated chunk in exactly one,
  pooled chunks are zeroed, and tuning ends at its target. They hold without `-a`
  always, and with `-a` as long as no load drains the pool; `mempool_drained` shows what
  happens otherwise.
- `BucketsOwnQueues`, `TotalCountsBuckets`, `ChainsEnd`: no queue is lost from the array
  or in it twice, `total` is exact, no chain has a cycle. They hold throughout, also
  after growth and for names that can no longer be found.
- `ExactWhileIntact`: a name finds its queue and no other as long as `intact` holds.
- `ChunksOwned`: every chunk in use belongs to an item of a queue that exists or to a
  refused push.
- `ImplementsService`: answers and contents are those of `AoqService` while it is sound.

- `LogExact`: file, stdio's buffer and log buffer together are the bytes of the
  requests, each once and in order, as long as `clean` holds.
- `ReplayIsState`: between requests, replaying what has been logged gives the state.
- `StopKeepsAll`, `CrashKeepsPrefix`: what `-r` brings back after an orderly stop is
  everything, and after a crash some of the first requests, with at most the beginning of
  the next behind them. `RecoveryExtends`: a later recovery executes every line that an
  earlier one has executed, the same again, whatever happened in between. The exception is
  a last line without an end (`Settled`): it is executed as it stands, a request cut short,
  the next record is written behind it without a newline, and from then on the two are one
  other line. That record is lost. `FullBufferIsSaved`: a buffer over the threshold is
  written, as long as callbacks return; a stalled `read_cmd` (`func.c:40-61`) stops the timers
  as well, which is `LoopReturns` of `AoqServer`.
- `CountAccounts`, `ExactUnlessSpoilt`: the client count is that of served clients and of
  failed accepts, within the limit; nothing fails or leaks before a client has come over
  the limit (or `accept` was misled by its length).
- `DiesOnlyOfLeaks`: the server ends for want of a descriptor only after as many clients
  over the limit, still there or gone, as it has descriptors beyond `-l`. With fewer
  descriptors than `-l` it takes none.
- `LoopReturns`, `RequestsAreServed`, `NoneWaitsForEver`: callbacks return, whole
  requests are taken up, and queued clients are served, ignored or reset, unless a write
  hangs (its client has reset the connection, or is not reading) or the server has died.
- `AnswersExact`: a client that waits for each answer gets those of a FIFO, byte for byte,
  however things are cut, each taking no more than `-q` lets it; blocked writes add bytes and
  take none away. It is stated for names of one to seven bytes without blanks that end in the
  first chunk, and values that hold no newline and are not empty (`Plain`).
- `NothingInvented`: whatever is executed began a line of what was sent (`Starts`), each line
  at most once and in the order sent. More cannot be said: a line may be the rest of a value
  with a newline, which is executed if it begins like a request, though nobody asked it.
- `ItemsFaithful`: if no request hides a head behind a newline, and no name holds a newline
  (`Innocent`), an item begins with the value of a push, in the queue whose name `trim`, the
  first chunk and the table make of the one asked. Pipelining may put more behind the value;
  if the client waited nothing follows but the newline, and a value with one is at worst cut.
  With a hidden head an item nobody pushed can be held, and then the property says nothing.
- `Answered`: a waiting client is answered, while its requests are plain and the table has room.

**Fairness.** Clients and timers owe nothing, so calls have none. A function that has
begun is run to its end by the one thread, which justifies weak fairness of the loop
steps of `AoqQueueList`, `AoqMemPoolList` and `AoqLog`. `TimerSave` has strong fairness:
the timer is served again and again between requests, as long as callbacks return, and the
disk is not full for ever.
In `AoqServer` every turn of the loop serves all ready descriptors, so accepting and
reading have strong fairness although other callbacks disable them in between. That a
client finishes or gives up a request it has begun (`PatientSpec`) is an assumption about
clients: without it one client that stalls keeps the server in `read_cmd` for ever, and
all three liveness properties of `server` fail. Of a client that does not read its answer
nothing is assumed: `write_reply` goes on to try, or has tried too often (`Hung`), which the
three properties name as the way to fail. `AoqWire` assumes that what is
in the socket is read and that the client takes its answers. Deadlock is not checked where
`dead` is a final state or a bound may be reached (`AoqHashTable`, `AoqCommand`,
`AoqLog`, `AoqServer`, `AoqWire`).

**Mutants.** For each property of a passing run `PROJECT.json` names a definition and
its `Bug...` variant; with the variant in its place TLC finds the property violated.

**Disagreements found** (`findings` in `PROJECT.json`):

1. A push that is refused is answered `1` all the same; its node and chunks are lost
   (`command.c:107`).
2. After a request has taken the last chunk of the pool, `tail` still leads to it, and
   `tuneMempool` adds chunks behind a chunk in use (`mempool.c:246`).
3. `hash_delete` clears a bucket together with its link (`hashtable.c:115`): the names
   behind it cannot be found any more, or a search meets the cleared bucket and compares
   with a NULL name.
4. `kill_signal` saves the log wherever it finds it (`aoq-server.c:270`): in the middle of
   a request half of it goes out, between `fprintf` and the clearing all of it twice.
5. `aoq-client` sends zeros behind the newline, and `queues` without one
   (`aoq-client.c:185`); `read_cmd` waits for a newline at the end of what it has.

Smaller ones without a run: an empty value, which `aoq.php` sends without complaint, kills
the server when it is popped (`command.c:174`); a queue takes one item more than `-q`
(`aoq.c:32` tests `total > aoq_max_size`); a start without `-r` leaves the old records in
the log, which the next start with `-r` replays; pipelined requests are logged as one but
replayed line by line, so that recovery executes those the server had dropped.

## 4. The proofs

`AoqQueueProofs` proves, for every set of nodes and arguments and every limit (a
positive number), what the run `queue` shows for five nodes: `TypeCorrect`,
`ListIsExact`, `HeapAccounted`, `NumbersDistinct` and `ListRefinesFifo`. The only
assumptions are the named ones of `AoqQueue` about its constants.

The inductive invariant is `ListInv`, the conjunction of `TypeOK`, `ListExact` and
`NodesAccounted`. None of the three is inductive alone: a push keeps the links of the
list only because the node it gets is not on it, which `NodesAccounted` says of every
node that is not allocated, and a pop frees what `head` leads to, which is the first
node only by `ListExact`. `NextListInv` has one lemma per action, each reduced to what
appending to a sequence and taking its tail do (`AppendChain`, `TailChain`).
`NumbersDistinct` needs a second invariant: items at a distance below the limit differ
by that distance modulo the limit (`IdsAdvance`), so their numbers differ.
`ListRefinesFifo` maps `chain` to the abstract items:
`InitRefines` and `NextRefines` are the two halves of the step simulation.

`AoqServerProofs` proves, for any finite set of clients, any `-l` and any number of
descriptors, `TypeCorrect`, `CountIsKept`, `CountIsExact` and `EndsOnlyOfLeaks`. The count
can be exact only if no descriptor has leaked, and that only if nobody was ever ignored, so
the invariant adds `Undisturbed`: before `spoilt`, `leaked` is zero and no client is
ignored. Then the descriptors in use are the clients served, fewer than the limit whenever
`accept_cb` would count one more, and an accept that fails for want of a descriptor
contradicts `MaxClients <= maxFds`. For `EndsOnlyOfLeaks` it adds `DiesFull`, that a dead
server has all its descriptors in use: each way to die finds none free, or takes the last
for a client over the limit, and nothing is closed afterwards. Those in use for served
clients are at most `-l` (`CountAccounts`), so the rest are the ignored and the leaked.
`TypePreserved` needs `CountAccounts` too: only a count that includes the client who leaves
may be lowered.

`AoqMemPoolProofs` proves, for any chunks, slabs, forecasts, reserve, load and any choice
malloc makes, five invariants of the run `mempool`: `TypeCorrect`, `PoolIsExact`,
`SlabsAreExact`, `NoChunkIsLost` and `PoolIsZeroed`. They assume `SafeOptions`: without `-a`
nothing, with `-a` that the pool starts larger than the load and that every target
`tuneMempool` accepts is larger than the load. Some assumption is needed (`mempool_drained`
violates `PoolUsable` without it), and the values of `mempool` satisfy this one (sizes 3 and
loads 2; targets of at least 3 or negative). `Core` says how pool, slabs and heap lie side
by side: a chunk goes from one list to another without harm to a third only because the
lists are disjoint and the links of each end in it. `Enough` is what `-a` needs: pool and
used chunks together exceed the load, also while the pool shrinks, since the target does; so
the pool is never empty when `tuneMempool` asks for its tail, or goes on shrinking. The code
ensures nothing of the kind; what it keeps without any such assumption, for any forecast and
load and on a drained pool, is `TuningKeepsTarget`: by the counter, no more chunks are taken
than was asked, and exactly as many are added. `TuneReachesTarget`, which is about the list,
stays with the run. Each of the four ways a chunk moves has a lemma (`TakeChunk`,
`AppendChunk`, `ReturnChunk`, `DropChunk`), over three about linked lists (`ListAppend`,
`ListTail`, `ListFrame`).

`AoqHashTableProofs` proves, for any names, hash, growth and size up to `MaxSize`, the five
invariants of the run `hashtable`: `TypeCorrect`, `QueuesAreOwned`, `TotalIsExact`,
`NoChainIsALoop` and `NamesAreExact`. The inductive invariant `HtInv` has two parts. `Sound`
holds always: a queue is in one bucket, `total` counts the buckets in use, nothing lies
beyond `size`, and `Acyclic`, which says of any set of buckets that some pointer leads out
of it. In this form the absence of loops is kept by a step without following any chain: an
insertion links the last bucket of a chain to one that nothing is linked to, a deletion only
clears links. `NoLongPath` then gives `ChainsEnd` from it by counting. `Whole` holds while
the table is intact: pointers lead from buckets in use to buckets in use, and every name
lies on the chain of its home bucket (`Reaches`, again stated with sets). The searches are
recursive functions, given by CHOOSE; `LookEquation`, `WalkEquation` and `PathEquation`
prove that they exist, and `MissedAll` that a search that misses has passed every bucket of
the chain. Growth needs arithmetic: a hash modulo twice the size is the old one or the old
one plus the size (`RemainderOfDouble`).

`AoqCommandProofs` proves, for any names, sockets, values, request sizes and table,
`TypeCorrect`, `EveryChunkIsOwned` and `CommandsImplementService`. `CmdInv` adds the table's
`HtInv` to `ChunksOwned`, for two facts: what a name finds is a queue that exists, and a
queue made is none that does; without the first an item could be appended to a queue that
the sum does not range over. The sums are folds over functions, of which `AoqFacts` proves
that the order does not matter (`AdderSplits`, `TotalSplits`). The refinement has a lemma
for each command (`PushServes`, `PopServes`, ...) and assumes `LongKey = {}`, as in the run:
a name that `hash_insert` cuts (one of exactly eight bytes may be found all the same if a
zero follows its copy, `hashtable.c:60-62`; here it is not, and `AoqWire` has both) breaks
the promise of `AoqService`, whose `sound` is a variable that starts TRUE and that the
mapping computes from the table. While the table is intact every name finds its own queue
(`IntactIsReliable`); when it is not, `sound` falls and the abstract service allows anything
(`PromiseFalls`).

`AoqLogProofs` proves, for any requests, chunk size, threshold, stdio buffer and bounds, all
invariants and safety properties of the run `log`: `TypeCorrect`, `LogIsExact`,
`ReplayShowsState`, `StopLosesNothing`, `CrashLosesLast` and `RecoveryKeeps`. For `LogExact`
the invariant adds that the count is the length of the buffer whenever no
copy is in progress (`Counted`): a stop that finds `len = 0` writes nothing, and loses
nothing only because the buffer is then empty. A piece copied goes behind both sides
(`PieceCopied`, `AppendToLast`); a save moves bytes from the buffer across two cuts
(`WriteOutExact`, `CutInTwo`). The recovery properties rest on what reading a log a piece
at a time yields (`Reading`, a recursive function: `ReadEquation`, `ReadingOfAppend`).
`ReplayIsState` holds only between requests, so `Truth` says what the log reads as in
between: the requests executed and the part of the one in hand that was copied. `Stopped`
carries it through the signal handler, and `Crashed` to the file, which holds a beginning
of it (`FileIsFirst`, `ReadingKeeps`). `RecoveryExtends` must hold after misfortunes that
break `LogExact`, so it has an invariant of its own, `Sure`: the settled lines of the last
recovery are the first of those that end in the file. They stay so because the file only
grows, and because what recovery has read of a line does not depend on what follows it.

`AoqWireProofs` proves, for any requests, chunk size, key size, limits and bounds, all
invariants of the run `wire`: `TypeCorrect` and `OnlyWhatBeganALine` for both clients,
`ItemsAreFaithful` and `AnswersAreExact` for `aoq.php`, the client of the run. The invariant
`Inv` of the first says where a write stands and that no answer is counted before its request
was executed; it needs that the split of a buffer that ends with a newline has a last chunk
(`SplitType`), and that what a cursor gathers are tokens (`FromType`). For `NothingInvented`,
`Lines` says that what was sent is a text of whole lines, then the buffer and the socket, and
that the heads executed are found among the beginnings of those lines: a read leaves the
buffer whole until it ends with a newline, so that a request executed begins a line and leaves
none behind in part (`StartsOfTwo`, `FreshOfTwo`).

For `ItemsFaithful`, `Meek` is that all requests are innocent. Then `Order` says of the heads
executed followed by those that begin lines in the buffer and in the socket that they are
heads of requests in the order asked: a client adds one at the end (`OneHead`, `TracedMore`),
and whatever the server drops, or takes for a part of the request before, only shortens the
row (`TracedLess`). `Frames` says of buffer and socket that every head at the beginning of a
line begins the whole frame of a request, and if the client always waited, that nothing
follows that frame. That a head about to be sent finds none on its way once the client has
waited, is a consequence of `Order` (`NoneOnItsWay`). So what the cursor gathers, which is
everything behind the name up to the slab's end (`FromBehind`, by `FlattenOfCuts`), begins
with the value, and `Faithful` keeps that of every item through the table's ways with long
names (`FaithfulKept`, `NameIsKey`). It assumes `aoq.php` because the zeros of `aoq-client`
remain in the buffer and end what is gathered too early.

For `AnswersExact`, `Exact` says where a client stands that waits: nothing is on its way and
all answers are heard (`Quiet`), one request is in the socket and the buffer (`OnItsWay`),
or its answer is being written (`InAnswer`); in each the server lives and the queues are
those of the FIFO, every value with its newline behind it (`Matches`). The frame of a plain
request has its only newline at the end (`OneNewline`), so that the server executes it
exactly when it has all of it, and then `NameFound` and `ValueFound` give back the name and
the value, and the table the queue, for the name is shorter than a key (`ItemsFound`,
`KeepMatches`). How much of the expected answers has been heard is counted by `Found`;
`FoundWritten` shows that a write which starts no later than the position reached extends it
to the end of what is written, whatever was repeated. The theorem needs `aoq.php` for the
reason that `wire_client` shows.

`AoqFacts` makes these proofs possible. The library's induction theorems take an operator
as a parameter, which the provers here cannot instantiate; `Induction` is stated for a
set instead (it contains 0, and n + 1 with n) and follows from the well-foundedness of
the numbers. With it what a recursive *function* computes can be proved, if its equation is
proved first. That covers the searches of the hash table, the reading of the log,
`FlattenSeq`, the sum of a function's values, and the FIFO and the search for its answers
in `AoqWire` (`FifoEquation`, `FoundEquation`).

Of liveness, the part that is about single steps is proved: a measure that falls, and where
it can fail, that there is always a step to take. `DeletionShrinks` takes the length of the
list, `LoopsRunDown` (`Left`) the iterations of a counting loop, the chunks of the slab that
is freed or those that the load still allows, `ThreadReturns` the pieces left to copy, and
`AnswerComesNearer` (`ToGo`) what is left to read or write, where a write that blocks takes
a byte back and uses up one of `MaxBlocks`; a step of a server that dies is the exception,
and `WaitingHasWork` excludes it for plain requests. `WaitingHasWork` is the other half of
`Answered`: the buffer never holds the whole request of a waiting client, for read_cmd would
have executed it, so the rest is in the socket.

Model-checked only: the liveness properties themselves, `DeleteTerminates`, `LoopsEnd`,
`FullBufferIsSaved`, `LoopReturns`, `RequestsAreServed`, `NoneWaitsForEver` and `Answered`.
The step from a measure to them needs `ENABLED` and an induction over the measure, both out
of TLAPS's reach here; those of `AoqServer` rest on strong fairness and have no measure,
since others come and go meanwhile. Every invariant and every safety property of the passing
runs but `TuneReachesTarget` is proved; the theorems whose assumptions are narrower than
their modules' (`SafeOptions`, `LongKey = {}`, `aoq.php`) say so, and the values of the
passing runs satisfy these assumptions.

## 5. Not modelled

The forecast of `lsp.c` is floating point arithmetic and enters as an arbitrary number; the
window of samples it reads (`saveParamtersData`) is rewritten by one callback for it alone.
Option parsing, forking and the pid file keep no state that other parts depend on; of the
server log only matters that it must be opened. Of the clients only what they send is
modelled. Contents of names and values are abstract, and never zero: no value holds one. A
head hidden in a value is one token of it; a head that the end of a value makes with what
follows it is not modelled. `abs(rand() - index)` is taken to reach every bucket. `malloc`
does not fail. Counters do not overflow: with the default limit of 2147483647 the `int
total` of a queue would, long after memory is exhausted. The clear of the two links in
`popQueue` (`aoq.c:54-55`) is a comparison and has no effect, in the code and in the model.

In the log, `fprintf` is one step: a signal during the `write` it makes does what a signal
right before or after it does. `kill_signal` calls functions that are not safe in a handler
(`fprintf`, `malloc` through `serverlog`); a deadlock in them is not modelled. The log
buffer starts at 50 MB of zeros and is saved within a second of reaching 100000 bytes, so
that it is not filled to its last byte. A second signal is modelled, also during the handler
up to its last step, `fclose` and `exit`. A request longer than the line buffer of recovery
is not.

In the server, `-c` below 1024 makes chunks smaller than what is copied into them; the
default is assumed. `protocol_convert` does not initialize its index `i`; zero is
assumed. Timers are structures on the stack of blocks that have ended
(`aoq-server.c:422`); their places are assumed distinct. The memory check may find
anything (`serverstat.h` reads lines by number).

## 6. Plan

Done: all parts of the core, and the proofs of the safety properties of the passing runs but
`TuneReachesTarget`. What is left:

- a composition of `AoqWire` and `AoqLog`, in which a pipelined request, or a value with a
  newline, is replayed as several;
- `TuneReachesTarget` as a theorem, under `SafeOptions` or with the drained pool described;
- the hazards of `PROJECT.json` that have no property: descriptor 0 during recovery,
  and the crash on an empty value, which a client could avoid.

----------------------------- MODULE AoqMemPool -----------------------------
(***************************************************************************)
(* The chunk pool of mempool.c: a linked list of zeroed chunks that the    *)
(* server takes its request buffers from, the slabs (also linked lists)    *)
(* that hold the chunks of one request each, and tuneMempool, which the    *)
(* timer of the -a option uses to follow a forecast of the load.           *)
(*                                                                         *)
(* Everything runs on one thread, so a function is never interrupted by    *)
(* another; the functions with a loop are modelled an iteration at a time, *)
(* pc naming the loop the server is in:                                    *)
(*   build   createMemPool            fill   socket_read_cb, reading       *)
(*   free    freeMemSlab              shrink, grow   tuneMempool           *)
(*   idle    none                                                          *)
(*                                                                         *)
(* A chunk is a ChunkNode and its buffer.  A buffer is dirty or zeroed:    *)
(* read_buffer copies without a terminator, so every reader of a chunk     *)
(* relies on the zeroes behind the copied bytes.                           *)
(***************************************************************************)
EXTENDS Integers, FiniteSets

CONSTANTS
  Chunk,         \* addresses a ChunkNode can have
  Slab,          \* addresses a MemSlab can have
  NULL,
  Options,       \* servers to consider: -s, -a, and the load they meet
  Reserve,       \* MP_RESERVE_SIZE
  Forecasts,     \* what ForecastY may return, external to the pool
  MaxSlabs,      \* bound: requests held at a time
  Malloc(_)      \* addresses malloc may return while those of a set are free

ASSUME NullAssumption == NULL \notin Chunk \cup Slab
ASSUME ReserveAssumption == Reserve \in Nat /\ Forecasts \subseteq Int
(* load bounds the chunks that queued and current requests hold at a time. *)
ASSUME OptionsAssumption ==
  Options \subseteq [size : Nat \ {0}, aomp : BOOLEAN, load : Nat]
ASSUME MallocAssumption == \A S \in SUBSET Chunk : Malloc(S) \subseteq S

VARIABLES
  pc,
  cur,                 \* the slab that is filled or freed
  num,                 \* the parameter of tuneMempool
  todo,                \* iterations a counting loop has left
  next,                \* ChunkNode.next
  live,                \* chunks malloc has handed out and free not taken back
  dirty,               \* chunks whose buffer is not zeroed
  mpHead, mpTail,      \* mp->head->next, mp->tail->next
  mpTotal,             \* mp->total
  chunkUsedNum,        \* Serv->chunk_used_num
  slabs,               \* slabs in existence
  slabHead, slabTail,  \* head->next and tail->next of each slab
  option               \* this server

heap == <<next, live, dirty>>
mp == <<mpHead, mpTail, mpTotal, chunkUsedNum>>
slab == <<slabs, slabHead, slabTail>>
vars == <<pc, cur, num, todo, heap, mp, slab, option>>

Init ==
  /\ option \in Options
  /\ pc = "build"
  /\ todo = option.size
  /\ cur = NULL
  /\ num = 0
  /\ next = [c \in Chunk |-> NULL]
  /\ live = {}
  /\ dirty = {}
  /\ mpHead = NULL
  /\ mpTail = NULL
  /\ mpTotal = 0
  /\ chunkUsedNum = 0
  /\ slabs = {}
  /\ slabHead = [s \in Slab |-> NULL]
  /\ slabTail = [s \in Slab |-> NULL]

-----------------------------------------------------------------------------
(* malloc of a ChunkNode with its buffer zeroed, behind the pool's tail.   *)
(* It asks whether there is a tail, and not whether the pool is empty.     *)
AppendNew(c) ==
  /\ c \in Malloc(Chunk \ live)
  /\ live' = live \cup {c}
  /\ dirty' = dirty \ {c}
  /\ next' = IF mpTail = NULL
               THEN [next EXCEPT ![c] = NULL]
               ELSE [next EXCEPT ![c] = NULL, ![mpTail] = c]
  /\ mpHead' = IF mpTail = NULL THEN c ELSE mpHead
  /\ mpTail' = c

(* createMemPool; total is set once, after the loop.                       *)
BuildChunk(c) ==
  /\ pc = "build"
  /\ todo > 0
  /\ AppendNew(c)
  /\ todo' = todo - 1
  /\ UNCHANGED <<pc, cur, num, mpTotal, chunkUsedNum, slab, option>>

BuildDone ==
  /\ pc = "build"
  /\ todo = 0
  /\ mpTotal' = option.size
  /\ pc' = "idle"
  /\ UNCHANGED <<cur, num, todo, heap, mpHead, mpTail, chunkUsedNum, slab, option>>

-----------------------------------------------------------------------------
(* Slips the properties of AoqMemPoolList must catch.  No action of the    *)
(* code uses them.                                                         *)

(* mpalloc that leaves the link of the chunk it takes out of the pool.     *)
BugInsertMemSlabKeepsLink(s, c, f) ==
  IF slabHead[s] = NULL \/ slabTail[s] = NULL
    THEN /\ slabHead' = [slabHead EXCEPT ![s] = c]
         /\ slabTail' = [slabTail EXCEPT ![s] = c]
         /\ next' = f
    ELSE /\ slabTail' = [slabTail EXCEPT ![s] = c]
         /\ next' = [f EXCEPT ![slabTail[s]] = c]
         /\ UNCHANGED slabHead

(* mpalloc that counts a fresh chunk as taken from the pool.               *)
BugTakeFreshCounts(s, c) ==
  /\ mpHead = NULL
  /\ c \in Malloc(Chunk \ live)
  /\ mpTail' = NULL
  /\ live' = live \cup {c}
  /\ dirty' = dirty \cup {c}
  /\ chunkUsedNum' = chunkUsedNum + 1
  /\ mpTotal' = mpTotal - 1
  /\ slabHead' = [slabHead EXCEPT ![s] = IF @ = NULL THEN c ELSE @]
  /\ slabTail' = [slabTail EXCEPT ![s] = c]
  /\ next' = [next EXCEPT ![c] = NULL]
  /\ UNCHANGED mpHead

(* mpfree without its memset.                                              *)
BugFreeChunkDirty ==
  /\ pc = "free"
  /\ slabHead[cur] # NULL
  /\ LET c == slabHead[cur] IN
       /\ slabHead' = [slabHead EXCEPT ![cur] = next[c]]
       /\ next' = IF mpTotal = 0
                    THEN [next EXCEPT ![c] = NULL]
                    ELSE [next EXCEPT ![c] = NULL, ![mpTail] = c]
       /\ mpHead' = IF mpTotal = 0 THEN c ELSE mpHead
       /\ mpTail' = c
  /\ mpTotal' = mpTotal + 1
  /\ chunkUsedNum' = chunkUsedNum - 1
  /\ UNCHANGED <<pc, cur, num, todo, live, dirty, slabs, slabTail, option>>

(* mpfree that asks for the tail, as createMemPool and tuneMempool do.     *)
BugFreeChunkAsksTail ==
  /\ pc = "free"
  /\ slabHead[cur] # NULL
  /\ LET c == slabHead[cur] IN
       /\ slabHead' = [slabHead EXCEPT ![cur] = next[c]]
       /\ dirty' = dirty \ {c}
       /\ next' = IF mpTail = NULL
                    THEN [next EXCEPT ![c] = NULL]
                    ELSE [next EXCEPT ![c] = NULL, ![mpTail] = c]
       /\ mpHead' = IF mpTail = NULL THEN c ELSE mpHead
       /\ mpTail' = c
  /\ mpTotal' = mpTotal + 1
  /\ chunkUsedNum' = chunkUsedNum - 1
  /\ UNCHANGED <<pc, cur, num, todo, live, slabs, slabTail, option>>

(* tuneMempool without the test for a negative target.                     *)
BugTuneUnchecked(f) ==
  LET n == IF f = 0 THEN chunkUsedNum ELSE f IN
    /\ pc = "idle"
    /\ option.aomp
    /\ mpTotal # n + Reserve
    /\ num' = n
    /\ IF mpTotal > n + Reserve
         THEN pc' = "shrink" /\ todo' = mpTotal - n - Reserve
         ELSE pc' = "grow" /\ todo' = n + Reserve - mpTotal
    /\ UNCHANGED <<cur, heap, mp, slab, option>>

(* The shrinking loop tests the total it copied before it began.           *)
BugShrinkChunkForever ==
  /\ pc = "shrink"
  /\ todo > 0
  /\ IF mpHead # NULL
       THEN /\ mpHead' = next[mpHead]
            /\ live' = live \ {mpHead}
            /\ next' = [next EXCEPT ![mpHead] = NULL]
            /\ mpTotal' = mpTotal - 1
       ELSE UNCHANGED <<mpHead, live, next, mpTotal>>
  /\ UNCHANGED <<pc, cur, num, todo, dirty, mpTail, chunkUsedNum, slab, option>>

(* Unlinks the chunk and does not free it.                                 *)
BugShrinkChunkLeaks ==
  /\ pc = "shrink"
  /\ todo > 0
  /\ todo' = todo - 1
  /\ IF mpHead # NULL
       THEN mpHead' = next[mpHead] /\ mpTotal' = mpTotal - 1
       ELSE UNCHANGED <<mpHead, mpTotal>>
  /\ UNCHANGED <<pc, cur, num, heap, mpTail, chunkUsedNum, slab, option>>

-----------------------------------------------------------------------------
(* insertMemSlab of node c, of which the links are otherwise those of f.   *)
InsertMemSlab(s, c, f) ==
  IF slabHead[s] = NULL \/ slabTail[s] = NULL
    THEN /\ slabHead' = [slabHead EXCEPT ![s] = c]
         /\ slabTail' = [slabTail EXCEPT ![s] = c]
         /\ next' = [f EXCEPT ![c] = NULL]
    ELSE /\ slabTail' = [slabTail EXCEPT ![s] = c]
         /\ next' = [f EXCEPT ![c] = NULL, ![slabTail[s]] = c]
         /\ UNCHANGED slabHead

(* mpalloc, read_buffer and insertMemSlab when the pool is empty.          *)
TakeFresh(s, c) ==
  /\ mpHead = NULL
  /\ c \in Malloc(Chunk \ live)
  /\ mpTail' = NULL
  /\ live' = live \cup {c}
  /\ dirty' = dirty \cup {c}
  /\ chunkUsedNum' = chunkUsedNum + 1
  /\ InsertMemSlab(s, c, next)
  /\ UNCHANGED <<mpHead, mpTotal>>

(* The same with a chunk of the pool.  The tail is left alone even when    *)
(* the last chunk goes.                                                    *)
TakePooled(s) ==
  /\ mpHead # NULL
  /\ mpHead' = next[mpHead]
  /\ mpTotal' = mpTotal - 1
  /\ dirty' = dirty \cup {mpHead}
  /\ chunkUsedNum' = chunkUsedNum + 1
  /\ InsertMemSlab(s, mpHead, next)
  /\ UNCHANGED <<mpTail, live>>

(* A request arrives: createMemSlab and its first chunk.                   *)
ReadRequest(s) ==
  /\ pc = "idle"
  /\ s \notin slabs
  /\ Cardinality(slabs) < MaxSlabs
  /\ chunkUsedNum < option.load
  /\ pc' = "fill"
  /\ cur' = s
  /\ slabs' = slabs \cup {s}
  /\ (\E c \in Chunk : TakeFresh(s, c)) \/ TakePooled(s)
  /\ UNCHANGED <<num, todo, option>>

(* Every further chunk of a request that does not fit into one.            *)
ReadMore ==
  /\ pc = "fill"
  /\ chunkUsedNum < option.load
  /\ (\E c \in Chunk : TakeFresh(cur, c)) \/ TakePooled(cur)
  /\ UNCHANGED <<pc, cur, num, todo, slabs, option>>

(* The request is read; its slab is kept by the queue it is pushed to, or  *)
(* freed once it is answered.                                              *)
ReadDone ==
  /\ pc = "fill"
  /\ pc' = "idle"
  /\ cur' = NULL
  /\ UNCHANGED <<num, todo, heap, mp, slab, option>>

-----------------------------------------------------------------------------
(* freeMemSlab: the request is answered, or the item popped or deleted.    *)
FreeMemSlab(s) ==
  /\ pc = "idle"
  /\ s \in slabs
  /\ pc' = "free"
  /\ cur' = s
  /\ UNCHANGED <<num, todo, heap, mp, slab, option>>

(* One iteration, with the mpfree it calls.  mpfree asks whether the pool  *)
(* is empty, where the other functions ask for the tail.                   *)
FreeChunk ==
  /\ pc = "free"
  /\ slabHead[cur] # NULL
  /\ LET c == slabHead[cur] IN
       /\ slabHead' = [slabHead EXCEPT ![cur] = next[c]]
       /\ dirty' = dirty \ {c}
       /\ next' = IF mpTotal = 0
                    THEN [next EXCEPT ![c] = NULL]
                    ELSE [next EXCEPT ![c] = NULL, ![mpTail] = c]
       /\ mpHead' = IF mpTotal = 0 THEN c ELSE mpHead
       /\ mpTail' = c
  /\ mpTotal' = mpTotal + 1
  /\ chunkUsedNum' = chunkUsedNum - 1
  /\ UNCHANGED <<pc, cur, num, todo, live, slabs, slabTail, option>>

FreeDone ==
  /\ pc = "free"
  /\ slabHead[cur] = NULL
  /\ pc' = "idle"
  /\ cur' = NULL
  /\ slabs' = slabs \ {cur}
  /\ slabTail' = [slabTail EXCEPT ![cur] = NULL]
  /\ UNCHANGED <<num, todo, heap, mp, slabHead, option>>

-----------------------------------------------------------------------------
(* event_calculate_cb with the forecast f: a forecast of zero stands for   *)
(* the present use.                                                        *)
Target(f) == IF f = 0 THEN chunkUsedNum ELSE f

Tune(f) ==
  LET n == Target(f) IN
    /\ pc = "idle"
    /\ option.aomp
    /\ n + Reserve >= 0
    /\ mpTotal # n + Reserve
    /\ num' = n
    /\ IF mpTotal > n + Reserve
         THEN pc' = "shrink" /\ todo' = mpTotal - n - Reserve
         ELSE pc' = "grow" /\ todo' = n + Reserve - mpTotal
    /\ UNCHANGED <<cur, heap, mp, slab, option>>

(* One chunk less; the tail is not looked at.                              *)
ShrinkChunk ==
  /\ pc = "shrink"
  /\ todo > 0
  /\ todo' = todo - 1
  /\ IF mpHead # NULL
       THEN /\ mpHead' = next[mpHead]
            /\ live' = live \ {mpHead}
            /\ next' = [next EXCEPT ![mpHead] = NULL]
            /\ mpTotal' = mpTotal - 1
       ELSE UNCHANGED <<mpHead, live, next, mpTotal>>
  /\ UNCHANGED <<pc, cur, num, dirty, mpTail, chunkUsedNum, slab, option>>

GrowChunk(c) ==
  /\ pc = "grow"
  /\ todo > 0
  /\ todo' = todo - 1
  /\ AppendNew(c)
  /\ mpTotal' = mpTotal + 1
  /\ UNCHANGED <<pc, cur, num, chunkUsedNum, slab, option>>

TuneDone ==
  /\ pc \in {"shrink", "grow"}
  /\ todo = 0
  /\ pc' = "idle"
  /\ num' = 0
  /\ UNCHANGED <<cur, todo, heap, mp, slab, option>>

=============================================================================

--------------------------- MODULE AoqMemPoolList ---------------------------
(***************************************************************************)
(* AoqMemPool with the lists its pointers stand for, as history variables  *)
(* that no step of the code reads: the chunks of the pool from head to     *)
(* tail, and those of every slab in the order they were filled.            *)
(***************************************************************************)
EXTENDS AoqMemPool, Sequences, Functions

VARIABLES
  pool,      \* the chunks of the pool, from head to tail
  content    \* the chunks of each slab, from head to tail

lvars == <<vars, pool, content>>

LInit ==
  /\ Init
  /\ pool = <<>>
  /\ content = [s \in Slab |-> <<>>]

LBuildChunk(c) == BuildChunk(c) /\ pool' = Append(pool, c) /\ UNCHANGED content
LBuildDone == BuildDone /\ UNCHANGED <<pool, content>>

(* The chunk a step of reading took is the tail of the slab afterwards.    *)
Taken(s) ==
  /\ content' = [content EXCEPT ![s] = Append(@, slabTail'[s])]
  /\ pool' = IF pool = <<>> THEN <<>> ELSE Tail(pool)

LReadRequest(s) == ReadRequest(s) /\ Taken(s)
LReadMore == ReadMore /\ Taken(cur)
LReadDone == ReadDone /\ UNCHANGED <<pool, content>>

LFreeMemSlab(s) == FreeMemSlab(s) /\ UNCHANGED <<pool, content>>
LFreeChunk ==
  /\ FreeChunk
  /\ pool' = Append(pool, slabHead[cur])
  /\ content' = [content EXCEPT ![cur] = SubSeq(@, 2, Len(@))]
LFreeDone == FreeDone /\ UNCHANGED <<pool, content>>

LTune(f) == Tune(f) /\ UNCHANGED <<pool, content>>
LShrinkChunk ==
  /\ ShrinkChunk
  /\ pool' = SubSeq(pool, 2, Len(pool))
  /\ UNCHANGED content
LGrowChunk(c) == GrowChunk(c) /\ pool' = Append(pool, c) /\ UNCHANGED content
LTuneDone == TuneDone /\ UNCHANGED <<pool, content>>

(* The steps the server takes once it is inside a loop.                    *)
LLoop ==
  \/ \E c \in Chunk : LBuildChunk(c) \/ LGrowChunk(c)
  \/ LBuildDone
  \/ LReadDone
  \/ LFreeChunk
  \/ LFreeDone
  \/ LShrinkChunk
  \/ LTuneDone

LNext ==
  \/ LLoop
  \/ \E s \in Slab : LReadRequest(s) \/ LFreeMemSlab(s)
  \/ LReadMore
  \/ \E f \in Forecasts : LTune(f)

(* Requests and the timer may stay away; a loop that has begun runs on.    *)
Spec == LInit /\ [][LNext]_lvars /\ WF_lvars(LLoop)

-----------------------------------------------------------------------------
(* Types.                                                                  *)
TypeOK ==
  /\ pc \in {"build", "fill", "free", "shrink", "grow", "idle"}
  /\ cur \in Slab \cup {NULL}
  /\ num \in Int
  /\ todo \in Nat
  /\ next \in [Chunk -> Chunk \cup {NULL}]
  /\ live \subseteq Chunk
  /\ dirty \subseteq Chunk
  /\ mpHead \in Chunk \cup {NULL}
  /\ mpTail \in Chunk \cup {NULL}
  /\ mpTotal \in Nat
  /\ chunkUsedNum \in 0..option.load
  /\ slabs \subseteq Slab
  /\ slabHead \in [Slab -> Chunk \cup {NULL}]
  /\ slabTail \in [Slab -> Chunk \cup {NULL}]
  /\ option \in Options
  /\ pool \in Seq(Chunk)
  /\ content \in [Slab -> Seq(Chunk)]

(* h leads through next along exactly the chunks of s.                     *)
Linked(h, s) ==
  /\ h = IF s = <<>> THEN NULL ELSE s[1]
  /\ \A i \in 1..Len(s) : next[s[i]] = IF i = Len(s) THEN NULL ELSE s[i + 1]

(* The pool's pointers and its counter describe one list, through every    *)
(* mix of requests, releases and tuning: four functions maintain them, and *)
(* each decides by a different field whether the pool is empty.            *)
PoolExact ==
  /\ Linked(mpHead, pool)
  /\ pool # <<>> => mpTail = pool[Len(pool)]
  /\ pc # "build" => mpTotal = Len(pool)

(* Every slab holds the chunks it was filled with, in that order, and      *)
(* whole requests stay together while others come and go.                  *)
SlabsExact ==
  /\ \A s \in Slab : Linked(slabHead[s], content[s])
  /\ \A s \in slabs : content[s] # <<>> => slabTail[s] = content[s][Len(content[s])]
  /\ \A s \in Slab \ slabs : content[s] = <<>>

UsedChunks == UNION {Range(content[s]) : s \in Slab}

(* A chunk is in one place only: never in the pool and in a request, nor   *)
(* in two requests, nor twice in a list.  The allocated chunks are those,  *)
(* none lost and none freed while in use, and chunk_used_num, from which   *)
(* the load is forecast, counts the ones in requests.                      *)
ChunksConserved ==
  /\ live = Range(pool) \cup UsedChunks
  /\ Range(pool) \cap UsedChunks = {}
  /\ \A s, t \in Slab : s # t => Range(content[s]) \cap Range(content[t]) = {}
  /\ IsInjective(pool)
  /\ \A s \in Slab : IsInjective(content[s])
  /\ chunkUsedNum = Cardinality(UsedChunks)

(* A chunk waits zeroed in the pool, whatever it held before: the readers  *)
(* of the next request stop at the zeroes behind it.                       *)
PoolZeroed == Range(pool) \cap dirty = {}

(* A pool that counts chunks has one to give.                              *)
PoolUsable == pc = "idle" /\ mpTotal > 0 => mpHead # NULL

(* tuneMempool leaves exactly the chunks it was asked for, although one of *)
(* its loops counts iterations and the other tests for the end of a list.  *)
TuneReachesTarget ==
  pc \in {"shrink", "grow"} /\ todo = 0 => mpTotal = num + Reserve

(* No loop over a list runs on: the lists it follows end.                  *)
LoopsEnd == pc # "idle" ~> pc = "idle"

=============================================================================

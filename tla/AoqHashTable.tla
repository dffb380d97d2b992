---------------------------- MODULE AoqHashTable ----------------------------
(***************************************************************************)
(* The table of queues: hashtable.c as getQueue and the commands use it.   *)
(*                                                                         *)
(* A bucket is one element of an array and also a link of a chain: a name  *)
(* whose own bucket is taken goes into any free bucket of the array, which *)
(* the last bucket of the chain then points to.  A name's chain is what    *)
(* the pointers lead to from the bucket of its hash value, and other       *)
(* names' chains may run through the same buckets.                         *)
(*                                                                         *)
(* The table is a record of the fields of HashTable and of its buckets,    *)
(* one function per field; a bucket is an index.  dead says that the       *)
(* server has read a name through a pointer that leads to none, or probes  *)
(* a table without a free bucket: it crashes, hangs or goes on with        *)
(* somebody else's memory, and the model ends there.                       *)
(***************************************************************************)
EXTENDS Integers, FiniteSets, Sequences

CONSTANTS
  Key,         \* queue names
  LongKey,     \* those that do not fit into the bytes hash_insert keeps
  HashOf,      \* the name's ELFHash before the modulo
  Queue,       \* addresses an AOQ structure can have
  Sizes,       \* sizes the table may start with, the -t option
  MaxSize,     \* bound: no table grows beyond this
  NULL,
  CUT,         \* what strcmp reads of a long name: it equals no name
  JUNK,        \* what a bucket realloc added holds, when it is not zero
  STALE        \* a pointer into the array that realloc has left

ASSUME KeyAssumption ==
  LongKey \subseteq Key /\ HashOf \in [Key -> Nat]
ASSUME SizeAssumption ==
  MaxSize \in Nat /\ Sizes \subseteq 1..MaxSize
ASSUME NullAssumption ==
  /\ {NULL, CUT, JUNK} \cap (Key \cup Queue) = {}
  /\ {NULL, STALE, JUNK} \cap (0..(MaxSize - 1)) = {}
  /\ NULL \notin {CUT, JUNK, STALE} /\ CUT \notin {JUNK, STALE} /\ JUNK # STALE

VARIABLES
  ht,        \* the HashTable
  queues,    \* AOQ structures in existence
  dead,
  map,       \* history: the queue each name was last given, if not deleted
  intact     \* history: the table has not grown, and no bucket of a chain
             \* of several has been cleared

vars == <<ht, queues, dead, map, intact>>

Bucket == 0..(MaxSize - 1)

(* What hash_insert keeps of a name: of a long one the first bytes, with   *)
(* no end of their own.  (A zero that happens to follow them would make    *)
(* them the name they spell; AoqWire takes both into account.)             *)
Stored(k) == IF k \in LongKey THEN CUT ELSE k
Home(t, k) == HashOf[k] % t.size

Table(n) ==
  [size |-> n, total |-> 0,
   key |-> [b \in Bucket |-> NULL],
   value |-> [b \in Bucket |-> NULL],
   next |-> [b \in Bucket |-> NULL]]

Init ==
  /\ \E n \in Sizes : ht = Table(n)
  /\ queues = {}
  /\ dead = FALSE
  /\ map = [k \in Key |-> NULL]
  /\ intact = TRUE

-----------------------------------------------------------------------------
Ptr == Bucket \cup {NULL, JUNK, STALE}

(* The buckets that the pointers lead to from b; a pointer into memory     *)
(* that is no bucket of this array ends it.  A chain that never ends would *)
(* have size + 1.                                                          *)
Follow(t) == [p \in Ptr |-> IF p \in Bucket THEN t.next[p] ELSE NULL]

Chain(t, b) ==
  LET at[n \in 0..t.size] == IF n = 0 THEN b ELSE Follow(t)[at[n - 1]]
  IN [i \in 1..Cardinality({n \in 0..t.size : at[n] # NULL}) |-> at[i - 1]]

Readable(t, b) == b \in Bucket /\ t.key[b] \notin {NULL, JUNK}

Miss == [how |-> "miss", at |-> NULL]
Wild == [how |-> "crash", at |-> NULL]

(* MUTANT: the last comparison is dropped, so the end of a chain is a hit. *)
BugSeekTakesLast(t, k) ==
  LET look[n \in 0..t.size] ==
        [p \in Ptr |->
           IF n = 0 \/ ~Readable(t, p) THEN Wild
           ELSE IF t.key[p] = k \/ t.next[p] = NULL THEN [how |-> "hit", at |-> p]
           ELSE look[n - 1][t.next[p]]]
  IN IF t.value[Home(t, k)] = NULL THEN Miss ELSE look[t.size][Home(t, k)]

(* hash_find and the search hash_delete repeats: the first bucket of the   *)
(* chain with this name.  strcmp with a name that is not there is fatal.   *)
(* n counts the buckets a chain may still have.                            *)
Seek(t, k) ==
  LET look[n \in 0..t.size] ==
        [p \in Ptr |->
           IF p = NULL THEN Miss
           ELSE IF n = 0 \/ ~Readable(t, p) THEN Wild
           ELSE IF t.key[p] = k THEN [how |-> "hit", at |-> p]
           ELSE look[n - 1][t.next[p]]]
  IN IF t.value[Home(t, k)] = NULL THEN Miss ELSE look[t.size][Home(t, k)]

Find(k) == Seek(ht, k)

(* The walk of hash_insert, which compares every bucket but the last.      *)
Walk(t, k) ==
  LET walk[n \in 0..t.size] ==
        [p \in Ptr |->
           IF n = 0 \/ p \notin Bucket THEN Wild
           ELSE IF t.next[p] = NULL THEN [how |-> "last", at |-> p]
           ELSE IF ~Readable(t, p) THEN Wild
           ELSE IF t.key[p] = k THEN [how |-> "same", at |-> p]
           ELSE walk[n - 1][t.next[p]]]
  IN walk[t.size][Home(t, k)]

Put(t, b, k, q) ==
  [t EXCEPT !.total = @ + 1,
            !.key[b] = Stored(k), !.value[b] = q, !.next[b] = NULL]

(* The probe: rand() may lead to any bucket that is free.                  *)
Free(t) == {b \in 0..(t.size - 1) : t.value[b] = NULL}

(* MUTANT: the probe does not ask whether the bucket is taken, and the     *)
(* bucket is filled before it is linked.                                   *)
BugInsertTakesAny(t, k, q) ==
  LET h == Home(t, k)
      w == Walk(t, k)
  IN IF t.value[h] = NULL THEN {Put(t, h, k, q)}
     ELSE IF w.how = "last"
       THEN {[Put(t, b, k, q) EXCEPT !.next[w.at] = b] : b \in (0..(t.size - 1)) \ {h}}
     ELSE IF w.how = "same" THEN {[t EXCEPT !.value[w.at] = q]}
     ELSE {}

(* hash_insert of queue q into t, an array with room: the tables it may    *)
(* leave behind, none when it crashes.                                     *)
Insert(t, k, q) ==
  LET h == Home(t, k)
      w == Walk(t, k)
  IN IF t.value[h] = NULL THEN {Put(t, h, k, q)}
     ELSE IF w.how = "last"
       THEN {Put([t EXCEPT !.next[w.at] = b], b, k, q) : b \in Free(t) \ {h}}
     ELSE IF w.how = "same" THEN {[t EXCEPT !.value[w.at] = q]}
     ELSE {}

(* realloc to twice the size.  The array may move, and the pointers        *)
(* between its buckets do not move with it; the buckets it adds hold       *)
(* whatever was there.  Names keep the bucket of the old modulo.           *)
Grown(t) ==
  LET Extended(f, junk) ==
        [b \in Bucket |-> IF b < t.size THEN f[b] ELSE IF b \in junk THEN JUNK ELSE NULL]
      Moved(f) == [b \in Bucket |-> IF f[b] = NULL THEN NULL ELSE STALE]
  IN UNION {
       {[size |-> 2 * t.size, total |-> t.total,
         key |-> Extended(t.key, junk),
         value |-> Extended(t.value, junk),
         next |-> Extended(IF moved THEN Moved(t.next) ELSE t.next, junk)] :
        junk \in SUBSET (t.size..(2 * t.size - 1))} : moved \in BOOLEAN}

(* The arrays an insertion may work on.                                    *)
Room(t) ==
  IF t.total < t.size THEN {t} ELSE IF 2 * t.size <= MaxSize THEN Grown(t) ELSE {}

-----------------------------------------------------------------------------
(* getQueue of a name the table does not find: a new queue takes the name. *)
CreateQueue(k, q) ==
  /\ ~dead
  /\ Find(k).how = "miss"
  /\ q \notin queues
  /\ \E t \in Room(ht) : ht' \in Insert(t, k, q)
  /\ queues' = queues \cup {q}
  /\ map' = [map EXCEPT ![k] = q]
  /\ intact' = (intact /\ ht.total < ht.size)
  /\ UNCHANGED dead

(* MUTANT: hash_delete clears the bucket of the hash value, not the one    *)
(* its search has come to.                                                 *)
BugDelQueueClearsHome(k) ==
  /\ ~dead
  /\ Find(k).how = "hit"
  /\ LET b == Home(ht, k) IN
       /\ queues' = queues \ {ht.value[Find(k).at]}
       /\ ht' = [ht EXCEPT !.total = @ - 1,
                           !.key[b] = NULL, !.value[b] = NULL, !.next[b] = NULL]
       /\ intact' = (intact /\ ht.next[b] = NULL /\ \A c \in Bucket : ht.next[c] # b)
  /\ map' = [map EXCEPT ![k] = NULL]
  /\ UNCHANGED dead

(* MUTANT: total is left alone when a bucket is cleared.                   *)
BugDelQueueKeepsTotal(k) ==
  /\ ~dead
  /\ Find(k).how = "hit"
  /\ LET b == Find(k).at IN
       /\ queues' = queues \ {ht.value[b]}
       /\ ht' = [ht EXCEPT !.key[b] = NULL, !.value[b] = NULL, !.next[b] = NULL]
       /\ intact' = (intact /\ ht.next[b] = NULL /\ \A c \in Bucket : ht.next[c] # b)
  /\ map' = [map EXCEPT ![k] = NULL]
  /\ UNCHANGED dead

(* MUTANT: total is decremented for a name that is not there as well.      *)
BugDelQueueCountsMisses(k) ==
  /\ ~dead
  /\ Find(k).how # "crash"
  /\ IF Find(k).how = "miss"
       THEN ht' = [ht EXCEPT !.total = @ - 1] /\ UNCHANGED <<queues, intact>>
       ELSE LET b == Find(k).at IN
         /\ queues' = queues \ {ht.value[b]}
         /\ ht' = [ht EXCEPT !.total = @ - 1,
                             !.key[b] = NULL, !.value[b] = NULL, !.next[b] = NULL]
         /\ intact' = (intact /\ ht.next[b] = NULL /\ \A c \in Bucket : ht.next[c] # b)
  /\ map' = [map EXCEPT ![k] = NULL]
  /\ UNCHANGED dead

(* delqueue of a name the table finds: deleteQueue, then hash_delete.      *)
DelQueue(k) ==
  /\ ~dead
  /\ Find(k).how = "hit"
  /\ LET b == Find(k).at IN
       /\ queues' = queues \ {ht.value[b]}
       /\ ht' = [ht EXCEPT !.total = @ - 1,
                           !.key[b] = NULL, !.value[b] = NULL, !.next[b] = NULL]
       /\ intact' = (intact /\ ht.next[b] = NULL /\ \A c \in Bucket : ht.next[c] # b)
  /\ map' = [map EXCEPT ![k] = NULL]
  /\ UNCHANGED dead

(* Any command with this name, when the search or the insertion meets a    *)
(* bucket without one, or the insertion finds no bucket free.              *)
Crash(k) ==
  /\ ~dead
  /\ \/ Find(k).how = "crash"
     \/ /\ Find(k).how = "miss"
        /\ \E t \in Room(ht), q \in Queue : Insert(t, k, q) = {}
  /\ dead' = TRUE
  /\ UNCHANGED <<ht, queues, map, intact>>

Next ==
  \/ \E k \in Key, q \in Queue : CreateQueue(k, q)
  \/ \E k \in Key : DelQueue(k) \/ Crash(k)

Spec == Init /\ [][Next]_vars

-----------------------------------------------------------------------------
(* Types.                                                                  *)
TypeOK ==
  /\ ht.size \in 1..MaxSize
  /\ ht.total \in Nat
  /\ ht.key \in [Bucket -> Key \cup {NULL, CUT, JUNK}]
  /\ ht.value \in [Bucket -> Queue \cup {NULL, JUNK}]
  /\ ht.next \in [Bucket -> Bucket \cup {NULL, JUNK, STALE}]
  /\ queues \subseteq Queue
  /\ dead \in BOOLEAN
  /\ map \in [Key -> Queue \cup {NULL}]
  /\ intact \in BOOLEAN

Held == {b \in Bucket : ht.value[b] \notin {NULL, JUNK}}

(* The queues that exist are the ones in the table, each in one bucket:    *)
(* no bucket leads to a queue delqueue has freed, and none is unreachable  *)
(* from the array, which is what the queues command lists.                 *)
BucketsOwnQueues ==
  /\ queues = {ht.value[b] : b \in Held}
  /\ \A b, c \in Held : ht.value[b] = ht.value[c] => b = c
  /\ \A b \in Bucket : ht.key[b] \in Key \cup {CUT} <=> b \in Held

(* total counts the buckets in use, across growth, deletion and names that *)
(* are inserted again and again because no search finds them; hash_insert  *)
(* grows the array by it, and its probe loops until a bucket is free.      *)
TotalCountsBuckets ==
  /\ ht.total = Cardinality(Held)
  /\ ht.total <= ht.size
  /\ Held \subseteq 0..(ht.size - 1)

(* No chain leads back into itself, so the search for a name ends.         *)
ChainsEnd == \A b \in 0..(ht.size - 1) : Len(Chain(ht, b)) <= ht.size

(* What a name finds, against the name's queue.                            *)
Exact(k) ==
  LET f == Find(k) IN
    IF map[k] = NULL THEN f.how = "miss"
    ELSE f.how = "hit" /\ ht.value[f.at] = map[k]

(* Until the table grows or a link of a chain is cleared, every name finds *)
(* the queue it was given, however the chains of other names run through   *)
(* its own, and a deleted or new name finds nothing.                       *)
ExactWhileIntact == intact => \A k \in Key \ LongKey : Exact(k)

(* A name finds its queue for good: "queue <queue_name>(show status of     *)
(* queue_name)", aoq-client.c:58.  Deleting another queue of the chain, or *)
(* growth, breaks it.                                                      *)
AlwaysExact == ~dead => \A k \in Key \ LongKey : Exact(k)

=============================================================================

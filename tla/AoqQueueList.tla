---------------------------- MODULE AoqQueueList ----------------------------
(***************************************************************************)
(* AoqQueue with two history variables that no step of the code reads: the *)
(* sequence of nodes the list is meant to hold, and the nodes a refused    *)
(* push allocated and forgot.  The properties say that the pointers and    *)
(* the counter of aoq.c agree with that sequence, and that what a caller   *)
(* sees is the first-in first-out queue of AoqFifo.                        *)
(***************************************************************************)
EXTENDS AoqQueue, Sequences, Functions

VARIABLES
  chain,    \* the nodes on the list, from head to tail
  leaked    \* nodes of refused pushes, which nothing points to any more

lvars == <<vars, chain, leaked>>

LInit ==
  /\ Init
  /\ chain = <<>>
  /\ leaked = {}

LCreate == CreateQueue /\ UNCHANGED <<chain, leaked>>

LPush(n, a) ==
  /\ PushFirst(n, a) \/ PushLast(n, a)
  /\ chain' = Append(chain, n)
  /\ UNCHANGED leaked

LRefuse(n, a) ==
  /\ PushRefused(n, a)
  /\ leaked' = leaked \cup {n}
  /\ UNCHANGED chain

LPopEmpty == PopEmpty /\ UNCHANGED <<chain, leaked>>

LPop ==
  /\ PopHead
  /\ chain' = Tail(chain)
  /\ UNCHANGED leaked

LDelete == DeleteQueue /\ UNCHANGED <<chain, leaked>>

LDeleteNode ==
  /\ DeleteNode \/ DeleteLast
  /\ chain' = Tail(chain)
  /\ UNCHANGED leaked

LDeleteEmpty == DeleteEmpty /\ UNCHANGED <<chain, leaked>>

LNext ==
  \/ LCreate
  \/ \E n \in Node, a \in Arg : LPush(n, a) \/ LRefuse(n, a)
  \/ LPopEmpty
  \/ LPop
  \/ LDelete
  \/ LDeleteNode
  \/ LDeleteEmpty

(* Nothing obliges a client to call; a deleteQueue that has begun runs on. *)
Spec == LInit /\ [][LNext]_lvars /\ WF_lvars(LDeleteNode \/ LDeleteEmpty)

-----------------------------------------------------------------------------
(* Types.  The numbers of a queue stay below the limit, apart from the 1   *)
(* every queue begins with.                                                *)
TypeOK ==
  /\ uniqid \in [Node -> 0..AoqMaxSize]
  /\ arg \in [Node -> Arg \cup {NULL}]
  /\ next \in [Node -> Pointer]
  /\ live \subseteq Node
  /\ exists \in BOOLEAN
  /\ deleting \in BOOLEAN
  /\ total \in 0..(AoqMaxSize + 1)
  /\ head \in Pointer
  /\ tail \in Pointer
  /\ out \in [code : {-1, 0, 1}, arg : Arg \cup {NULL}]
  /\ chain \in Seq(Node)
  /\ leaked \subseteq Node

(* No node is twice on the list.                                           *)
ChainDistinct ==
  \A i, j \in 1..Len(chain) : i # j => chain[i] # chain[j]

(* The links lead from each node to the one behind it, and end.            *)
ChainLinked ==
  \A i \in 1..Len(chain) :
    next[chain[i]] = IF i = Len(chain) THEN NULL ELSE chain[i + 1]

(* Following next from head visits exactly the queued nodes and ends at    *)
(* tail, whatever mix of pushes, pops and half finished deletions came     *)
(* before: the two pointers of an AOQ and its counter are set by different *)
(* statements in four functions.                                           *)
ListExact ==
  /\ exists => head = IF chain = <<>> THEN NULL ELSE chain[1]
  /\ Ready => tail = IF chain = <<>> THEN NULL ELSE chain[Len(chain)]
  /\ Ready => total = Len(chain)
  /\ ~exists => chain = <<>> /\ ~deleting
  /\ ChainDistinct
  /\ ChainLinked

(* Heap safety: the allocated nodes are those on the list and those of     *)
(* refused pushes, so nothing on the list has been freed, nothing popped   *)
(* or deleted stays allocated, and nothing is freed twice.                 *)
NodesAccounted ==
  /\ live = Range(chain) \cup leaked
  /\ Range(chain) \cap leaked = {}

(* Two items that wait at the same time in a window of AoqMaxSize have     *)
(* different numbers, although the numbering of pushQueue wraps and starts *)
(* at 1 again whenever the queue runs empty.                               *)
IdsDistinct ==
  \A i, j \in 1..Len(chain) :
    i < j /\ j - i < AoqMaxSize => uniqid[chain[i]] # uniqid[chain[j]]

-----------------------------------------------------------------------------
(* What a caller sees of the list.  A queue is gone for everybody once     *)
(* deleteQueue has begun.                                                  *)
queued ==
  [i \in 1..Len(chain) |-> [id |-> uniqid[chain[i]], arg |-> arg[chain[i]]]]

Fifo == INSTANCE AoqFifo WITH
  exists <- Ready,
  items <- IF deleting THEN <<>> ELSE queued,
  out <- out

(* Every step of the linked list is a step of the first-in first-out queue *)
(* or leaves it alone: items come out once each, in the order and with the *)
(* argument they went in with, and a refused push changes nothing.         *)
ImplementsFifo == Fifo!Spec

(* The loop of deleteQueue ends, and the structure with it.                *)
DeleteTerminates == deleting ~> ~exists

=============================================================================

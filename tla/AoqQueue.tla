------------------------------ MODULE AoqQueue ------------------------------
(***************************************************************************)
(* One queue of the server as aoq.c builds it: an AOQ structure whose head *)
(* and tail point into a singly linked list of Qnodes on the heap.         *)
(*                                                                         *)
(* head, tail and total are aoq->head->next, aoq->tail->next and           *)
(* aoq->total.  A Qnode is an address of Node with the fields uniqid, arg  *)
(* and next; live is the set of addresses malloc has handed out and free   *)
(* has not taken back, so Node also bounds the memory of the model.        *)
(*                                                                         *)
(* A libevent callback runs to completion, so push and pop are one action  *)
(* each; deleteQueue is a loop over the list and is kept as one, an action *)
(* per iteration, with every other call waiting for it to end.             *)
(***************************************************************************)
EXTENDS Integers, FiniteSets

CONSTANTS
  Node,        \* addresses a Qnode can have
  Arg,         \* what a push queues
  AoqMaxSize,  \* Serv->aoq_max_size, the -q option
  NULL

(* main() replaces a -q that is not positive by AOQ_MAX_SIZE.              *)
ASSUME MaxSizeAssumption == AoqMaxSize \in Nat \ {0}
ASSUME NullAssumption == NULL \notin Node \cup Arg

VARIABLES
  uniqid, arg, next,   \* the fields of each Qnode
  live,                \* Qnodes that are allocated
  exists,              \* the AOQ structure is allocated
  deleting,            \* deleteQueue is inside its loop
  total, head, tail,   \* the fields of the AOQ structure
  out                  \* what the last pushQueue or popQueue returned

node == <<uniqid, arg, next>>
aoq == <<exists, total, head, tail>>
vars == <<uniqid, arg, next, live, exists, deleting, total, head, tail, out>>

Pointer == Node \cup {NULL}
Result(code, a) == [code |-> code, arg |-> a]
Ready == exists /\ ~deleting

Init ==
  /\ uniqid = [n \in Node |-> 0]
  /\ arg = [n \in Node |-> NULL]
  /\ next = [n \in Node |-> NULL]
  /\ live = {}
  /\ exists = FALSE
  /\ deleting = FALSE
  /\ total = 0
  /\ head = NULL
  /\ tail = NULL
  /\ out = Result(0, NULL)

(* createQnode: a fresh node that carries a.                               *)
NewQnode(n, a) ==
  /\ Ready
  /\ n \notin live
  /\ live' = live \cup {n}
  /\ arg' = [arg EXCEPT ![n] = a]

(* A freed node keeps nothing anybody may rely on: the model clears it.     *)
Free(n) ==
  /\ live' = live \ {n}
  /\ uniqid' = [uniqid EXCEPT ![n] = 0]
  /\ arg' = [arg EXCEPT ![n] = NULL]
  /\ next' = [next EXCEPT ![n] = NULL]

-----------------------------------------------------------------------------
(* Slips the properties of AoqQueueList must catch.  No action of the code *)
(* uses them.                                                              *)

BugPushLastNoModulo(n, a) ==
  /\ NewQnode(n, a)
  /\ total \in 1..AoqMaxSize
  /\ uniqid' = [uniqid EXCEPT ![n] = uniqid[tail] + 1]
  /\ next' = [next EXCEPT ![n] = NULL, ![tail] = n]
  /\ tail' = n
  /\ total' = total + 1
  /\ out' = Result(1, NULL)
  /\ UNCHANGED <<exists, deleting, head>>

(* Numbers the node by the size of the queue.                              *)
BugPushLastCounts(n, a) ==
  /\ NewQnode(n, a)
  /\ total \in 1..AoqMaxSize
  /\ uniqid' = [uniqid EXCEPT ![n] = (total + 1) % AoqMaxSize]
  /\ next' = [next EXCEPT ![n] = NULL, ![tail] = n]
  /\ tail' = n
  /\ total' = total + 1
  /\ out' = Result(1, NULL)
  /\ UNCHANGED <<exists, deleting, head>>

(* Moves the tail without linking the new node behind the old one.  (Later *)
(* the tail may be NULL, and the server would end here.)                   *)
BugPushLastUnlinked(n, a) ==
  /\ NewQnode(n, a)
  /\ total \in 1..AoqMaxSize
  /\ tail # NULL
  /\ uniqid' = [uniqid EXCEPT ![n] = (uniqid[tail] + 1) % AoqMaxSize]
  /\ next' = [next EXCEPT ![n] = NULL]
  /\ tail' = n
  /\ total' = total + 1
  /\ out' = Result(1, NULL)
  /\ UNCHANGED <<exists, deleting, head>>

(* Forgets the tail when it takes the last node.                           *)
BugPopHeadKeepsTail ==
  /\ Ready
  /\ total # 0
  /\ head # NULL
  /\ head' = next[head]
  /\ total' = total - 1
  /\ Free(head)
  /\ out' = Result(1, arg[head])
  /\ UNCHANGED <<tail, exists, deleting>>

(* Frees only a node with another one behind it.                           *)
BugPopHeadLeaks ==
  /\ Ready
  /\ total # 0
  /\ head # NULL
  /\ IF next[head] = NULL
       THEN head' = NULL /\ tail' = NULL /\ UNCHANGED <<node, live>>
       ELSE head' = next[head] /\ Free(head) /\ UNCHANGED tail
  /\ total' = total - 1
  /\ out' = Result(1, arg[head])
  /\ UNCHANGED <<exists, deleting>>

(* The loop of deleteQueue tests its condition only after its body.        *)
BugDeleteEmptyLoops ==
  /\ deleting
  /\ head = NULL
  /\ UNCHANGED <<node, live, aoq, deleting, out>>

-----------------------------------------------------------------------------
(* createQueue, the first time a name is pushed to or popped from.         *)
CreateQueue ==
  /\ ~exists
  /\ exists' = TRUE
  /\ total' = 0
  /\ head' = NULL
  /\ tail' = NULL
  /\ UNCHANGED <<node, live, deleting, out>>

(* pushQueue, the queue is empty.                                          *)
PushFirst(n, a) ==
  /\ NewQnode(n, a)
  /\ total = 0
  /\ uniqid' = [uniqid EXCEPT ![n] = 1]
  /\ next' = [next EXCEPT ![n] = NULL]
  /\ head' = n
  /\ tail' = n
  /\ total' = total + 1
  /\ out' = Result(1, NULL)
  /\ UNCHANGED <<exists, deleting>>

(* pushQueue, over the limit: push() ignores the -1, and the new node is   *)
(* neither queued nor freed.                                               *)
PushRefused(n, a) ==
  /\ NewQnode(n, a)
  /\ total # 0
  /\ total > AoqMaxSize
  /\ uniqid' = [uniqid EXCEPT ![n] = 0]
  /\ next' = [next EXCEPT ![n] = NULL]
  /\ out' = Result(-1, NULL)
  /\ UNCHANGED <<aoq, deleting>>

(* pushQueue, behind the tail.                                             *)
PushLast(n, a) ==
  /\ NewQnode(n, a)
  /\ total # 0
  /\ total <= AoqMaxSize
  /\ uniqid' = [uniqid EXCEPT ![n] = (uniqid[tail] + 1) % AoqMaxSize]
  /\ next' = [next EXCEPT ![n] = NULL, ![tail] = n]
  /\ tail' = n
  /\ total' = total + 1
  /\ out' = Result(1, NULL)
  /\ UNCHANGED <<exists, deleting, head>>

(* popQueue on an empty queue.  The statements at aoq.c:54 and 55 compare  *)
(* where they mean to assign, and change nothing.                          *)
PopEmpty ==
  /\ Ready
  /\ total = 0 \/ head = NULL
  /\ out' = Result(-1, NULL)
  /\ UNCHANGED <<node, live, aoq, deleting>>

(* popQueue, with the free of the node that pop() ends with.               *)
PopHead ==
  /\ Ready
  /\ total # 0
  /\ head # NULL
  /\ IF next[head] = NULL
       THEN head' = NULL /\ tail' = NULL
       ELSE head' = next[head] /\ UNCHANGED tail
  /\ total' = total - 1
  /\ Free(head)
  /\ out' = Result(1, arg[head])
  /\ UNCHANGED <<exists, deleting>>

-----------------------------------------------------------------------------
(* deleteQueue: free the nodes one after the other, then the structure.    *)
DeleteQueue ==
  /\ Ready
  /\ deleting' = TRUE
  /\ UNCHANGED <<node, live, aoq, out>>

FreeAoq ==
  /\ exists' = FALSE
  /\ deleting' = FALSE
  /\ total' = 0
  /\ head' = NULL
  /\ tail' = NULL

DeleteNode ==
  /\ deleting
  /\ head # NULL
  /\ next[head] # NULL
  /\ head' = next[head]
  /\ Free(head)
  /\ UNCHANGED <<exists, deleting, total, tail, out>>

(* The last node leaves the loop by its break, the pointer still set.      *)
DeleteLast ==
  /\ deleting
  /\ head # NULL
  /\ next[head] = NULL
  /\ Free(head)
  /\ FreeAoq
  /\ UNCHANGED out

DeleteEmpty ==
  /\ deleting
  /\ head = NULL
  /\ FreeAoq
  /\ UNCHANGED <<node, live, out>>

=============================================================================

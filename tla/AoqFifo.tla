------------------------------ MODULE AoqFifo ------------------------------
(***************************************************************************)
(* What one named queue promises to the rest of the server, without its    *)
(* linked list: a first-in first-out sequence of numbered items, and the   *)
(* value each call hands back to its caller.  AoqQueueList shows that the  *)
(* pointer structure of aoq.c implements this module.                      *)
(***************************************************************************)
EXTENDS Integers, Sequences

CONSTANTS
  Arg,         \* what a queue node carries (the Arg array of a push)
  AoqMaxSize,  \* Serv->aoq_max_size, the -q option
  NULL

VARIABLES
  exists,      \* the queue has been created and not deleted
  items,       \* the queued items, oldest first
  out          \* return code of the last call, and the item a pop yields

vars == <<exists, items, out>>

Item == [id : Nat, arg : Arg]

Result(code, a) == [code |-> code, arg |-> a]

Init ==
  /\ exists = FALSE
  /\ items = <<>>
  /\ out = Result(0, NULL)

Create ==
  /\ ~exists
  /\ exists' = TRUE
  /\ items' = <<>>
  /\ UNCHANGED out

(* The first item of an empty queue is number 1; every other one follows   *)
(* the item before it, modulo the limit.                                   *)
NextId == IF items = <<>> THEN 1 ELSE (items[Len(items)].id + 1) % AoqMaxSize

(* The limit is compared with the size before the push, so a queue takes   *)
(* one item more than the limit.                                           *)
Push(a) ==
  /\ exists
  /\ Len(items) <= AoqMaxSize
  /\ items' = Append(items, [id |-> NextId, arg |-> a])
  /\ out' = Result(1, NULL)
  /\ UNCHANGED exists

Refuse ==
  /\ exists
  /\ Len(items) > AoqMaxSize
  /\ out' = Result(-1, NULL)
  /\ UNCHANGED <<exists, items>>

Pop ==
  /\ exists
  /\ items # <<>>
  /\ items' = Tail(items)
  /\ out' = Result(1, Head(items).arg)
  /\ UNCHANGED exists

PopNothing ==
  /\ exists
  /\ items = <<>>
  /\ out' = Result(-1, NULL)
  /\ UNCHANGED <<exists, items>>

(* Everything still queued goes with the queue.                            *)
Delete ==
  /\ exists
  /\ exists' = FALSE
  /\ items' = <<>>
  /\ UNCHANGED out

Next ==
  \/ Create
  \/ \E a \in Arg : Push(a)
  \/ Refuse
  \/ Pop
  \/ PopNothing
  \/ Delete

Spec == Init /\ [][Next]_vars

=============================================================================

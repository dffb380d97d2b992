----------------------------- MODULE AoqService -----------------------------
(***************************************************************************)
(* What the commands promise a client: queues with names, each a first-in  *)
(* first-out sequence, and one answer per request.  There is no hash table *)
(* here, no memory and no crash.  AoqCommand shows that the handlers of    *)
(* command.c over the hash table of hashtable.c implement this module for  *)
(* as long as that table can be relied on, which is what sound stands for. *)
(***************************************************************************)
EXTENDS Integers, Sequences, FiniteSets

CONSTANTS
  Key,         \* queue names
  Value,       \* what a push carries
  Fd,          \* where requests come from: 0 is the log, during recovery
  AoqMaxSize,  \* Serv->aoq_max_size, the -q option
  NULL

VARIABLES
  store,       \* the items of each queue, oldest first; NULL for no queue
  exchange,    \* the last request and what was written for it, if anything
  sound        \* the promise still stands

vars == <<store, exchange, sound>>

Items(s, k) == IF s[k] = NULL THEN <<>> ELSE s[k]

Init ==
  /\ store = [k \in Key |-> NULL]
  /\ exchange = [fd |-> 0, cmd |-> "none", args |-> <<>>, out |-> <<>>]
  /\ sound = TRUE

Exchange(fd, cmd, args, out) ==
  exchange' = [fd |-> fd, cmd |-> cmd, args |-> args, out |-> out]

(* A request is answered where it came from, one read from the log is not. *)
Answer(fd, cmd, args, body) ==
  Exchange(fd, cmd, args, IF fd = 0 THEN <<>> ELSE <<body>>)

(* The number a new item carries.                                          *)
NextId(items) ==
  IF items = <<>> THEN 1 ELSE (items[Len(items)].id + 1) % AoqMaxSize

(* A push over the limit answers like any other and drops the item.        *)
Push(fd, k, v) ==
  /\ LET items == Items(store, k) IN
       store' = [store EXCEPT ![k] =
         IF Len(items) > AoqMaxSize THEN items
         ELSE Append(items, [id |-> NextId(items), value |-> v])]
  /\ Answer(fd, "push", <<k, v>>, 1)

(* A pop of a name without a queue makes it one.                           *)
PopEmpty(fd, k) ==
  /\ Items(store, k) = <<>>
  /\ store' = [store EXCEPT ![k] = <<>>]
  /\ Answer(fd, "pop", <<k>>, NULL)

Pop(fd, k) ==
  /\ Items(store, k) # <<>>
  /\ store' = [store EXCEPT ![k] = Tail(@)]
  /\ Answer(fd, "pop", <<k>>, Head(store[k]).value)

Describe(items) ==
  IF items = <<>> THEN [total |-> 0, head |-> 0, tail |-> 0]
  ELSE [total |-> Len(items), head |-> Head(items).id, tail |-> items[Len(items)].id]

Query(fd, k) ==
  /\ Answer(fd, "queue", <<k>>, IF store[k] = NULL THEN NULL ELSE Describe(store[k]))
  /\ UNCHANGED store

Names == {k \in Key : store[k] # NULL}

Queues(fd) == Answer(fd, "queues", <<>>, Names) /\ UNCHANGED store

Status(fd) == Answer(fd, "status", <<>>, Cardinality(Names)) /\ UNCHANGED store

(* Unlike the other commands, delqueue answers a request from the log too. *)
DelQueue(fd, k) ==
  /\ Exchange(fd, "delqueue", <<k>>, IF store[k] = NULL THEN <<0>> ELSE <<1>>)
  /\ store' = [store EXCEPT ![k] = NULL]

(* A request without a usable name changes nothing; one whose head cannot  *)
(* be read is not even answered.                                           *)
Refuse(fd) ==
  /\ \/ Answer(fd, "push", <<>>, 0)
     \/ Answer(fd, "pop", <<>>, NULL)
     \/ Answer(fd, "queue", <<>>, NULL)
     \/ Exchange(fd, "delqueue", <<>>, <<0>>)
  /\ UNCHANGED store

Ignore(fd) == Exchange(fd, "none", <<>>, <<>>) /\ UNCHANGED store

Serve ==
  \E fd \in Fd :
    \/ Queues(fd) \/ Status(fd) \/ Refuse(fd) \/ Ignore(fd)
    \/ \E k \in Key :
         \/ \E v \in Value : Push(fd, k, v)
         \/ PopEmpty(fd, k) \/ Pop(fd, k) \/ Query(fd, k) \/ DelQueue(fd, k)

Next == ~sound' \/ (Serve /\ UNCHANGED sound)

Spec == Init /\ [][Next]_vars
=============================================================================

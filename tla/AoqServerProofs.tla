--------------------------- MODULE AoqServerProofs ---------------------------
(***************************************************************************)
(* Proofs about AoqServer for any number of clients, any limit of -l and   *)
(* any number of descriptors.                                              *)
(***************************************************************************)
EXTENDS AoqServer, FiniteSetTheorems, TLAPS

(* What keeps the counts exact until they are spoilt: nobody is ignored.   *)
Undisturbed == ~spoilt => leaked = 0 /\ In("ignored") = {}

(* The process ends only when there is no descriptor left.                 *)
DiesFull == Dead => Fds >= maxFds

Inv == TypeOK /\ CountAccounts /\ Undisturbed /\ ExactUnlessSpoilt /\ DiesFull

(* The clients in one state are finitely many.                             *)
LEMMA InIsFinite ==
  ASSUME NEW state
  PROVE  IsFiniteSet(In(state)) /\ Cardinality(In(state)) \in Nat
<1>1. In(state) \in SUBSET Client  BY DEF In
<1>2. IsFiniteSet(In(state))  BY <1>1, ClientsAreFinite, FS_Subset
<1> QED  BY <1>2, FS_CardinalityType

(* A client that was not served and now is makes one more.                 *)
LEMMA OneMore ==
  ASSUME TypeOK, NEW c \in Client, link[c] # "served",
         link' = [link EXCEPT ![c] = "served"]
  PROVE  Cardinality(In("served"))' = Cardinality(In("served")) + 1
<1>1. In("served")' = In("served") \cup {c}  BY DEF In, TypeOK
<1>2. c \notin In("served")  BY DEF In
<1> QED  BY <1>1, <1>2, InIsFinite, FS_AddElement

(* A served client that becomes something else makes one less.             *)
LEMMA OneLess ==
  ASSUME TypeOK, NEW c \in Client, link[c] = "served", NEW s, s # "served",
         link' = [link EXCEPT ![c] = s]
  PROVE  Cardinality(In("served"))' = Cardinality(In("served")) - 1
<1>1. In("served")' = In("served") \ {c}  BY DEF In, TypeOK
<1>2. c \in In("served")  BY DEF In
<1> QED  BY <1>1, <1>2, InIsFinite, FS_RemoveElement

(* The others do not change who is served.                                 *)
LEMMA SameServed ==
  ASSUME TypeOK, NEW c \in Client, link[c] # "served", NEW s, s # "served",
         link' = [link EXCEPT ![c] = s]
  PROVE  In("served")' = In("served")
BY DEF In, TypeOK

(* Inv holds at the start.                                                 *)
LEMMA InitInv == Init => Inv
<1> SUFFICES ASSUME Init PROVE Inv  OBVIOUS
<1>1. TypeOK  BY DEF Init, TypeOK
<1>2. In("served") = {} /\ In("ignored") = {}  BY DEF Init, In
<1>3. Cardinality(In("served")) = 0  BY <1>2, FS_EmptySet
<1>4. CountAccounts  BY <1>3, LimitsAssumption DEF Init, CountAccounts
<1>5. Undisturbed /\ ExactUnlessSpoilt  BY <1>2 DEF Init, Undisturbed, ExactUnlessSpoilt
<1>6. DiesFull  BY DEF Init, DiesFull, Dead
<1> QED  BY <1>1, <1>4, <1>5, <1>6 DEF Inv

(* Every step preserves the types.                                         *)
LEMMA TypePreserved == TypeOK /\ CountAccounts /\ [Next]_vars => TypeOK'
<1> SUFFICES ASSUME TypeOK, CountAccounts, [Next]_vars PROVE TypeOK'  OBVIOUS
<1> USE DEF TypeOK
<1>1. ASSUME NEW c \in Client, Connect(c) PROVE TypeOK'
  BY <1>1 DEF Connect, counts, memory
<1>2. ASSUME NEW c \in Client, Send(c) PROVE TypeOK'
  BY <1>2 DEF Send, counts, memory
<1>3. ASSUME NEW c \in Client, Leave(c) PROVE TypeOK'
  BY <1>3 DEF Leave, counts, memory
<1>4. ASSUME NEW c \in Client, LeaveIgnored(c) PROVE TypeOK'
  BY <1>4 DEF LeaveIgnored, memory
<1>5. ASSUME NEW c \in Client, Accept(c) PROVE TypeOK'
  <2>1. CASE conn < MaxClients
    BY <1>5, <2>1 DEF Accept, memory
  <2>2. CASE ~(conn < MaxClients)
    BY <1>5, <2>2 DEF Accept, memory
  <2> QED  BY <2>1, <2>2
<1>6. ASSUME NEW c \in Client, AcceptDrops(c) PROVE TypeOK'
  BY <1>6 DEF AcceptDrops, memory
<1>7. ASSUME NEW c \in Client, pc = <<"loop">> \/ pc = <<"read", c>>,
             link[c] = "served", Read(c) PROVE TypeOK'
  <2>1. CASE sent[c] = "whole" /\ Execute(c)
    BY <1>7, <2>1 DEF Read, Execute, memory
  <2>2. CASE sent[c] # "whole" /\ gone[c] /\ Disconnect(c)
    <3>1. c \in In("served")  BY <1>7 DEF In
    <3>2. Cardinality(In("served")) # 0  BY <3>1, InIsFinite, FS_EmptySet
    <3>3. conn - 1 \in Nat  BY <3>2, InIsFinite DEF CountAccounts
    <3> QED  BY <1>7, <2>2, <3>3 DEF Read, Disconnect, memory
  <2>3. CASE pc' = <<"read", c>> /\ UNCHANGED <<clients, conn>>
    BY <1>7, <2>3 DEF Read, clients, memory
  <2> QED  BY <1>7, <2>1, <2>2, <2>3 DEF Read
<1>8. ASSUME NEW c \in Client, Write(c) \/ WriteFails(c) \/ Overflow(c) PROVE TypeOK'
  <2>1. CASE Write(c)  BY <2>1 DEF Write, counts, memory
  <2>2. CASE WriteFails(c)  BY <2>2 DEF WriteFails, clients, counts, memory
  <2>3. CASE Overflow(c)  BY <2>3 DEF Overflow, clients, counts, memory
  <2> QED  BY <1>8, <2>1, <2>2, <2>3
<1>9. CASE AcceptFails
  BY <1>9 DEF AcceptFails, clients, memory
<1>10. CASE CloseListener
  BY <1>10 DEF CloseListener, counts
<1>11. CASE MemCheck
  BY <1>11 DEF MemCheck, clients, counts
<1>12. CASE UNCHANGED vars
  BY <1>12 DEF vars, clients, counts, memory
<1>13. \A c \in Client : Ready(c) \/ ReadMore(c) => TypeOK'
  BY <1>7 DEF Ready, ReadMore
<1> QED
  BY <1>1, <1>2, <1>3, <1>4, <1>5, <1>6, <1>8, <1>9, <1>10, <1>11, <1>12, <1>13 DEF Next

(* No step changes how many descriptors there are.                         *)
LEMMA LimitStays == [Next]_vars => maxFds' = maxFds
BY DEF Next, vars, memory, Connect, Send, Leave, LeaveIgnored, Accept, AcceptDrops,
       Ready, ReadMore, Read, Write, WriteFails, Overflow, AcceptFails, CloseListener, MemCheck

(* Every step preserves the counts.  Only those change that accept a       *)
(* client, fail to, or see one off.                                        *)
LEMMA CountsPreserved == Inv /\ TypeOK' /\ [Next]_vars =>
  CountAccounts' /\ Undisturbed' /\ ExactUnlessSpoilt'
<1> SUFFICES ASSUME Inv, TypeOK', [Next]_vars
    PROVE  CountAccounts' /\ Undisturbed' /\ ExactUnlessSpoilt'
  OBVIOUS
<1> USE DEF Inv
<1>0. MaxClients \in Nat /\ conn \in Nat /\ phantoms \in Nat /\ leaked \in Nat
      /\ spoilt \in BOOLEAN
  BY LimitsAssumption DEF TypeOK
<1>a. Cardinality(In("served")) \in Nat /\ Cardinality(In("ignored")) \in Nat
  BY InIsFinite
<1>b. conn = Cardinality(In("served")) + phantoms /\ conn <= MaxClients
  BY DEF CountAccounts
<1>c. maxFds' = maxFds /\ maxFds \in Nat
  BY LimitStays, LimitsAssumption DEF TypeOK
<1>1. ASSUME link' = link, UNCHANGED counts
      PROVE  CountAccounts' /\ Undisturbed' /\ ExactUnlessSpoilt'
  <2>1. In("served")' = In("served") /\ In("ignored")' = In("ignored")
    BY <1>1 DEF In
  <2>2. CountAccounts'  BY <1>1, <1>b, <2>1 DEF CountAccounts, counts
  <2> QED  BY <1>c, <1>1, <2>1, <2>2 DEF counts, Undisturbed, ExactUnlessSpoilt
<1>2. ASSUME NEW c \in Client, Connect(c)
      PROVE  CountAccounts' /\ Undisturbed' /\ ExactUnlessSpoilt'
  <2>1. In("served")' = In("served")
    BY <1>2, SameServed DEF Connect
  <2>2. In("ignored")' = In("ignored")
    BY <1>2 DEF Connect, In, TypeOK
  <2>3. CountAccounts'  BY <1>2, <1>b, <2>1 DEF Connect, CountAccounts, counts
  <2> QED  BY <1>c, <1>2, <2>2, <2>3 DEF Connect, counts, Undisturbed, ExactUnlessSpoilt
<1>3. ASSUME NEW c \in Client, LeaveIgnored(c)
      PROVE  CountAccounts' /\ Undisturbed' /\ ExactUnlessSpoilt'
  <2>1. In("served")' = In("served")
    BY <1>3, SameServed DEF LeaveIgnored
  <2>2. spoilt
    BY <1>3 DEF LeaveIgnored, In, Undisturbed
  <2>3. CountAccounts'  BY <1>3, <1>b, <2>1 DEF LeaveIgnored, CountAccounts
  <2> QED  BY <1>c, <1>3, <2>2, <2>3 DEF LeaveIgnored, Undisturbed, ExactUnlessSpoilt
<1>4. ASSUME NEW c \in Client, Accept(c)
      PROVE  CountAccounts' /\ Undisturbed' /\ ExactUnlessSpoilt'
  <2>1. CASE conn < MaxClients
    <3>1. Cardinality(In("served"))' = Cardinality(In("served")) + 1
      BY <1>4, <2>1, OneMore DEF Accept
    <3>2. conn' = conn + 1 /\ UNCHANGED <<leaked, phantoms, spoilt>>
      BY <1>4, <2>1 DEF Accept
    <3>3. CountAccounts'  BY <1>0, <1>a, <1>b, <2>1, <3>1, <3>2 DEF CountAccounts
    <3>4. In("ignored")' = In("ignored")
      BY <1>4, <2>1 DEF Accept, In, TypeOK
    <3> QED  BY <1>c, <3>2, <3>3, <3>4 DEF Undisturbed, ExactUnlessSpoilt
  <2>2. CASE ~(conn < MaxClients)
    <3>1. In("served")' = In("served")
      BY <1>4, <2>2, SameServed DEF Accept
    <3>2. spoilt' /\ UNCHANGED <<conn, phantoms>>
      BY <1>4, <2>2 DEF Accept
    <3>3. CountAccounts'  BY <1>b, <3>1, <3>2 DEF CountAccounts
    <3> QED  BY <1>c, <3>2, <3>3 DEF Undisturbed, ExactUnlessSpoilt
  <2> QED  BY <2>1, <2>2
<1>5. ASSUME NEW c \in Client, AcceptDrops(c)
      PROVE  CountAccounts' /\ Undisturbed' /\ ExactUnlessSpoilt'
  <2>1. In("served")' = In("served")
    BY <1>5, SameServed DEF AcceptDrops
  <2>2. spoilt'  BY <1>5 DEF AcceptDrops
  <2>3. \/ conn < MaxClients /\ conn' = conn + 1 /\ phantoms' = phantoms + 1
        \/ UNCHANGED <<conn, phantoms>>
    BY <1>5 DEF AcceptDrops
  <2>4. CountAccounts'  BY <1>0, <1>a, <1>b, <2>1, <2>3 DEF CountAccounts
  <2> QED  BY <1>c, <2>2, <2>4 DEF Undisturbed, ExactUnlessSpoilt
<1>6. ASSUME NEW c \in Client, link[c] = "served", Read(c)
      PROVE  CountAccounts' /\ Undisturbed' /\ ExactUnlessSpoilt'
  <2>1. CASE Execute(c)
    BY <1>1, <1>6, <2>1 DEF Read, Execute, counts
  <2>2. CASE Disconnect(c)
    <3>1. Cardinality(In("served"))' = Cardinality(In("served")) - 1
      BY <1>6, <2>2, OneLess DEF Disconnect
    <3>2. conn' = conn - 1 /\ UNCHANGED <<leaked, phantoms, spoilt>>
      BY <1>6, <2>2 DEF Read, Disconnect
    <3>3. CountAccounts'  BY <1>0, <1>a, <1>b, <3>1, <3>2 DEF CountAccounts
    <3>4. In("ignored")' = In("ignored")
      BY <1>6, <2>2 DEF Disconnect, In, TypeOK
    <3> QED  BY <1>c, <3>2, <3>3, <3>4 DEF Undisturbed, ExactUnlessSpoilt
  <2>3. CASE UNCHANGED <<clients, conn>>
    BY <1>1, <1>6, <2>3 DEF Read, clients, counts
  <2> QED  BY <1>6, <2>1, <2>2, <2>3 DEF Read
<1>7. CASE AcceptFails
  <2>1. CASE conn >= MaxClients
    BY <1>0, <1>1, <1>7, <2>1 DEF AcceptFails, clients, counts
  <2>2. CASE conn < MaxClients
    <3>1. In("served")' = In("served") /\ In("ignored")' = In("ignored")
      BY <1>7 DEF AcceptFails, clients, In
    <3>2. conn' = conn + 1 /\ phantoms' = phantoms + 1
          /\ UNCHANGED <<leaked, spoilt>> /\ Fds >= maxFds
      BY <1>7, <2>2 DEF AcceptFails
    <3>3. CountAccounts'  BY <1>0, <1>a, <1>b, <2>2, <3>1, <3>2 DEF CountAccounts
    <3>4. ~spoilt /\ MaxClients <= maxFds => FALSE
      <4> SUFFICES ASSUME ~spoilt, MaxClients <= maxFds PROVE FALSE  OBVIOUS
      <4>1. leaked = 0 /\ Cardinality(In("ignored")) = 0
        BY FS_EmptySet DEF Undisturbed
      <4>2. Fds = Cardinality(In("served"))  BY <1>a, <4>1 DEF Fds
      <4>3. Cardinality(In("served")) <= conn  BY <1>0, <1>a, <1>b
      <4> QED  BY <1>0, <1>a, <1>c, <2>2, <3>2, <4>2, <4>3, LimitsAssumption
    <3> QED  BY <1>c, <3>1, <3>2, <3>3, <3>4 DEF Undisturbed, ExactUnlessSpoilt
  <2> QED  BY <1>0, <2>1, <2>2
<1>8. CASE CloseListener
  <2>1. In("served")' = In("served") /\ In("ignored")' = In("ignored")
    BY <1>8 DEF CloseListener, In, TypeOK
  <2>2. CountAccounts'  BY <1>8, <1>b, <2>1 DEF CloseListener, CountAccounts, counts
  <2> QED  BY <1>c, <1>8, <2>1, <2>2 DEF CloseListener, counts, Undisturbed, ExactUnlessSpoilt
<1>9. \A c \in Client : Send(c) \/ Leave(c) \/ Write(c) \/ WriteFails(c) \/ Overflow(c)
                         => link' = link /\ UNCHANGED counts
  BY DEF Send, Leave, Write, WriteFails, Overflow, clients
<1>10. MemCheck \/ UNCHANGED vars => link' = link /\ UNCHANGED counts
  BY DEF MemCheck, vars, clients
<1>11. \A c \in Client : Ready(c) \/ ReadMore(c) =>
         CountAccounts' /\ Undisturbed' /\ ExactUnlessSpoilt'
  <2> SUFFICES ASSUME NEW c \in Client, Ready(c) \/ ReadMore(c)
      PROVE  link[c] = "served" /\ Read(c)
    BY <1>6
  <2> QED  BY DEF Ready, ReadMore, TypeOK
<1> QED
  BY <1>1, <1>2, <1>3, <1>4, <1>5, <1>7, <1>8, <1>9, <1>10, <1>11 DEF Next

(* A step that ends the process leaves it without a descriptor, and none   *)
(* follows it.                                                             *)
LEMMA DeathPreserved == Inv /\ TypeOK' /\ [Next]_vars => DiesFull'
<1> SUFFICES ASSUME Inv, TypeOK', [Next]_vars, Dead' PROVE Fds' >= maxFds'
  BY DEF DiesFull
<1>0. /\ TypeOK /\ maxFds \in Nat /\ leaked \in Nat
      /\ Cardinality(In("served")) \in Nat /\ Cardinality(In("ignored")) \in Nat
  BY LimitsAssumption, InIsFinite DEF Inv, TypeOK
<1>1. maxFds' = maxFds  BY LimitStays
<1>2. ASSUME link' = link, leaked' = leaked, Dead \/ Exhausted PROVE Fds' >= maxFds'
  <2>1. Fds' = Fds  BY <1>2 DEF Fds, In
  <2>2. Fds >= maxFds  BY <1>2 DEF Exhausted, Inv, DiesFull
  <2> QED  BY <1>1, <2>1, <2>2
<1>3. ASSUME NEW c \in Client, Accept(c) PROVE Fds' >= maxFds'
  <2>1. /\ conn >= MaxClients /\ Fds + 1 >= maxFds /\ leaked' = leaked
        /\ link[c] = "queued" /\ link' = [link EXCEPT ![c] = "ignored"]
    <3>1. Fds \in Nat  BY <1>0 DEF Fds
    <3> QED  BY <1>0, <1>3, <3>1, LimitsAssumption DEF Accept, Dead, TypeOK
  <2>2. In("served")' = In("served")  BY <1>0, <2>1, SameServed
  <2>3. In("ignored")' = In("ignored") \cup {c} /\ c \notin In("ignored")
    BY <1>0, <2>1 DEF In, TypeOK
  <2>4. Cardinality(In("ignored"))' = Cardinality(In("ignored")) + 1
    BY <2>3, InIsFinite, FS_AddElement
  <2> QED  BY <1>0, <1>1, <2>1, <2>2, <2>4 DEF Fds
<1>4. ASSUME NEW c \in Client, link[c] = "served", Read(c), ~Dead PROVE Fds' >= maxFds'
  <2>1. Exhausted /\ link' = link /\ leaked' = leaked
    BY <1>4 DEF Read, Execute, Disconnect, Dead
  <2> QED  BY <1>2, <2>1
<1>5. CASE AcceptFails
  <2>1. link' = link /\ leaked' = leaked /\ Exhausted  BY <1>5 DEF AcceptFails, clients, Exhausted
  <2> QED  BY <1>2, <2>1
<1>6. CASE MemCheck
  <2>1. link' = link /\ leaked' = leaked  BY <1>6 DEF MemCheck, clients, counts
  <2>2. Exhausted  BY <1>6 DEF MemCheck, Dead
  <2> QED  BY <1>2, <2>1, <2>2
<1>7. CASE UNCHANGED vars
  BY <1>2, <1>7 DEF vars, clients, counts, Dead
<1>8. ASSUME NEW c \in Client PROVE ~(Connect(c) \/ Send(c) \/ Leave(c) \/ LeaveIgnored(c))
  BY DEF Connect, Send, Leave, LeaveIgnored, Dead
<1>9. ASSUME NEW c \in Client
      PROVE  ~(AcceptDrops(c) \/ Write(c) \/ WriteFails(c) \/ Overflow(c))
  BY DEF AcceptDrops, Write, WriteFails, Overflow, Dead
<1>10. ~CloseListener  BY DEF CloseListener, Dead
<1>11. ASSUME NEW c \in Client, Ready(c) \/ ReadMore(c) PROVE Fds' >= maxFds'
  <2>1. link[c] = "served" /\ Read(c) /\ ~Dead
    BY <1>0, <1>11 DEF Ready, ReadMore, Dead, TypeOK
  <2> QED  BY <1>4, <2>1
<1> QED
  BY <1>3, <1>5, <1>6, <1>7, <1>8, <1>9, <1>10, <1>11 DEF Next

-----------------------------------------------------------------------------
(* The inductive invariant of AoqServer.                                   *)
THEOREM ServerInvariant == Spec => []Inv
<1>1. Inv /\ [Next]_vars => Inv'
  <2> SUFFICES ASSUME Inv, [Next]_vars PROVE Inv'  OBVIOUS
  <2>1. TypeOK'  BY TypePreserved DEF Inv
  <2>2. CountAccounts' /\ Undisturbed' /\ ExactUnlessSpoilt'  BY <2>1, CountsPreserved
  <2>3. DiesFull'  BY <2>1, DeathPreserved
  <2> QED  BY <2>1, <2>2, <2>3 DEF Inv
<1> QED  BY <1>1, InitInv, PTL DEF Spec

(* Only served clients are read from or written to, in every reachable     *)
(* state of accept_cb, socket_read_cb, read_cmd and write_reply.           *)
THEOREM TypeCorrect == Spec => []TypeOK
<1>1. Inv => TypeOK  BY DEF Inv
<1> QED  BY <1>1, ServerInvariant, PTL

(* Serv->client_connection is the number of clients served and of failed   *)
(* accepts, and never over the limit of -l.                                *)
THEOREM CountIsKept == Spec => []CountAccounts
<1>1. Inv => CountAccounts  BY DEF Inv
<1> QED  BY <1>1, ServerInvariant, PTL

(* While no client comes over the limit and accept does not misread its    *)
(* length, accept_cb counts no failure and loses no descriptor.            *)
THEOREM CountIsExact == Spec => []ExactUnlessSpoilt
<1>1. Inv => ExactUnlessSpoilt  BY DEF Inv
<1> QED  BY <1>1, ServerInvariant, PTL

(* accept_cb, event_memcheck_cb and the command status end the server by   *)
(* opening a file without a descriptor only when clients over the limit    *)
(* of -l have cost it all that it has beyond that limit.                   *)
THEOREM EndsOnlyOfLeaks == Spec => []DiesOnlyOfLeaks
<1>1. Inv => DiesOnlyOfLeaks
  <2> SUFFICES ASSUME Inv, Dead
      PROVE  Cardinality(In("ignored")) + leaked >= maxFds - MaxClients
    BY DEF DiesOnlyOfLeaks
  <2>1. /\ MaxClients \in Nat /\ maxFds \in Nat /\ leaked \in Nat /\ phantoms \in Nat
        /\ Cardinality(In("served")) \in Nat /\ Cardinality(In("ignored")) \in Nat
    BY LimitsAssumption, InIsFinite DEF Inv, TypeOK
  <2>2. Cardinality(In("served")) + phantoms <= MaxClients
    BY DEF Inv, CountAccounts
  <2>3. Cardinality(In("served")) + Cardinality(In("ignored")) + leaked >= maxFds
    BY DEF Inv, DiesFull, Fds
  <2> QED  BY <2>1, <2>2, <2>3
<1> QED  BY <1>1, ServerInvariant, PTL
=============================================================================

------------------------------ MODULE AoqServer ------------------------------
(***************************************************************************)
(* The event loop of aoq-server.c: connections and their limit, reading a  *)
(* request and writing its answer on sockets that may be slow or dead, and *)
(* the memory check.                                                       *)
(*                                                                         *)
(* A callback runs until it returns to the loop; pc is where the one       *)
(* thread is.  Of a request only matters whether none, a part or the whole *)
(* of it has arrived.  Clients come, send, leave and come again as they    *)
(* like.  A descriptor is free or not; their limit is the process's, and   *)
(* nothing makes it as large as the limit of clients.  Files are opened    *)
(* without a look at the result, so that a message for the server log, or  *)
(* a question for the memory in use, ends the process when there is none.  *)
(***************************************************************************)
EXTENDS Integers, FiniteSets

CONSTANTS
  Client,
  MaxClients,  \* Serv->max_client_connection, the -l option
  FdLimits     \* how many descriptors there may be for clients

ASSUME LimitsAssumption == MaxClients \in Nat \ {0} /\ FdLimits \subseteq Nat \ {0}
ASSUME ClientsAreFinite == IsFiniteSet(Client)

VARIABLES
  maxFds,      \* RLIMIT_NOFILE, less what the server itself has open
  pc,          \* "loop", or the callback that has not returned and its client
  link,        \* state of each connection
  sent,        \* what of its next request has reached the server
  gone,        \* the client has closed its end
  broken,      \* and the connection has been reset
  conn,        \* Serv->client_connection
  status,      \* Serv->status: 1, or -1 over the memory limit
  listening,
  leaked,      \* history: descriptors of ignored clients that have left
  phantoms,    \* history: failed accepts that were counted as clients
  spoilt       \* history: a client came over the limit, or accept misread len

clients == <<link, sent, gone, broken>>
counts == <<conn, leaked, phantoms, spoilt>>
memory == <<maxFds, status, listening>>
vars == <<pc, clients, counts, memory>>

In(state) == {c \in Client : link[c] = state}
Fds == Cardinality(In("served")) + Cardinality(In("ignored")) + leaked

Init ==
  /\ maxFds \in FdLimits
  /\ pc = <<"loop">>
  /\ link = [c \in Client |-> "away"]
  /\ sent = [c \in Client |-> "none"]
  /\ gone = [c \in Client |-> FALSE]
  /\ broken = [c \in Client |-> FALSE]
  /\ conn = 0 /\ leaked = 0 /\ phantoms = 0 /\ spoilt = FALSE
  /\ status = 1 /\ listening = TRUE

-----------------------------------------------------------------------------
Dead == pc = <<"dead">>
Hung == pc[1] = "hung"

(* The listener's own descriptor is free once it has been closed.          *)
Exhausted == listening /\ Fds >= maxFds

-----------------------------------------------------------------------------
(* The clients, for whom nothing is left to do when the server is dead.    *)
Connect(c) ==
  /\ link[c] = "away" /\ listening /\ ~Dead
  /\ link' = [link EXCEPT ![c] = "queued"]
  /\ UNCHANGED <<pc, sent, gone, broken, counts, memory>>

(* What was sent, or closed, before the accept is as good as after it.     *)
Send(c) ==
  /\ link[c] = "served" /\ ~gone[c] /\ ~Dead
  /\ \/ sent[c] = "none" /\ sent' = [sent EXCEPT ![c] = "part"]
     \/ sent[c] # "whole" /\ sent' = [sent EXCEPT ![c] = "whole"]
  /\ UNCHANGED <<pc, link, gone, broken, counts, memory>>

(* A client that has an answer unread leaves with a reset, which also      *)
(* throws away what the server has not read.                               *)
Leave(c) ==
  /\ link[c] = "served" /\ ~gone[c] /\ ~Dead
  /\ gone' = [gone EXCEPT ![c] = TRUE]
  /\ \/ UNCHANGED <<sent, broken>>
     \/ /\ broken' = [broken EXCEPT ![c] = TRUE]
        /\ sent' = [sent EXCEPT ![c] = "none"]
  /\ UNCHANGED <<pc, link, counts, memory>>

(* An ignored client has no event: nobody closes its descriptor.           *)
LeaveIgnored(c) ==
  /\ link[c] = "ignored" /\ ~Dead
  /\ link' = [link EXCEPT ![c] = "away"]
  /\ leaked' = leaked + 1
  /\ UNCHANGED <<pc, sent, gone, broken, conn, phantoms, spoilt, memory>>

-----------------------------------------------------------------------------
(* MUTANT: one client more than the limit is admitted.                     *)
BugAccept(c) ==
  /\ pc = <<"loop">> /\ listening /\ status = 1
  /\ link[c] = "queued" /\ Fds < maxFds
  /\ IF conn <= MaxClients
       THEN /\ conn' = conn + 1
            /\ link' = [link EXCEPT ![c] = "served"]
            /\ UNCHANGED <<pc, spoilt>>
       ELSE /\ link' = [link EXCEPT ![c] = "ignored"]
            /\ spoilt' = TRUE
            /\ pc' = IF Fds + 1 < maxFds THEN pc ELSE <<"dead">>
            /\ UNCHANGED conn
  /\ UNCHANGED <<sent, gone, broken, leaked, phantoms, memory>>

(* accept_cb.  The message about a client over the limit needs a           *)
(* descriptor beside the one the client has just been given.               *)
Accept(c) ==
  /\ pc = <<"loop">> /\ listening /\ status = 1
  /\ link[c] = "queued" /\ Fds < maxFds
  /\ IF conn < MaxClients
       THEN /\ conn' = conn + 1
            /\ link' = [link EXCEPT ![c] = "served"]
            /\ UNCHANGED <<pc, spoilt>>
       ELSE /\ link' = [link EXCEPT ![c] = "ignored"]
            /\ spoilt' = TRUE
            /\ pc' = IF Fds + 1 < maxFds THEN pc ELSE <<"dead">>
            /\ UNCHANGED conn
  /\ UNCHANGED <<sent, gone, broken, leaked, phantoms, memory>>

(* accept returns -1 and is counted all the same; the client stays queued, *)
(* so that the loop comes back at once, until the limit is reached and the *)
(* message about it is due.                                                *)
AcceptFails ==
  /\ pc = <<"loop">> /\ listening /\ status = 1
  /\ In("queued") # {} /\ Fds >= maxFds
  /\ IF conn < MaxClients
       THEN conn' = conn + 1 /\ phantoms' = phantoms + 1 /\ UNCHANGED pc
       ELSE pc' = <<"dead">> /\ UNCHANGED <<conn, phantoms>>
  /\ UNCHANGED <<clients, leaked, spoilt, memory>>

(* The length accept is given is not initialized.  If it is negative the   *)
(* connection is taken and closed, and -1 comes back here too.             *)
AcceptDrops(c) ==
  /\ pc = <<"loop">> /\ listening /\ status = 1
  /\ link[c] = "queued" /\ Fds < maxFds
  /\ link' = [link EXCEPT ![c] = "away"]
  /\ IF conn < MaxClients
       THEN conn' = conn + 1 /\ phantoms' = phantoms + 1
       ELSE UNCHANGED <<conn, phantoms>>
  /\ spoilt' = TRUE
  /\ UNCHANGED <<pc, sent, gone, broken, leaked, memory>>

(* MUTANT: the new connection is to be closed, the listener stays.         *)
BugCloseListener ==
  /\ pc = <<"loop">> /\ listening /\ status = -1
  /\ In("queued") # {}
  /\ UNCHANGED vars

(* Over the memory limit a connection makes it close the listening socket, *)
(* which resets all that are queued.                                       *)
CloseListener ==
  /\ pc = <<"loop">> /\ listening /\ status = -1
  /\ In("queued") # {}
  /\ listening' = FALSE
  /\ link' = [c \in Client |-> IF link[c] = "queued" THEN "lost" ELSE link[c]]
  /\ UNCHANGED <<pc, sent, gone, broken, counts, status, maxFds>>

-----------------------------------------------------------------------------
(* MUTANT: a client that leaves in the middle of a request stays counted.  *)
BugDisconnect(c) ==
  /\ link' = [link EXCEPT ![c] = "away"]
  /\ sent' = [sent EXCEPT ![c] = "none"]
  /\ gone' = [gone EXCEPT ![c] = FALSE]
  /\ broken' = [broken EXCEPT ![c] = FALSE]
  /\ conn' = IF sent[c] = "none" THEN conn - 1 ELSE conn
  /\ pc' = <<"loop">>

(* socket_read_cb when read_cmd returns -1.                                *)
Disconnect(c) ==
  /\ link' = [link EXCEPT ![c] = "away"]
  /\ sent' = [sent EXCEPT ![c] = "none"]
  /\ gone' = [gone EXCEPT ![c] = FALSE]
  /\ broken' = [broken EXCEPT ![c] = FALSE]
  /\ conn' = conn - 1
  /\ pc' = <<"loop">>

(* The request is complete: it is executed and the answer is to be written. *)
(* The command status opens a file before it has an answer.                *)
Execute(c) ==
  /\ sent' = [sent EXCEPT ![c] = "none"]
  /\ \/ pc' = <<"write", c>>
     \/ Exhausted /\ pc' = <<"dead">>
  /\ UNCHANGED <<link, gone, broken, conn>>

(* MUTANT: the event of a client that left is freed, its descriptor kept.  *)
BugRead(c) ==
  /\ \/ sent[c] = "whole" /\ Execute(c) /\ UNCHANGED leaked
     \/ sent[c] # "whole" /\ gone[c] /\ Disconnect(c) /\ leaked' = leaked + 1
     \/ /\ sent[c] = "part" /\ ~gone[c] /\ pc = <<"loop">>
        /\ pc' = <<"read", c>>
        /\ UNCHANGED <<clients, conn, leaked>>
  /\ UNCHANGED <<phantoms, spoilt, memory>>

(* read_cmd: with half a request it asks again and again, whatever else    *)
(* there is to do, until the other half or the end of the stream comes.    *)
Read(c) ==
  /\ \/ sent[c] = "whole" /\ Execute(c)
     \/ sent[c] # "whole" /\ gone[c] /\ Disconnect(c)
     \/ /\ sent[c] = "part" /\ ~gone[c] /\ pc = <<"loop">>
        /\ pc' = <<"read", c>>
        /\ UNCHANGED <<clients, conn>>
  /\ UNCHANGED <<leaked, phantoms, spoilt, memory>>

(* MUTANT: what came with the end of the stream is not looked at.          *)
BugReady(c) == pc = <<"loop">> /\ link[c] = "served" /\ ~gone[c] /\ Read(c)

Ready(c) == pc = <<"loop">> /\ link[c] = "served" /\ Read(c)

(* MUTANT: only the rest of the request ends the loop of read_cmd.         *)
BugReadMore(c) ==
  /\ pc = <<"read", c>> /\ ~gone[c]
  /\ Read(c)

ReadMore(c) == pc = <<"read", c>> /\ Read(c)

(* MUTANT: a short write is taken for a failed one.                        *)
BugWrite(c) ==
  /\ pc = <<"write", c>>
  /\ pc' = <<"loop">>
  /\ broken' = [broken EXCEPT ![c] = TRUE]
  /\ UNCHANGED <<link, sent, gone, counts, memory>>

(* write_reply: the first write to a client that has left is answered with *)
(* a reset.  A write that the full socket of a client that does not read   *)
(* refuses is tried again, which changes nothing here.                     *)
Write(c) ==
  /\ pc = <<"write", c>> /\ ~broken[c]
  /\ pc' = <<"loop">>
  /\ broken' = [broken EXCEPT ![c] = gone[c]]
  /\ UNCHANGED <<link, sent, gone, counts, memory>>

(* After a reset every write fails.  So it does, whether the client reads  *)
(* again or not, when the retries, each from a byte further back, have     *)
(* come to where there is no memory.                                       *)
WriteFails(c) ==
  /\ pc = <<"write", c>> /\ (broken[c] \/ ~gone[c])
  /\ pc' = <<"hung", c>>
  /\ UNCHANGED <<clients, counts, memory>>

(* After 2^31 of them the position overflows, and what it then is may or   *)
(* may not end the loop.                                                   *)
Overflow(c) ==
  /\ pc = <<"hung", c>>
  /\ pc' = <<"loop">>
  /\ UNCHANGED <<clients, counts, memory>>

-----------------------------------------------------------------------------
(* event_memcheck_cb: the memory in use may be anything, and the status    *)
(* does not change back.                                                   *)
MemCheck ==
  /\ pc = <<"loop">>
  /\ IF Exhausted
       THEN pc' = <<"dead">> /\ UNCHANGED status
       ELSE status' = -1 /\ UNCHANGED pc
  /\ UNCHANGED <<clients, counts, listening, maxFds>>

Next ==
  \/ \E c \in Client : Connect(c) \/ Send(c) \/ Leave(c) \/ LeaveIgnored(c)
  \/ \E c \in Client : Accept(c) \/ AcceptDrops(c) \/ Ready(c) \/ ReadMore(c)
  \/ \E c \in Client : Write(c) \/ WriteFails(c) \/ Overflow(c)
  \/ AcceptFails \/ CloseListener
  \/ MemCheck

Spec == Init /\ [][Next]_vars

(* Every turn of the loop serves all descriptors that are ready.          *)
(* An answer is written at last, or the retries have run out.              *)
FairSpec ==
  /\ Spec
  /\ SF_vars(CloseListener) /\ SF_vars(AcceptFails)
  /\ \A c \in Client : SF_vars(Accept(c)) /\ SF_vars(Ready(c))
  /\ WF_vars(\E c \in Client : ReadMore(c) \/ Write(c) \/ WriteFails(c))

(* What no code here can ensure: no client leaves half a request unfinished *)
(* for ever.  Without this one client holds up all others.                 *)
Finish(c) == sent[c] = "part" /\ (Send(c) \/ Leave(c))

PatientSpec == FairSpec /\ \A c \in Client : WF_vars(Finish(c))

(* Its writes go on failing, or it is no more.                             *)
Down == Hung \/ Dead
Asks(c) == link[c] = "served" /\ sent[c] = "whole"

-----------------------------------------------------------------------------
(* The types.  Only a served client is read from or written to, and only   *)
(* an open connection has anything in it.                                  *)
TypeOK ==
  /\ maxFds \in FdLimits
  /\ pc \in {<<"loop">>, <<"dead">>} \cup ({"read", "write", "hung"} \X Client)
  /\ pc \notin {<<"loop">>, <<"dead">>} => link[pc[2]] = "served"
  /\ link \in [Client -> {"away", "queued", "served", "ignored", "lost"}]
  /\ sent \in [Client -> {"none", "part", "whole"}]
  /\ gone \in [Client -> BOOLEAN] /\ broken \in [Client -> BOOLEAN]
  /\ \A c \in Client : broken[c] => gone[c]
  /\ \A c \in Client : link[c] # "served" => sent[c] = "none" /\ ~gone[c]
  /\ conn \in Nat /\ leaked \in Nat /\ phantoms \in Nat /\ spoilt \in BOOLEAN
  /\ status \in {1, -1} /\ listening \in BOOLEAN

(* The count is that of the clients served and of the failed accepts, and  *)
(* never over the limit, whoever leaves at whatever moment.                *)
CountAccounts ==
  /\ conn = Cardinality(In("served")) + phantoms
  /\ conn <= MaxClients

(* As long as the process has a descriptor for every client the limit      *)
(* admits, no client has come over it and accept has not misread a length, *)
(* the count is exact and no descriptor is lost: what goes wrong goes      *)
(* wrong at the limit.                                                     *)
ExactUnlessSpoilt ==
  MaxClients <= maxFds /\ ~spoilt => leaked = 0 /\ phantoms = 0

(* A client over the limit costs a descriptor for good, and the process    *)
(* that has none left for a file ends.  It takes as many such clients as   *)
(* there are descriptors beyond those of the clients the limit admits.     *)
DiesOnlyOfLeaks ==
  Dead => Cardinality(In("ignored")) + leaked >= maxFds - MaxClients

(* Every callback returns, also from a client that leaves in the middle of *)
(* its request or does not read its answer, unless the server goes down:   *)
(* it writes on to a client that has reset the connection or that is not   *)
(* reading, or it has no descriptor.                                       *)
LoopReturns == (pc # <<"loop">>) ~> (pc = <<"loop">> \/ Down)

(* Every whole request of a served client is taken up in the end, however  *)
(* many others come and go, unless the server goes down.                   *)
RequestsAreServed ==
  \A c \in Client : Asks(c) ~> (~Asks(c) \/ Down)

(* Nobody waits at the listening socket for ever, also when the server is  *)
(* over its memory limit or has no descriptor: the client is served,       *)
(* ignored or reset, or the server goes down.                              *)
NoneWaitsForEver ==
  \A c \in Client : (link[c] = "queued") ~> (link[c] # "queued" \/ Down)
=============================================================================
